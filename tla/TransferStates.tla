--------------------------- MODULE TransferStates ---------------------------
(***************************************************************************)
(* What both ends of the large payload transport engine share              *)
(* (server/transport-engine): transfers, the chunks a payload is cut into, *)
(* and the life of a transfer.                                             *)
(***************************************************************************)
EXTENDS Naturals, Sequences, FiniteSets, FiniteSetsExt

CONSTANTS
  Transfers,  \* transferIds
  ChunkCount  \* totalChunks of every payload

ASSUME TransfersAssumption ==
  /\ IsFiniteSet(Transfers)
  /\ ChunkCount \in Nat \ {0}

\* Chunks by index, counted from 1.  A chunk stands for a unit of size.
Chunks == 1..ChunkCount

Ended == {"completed", "failed", "cancelled", "expired"}

\* The states transfers are seen in: created and fragmenting are left before
\* a transfer is registered, destroyed is never entered.
Transferring == {"active", "paused", "reassembling"}

TransferState == Transferring \cup Ended

Successors(s) ==
  CASE s = "active" -> {"paused", "reassembling"} \cup Ended
    [] s = "paused" -> {"active", "reassembling", "cancelled", "expired",
                        "failed"}
    [] s = "reassembling" -> {"active", "paused"} \cup Ended
    [] OTHER -> {}

\* assertTransferTransition lets a state follow itself.
CanMove(from, to) == to = from \/ to \in Successors(from)
=============================================================================
