------------------------------ MODULE MCPayload ------------------------------
(***************************************************************************)
(* The large payload engine for model checking.  "part" chooses in the     *)
(* initial state between the sender alone, before a peer that may          *)
(* acknowledge whatever was carried, with pauses, or with expiry and sends *)
(* that fail or answer late; sender and receiver together; and both with   *)
(* cancellations, one chunk at a time in flight.                           *)
(***************************************************************************)
EXTENDS LargePayload

VARIABLE part

Alone == INSTANCE ChunkSender
           WITH MaxPumps <- 2, Allowed <- {"pause"}

Late == INSTANCE ChunkSender
          WITH LateSends <- TRUE, MaxChunkRetries <- 0, Allowed <- {"expire"}

Together == INSTANCE LargePayload WITH MaxChunkRetries <- 0

Cancelling == INSTANCE LargePayload
                WITH Window <- 1, AdvertisedWindows <- {1}, MaxInFlight <- 1,
                     MaxChunkRetries <- 0, Allowed <- {"cancel"}

PartInit ==
  \/ part \in {"sender", "late", "both"} /\ Init
  \/ part = "cancel" /\ Cancelling!Init

PartNext == /\ \/ part = "sender" /\ Alone!Next /\ UNCHANGED receiver
               \/ part = "late" /\ Late!Next /\ UNCHANGED receiver
               \/ part = "both" /\ Together!Next
               \/ part = "cancel" /\ Cancelling!Next
            /\ UNCHANGED part

PartSpec == PartInit /\ [][PartNext]_<<vars, part>>
=============================================================================
