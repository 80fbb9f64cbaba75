----------------------------- MODULE DataPlane -----------------------------
(***************************************************************************)
(* What the two ends of the reliable messaging engine share                *)
(* (server/data-plane): the messages of one conversation, the ACKs, and    *)
(* the delivery states with the transitions the life cycle allows.         *)
(***************************************************************************)
EXTENDS Naturals, Sequences, FiniteSets

CONSTANTS
  Senders,  \* the devices that send into the conversation
  MaxSeq,   \* bound: messages per sender
  MaxAcks   \* bound: ACK envelopes per message

ASSUME DataPlaneAssumption ==
  /\ MaxSeq \in Nat \ {0}
  /\ MaxAcks \in Nat \ {0}

Seqs == 1..MaxSeq

\* A message is known by its sender and by the sequence number that
\* nextSequence gave it in this conversation.
Messages == [from : Senders, seq : Seqs]

\* Every ACK envelope has an ackId of its own: the nth one for message m.
AckIds == [m : Messages, n : 1..MaxAcks]

Active == {"created", "queued", "sending", "sent", "delivered"}
Terminal == {"acknowledged", "failed", "expired", "cancelled", "destroyed"}
States == Active \cup Terminal

\* What listRetryDue looks for.
Retryable == {"sent", "queued", "sending"}

\* ALLOWED_DELIVERY_TRANSITIONS; a state may also be entered again.
Successors ==
  [created      |-> {"queued", "cancelled", "expired"},
   queued       |-> {"sending", "cancelled", "expired", "failed"},
   sending      |-> {"sent", "queued", "delivered", "acknowledged", "failed",
                     "expired"},
   sent         |-> {"sending", "queued", "delivered", "acknowledged",
                     "failed", "expired"},
   delivered    |-> {"acknowledged", "expired"},
   acknowledged |-> {"destroyed"},
   failed       |-> {"destroyed"},
   expired      |-> {"destroyed"},
   cancelled    |-> {"destroyed"},
   destroyed    |-> {}]

CanMove(from, to) == from = to \/ to \in Successors[from]

=============================================================================
