---------------------------- MODULE LargePayload ----------------------------
(***************************************************************************)
(* The large payload transport engine end to end: a sending device          *)
(* (ChunkSender) and a receiving device (ChunkReceiver) joined by a          *)
(* transport that may reorder, repeat and lose chunks, ACKs and CANCELs.    *)
(***************************************************************************)
EXTENDS TransferStates

CONSTANTS
  Window, MaxInFlight, MaxChunkRetries, MaxPumps, Allowed, LateSends, MaxRequeued,
  UniqueRecords, StoreMayFail, InboundEnds, MaxContexts,
  AdvertisedWindows  \* the windows the receiver's memory leaves to advertise

ASSUME ReceiverAssumption ==
  /\ UniqueRecords \in BOOLEAN /\ StoreMayFail \in BOOLEAN
  /\ InboundEnds \subseteq {"cancel", "expire"}
  /\ MaxContexts \in Nat \ {0}

ASSUME AdvertisedAssumption == AdvertisedWindows \subseteq 1..Window

VARIABLES
  open, local, stored, paused, pending, sent, ackedCount, peerWindow,
  inFlight, timer, retries, sending, acking, sweep, controls, carried,
  cancelSent, acked, everPaused, requeued,
  contexts, current, record, creating, receiving, payloads, confirmed

Out == INSTANCE ChunkSender
In  == INSTANCE ChunkReceiver

ASSUME SendingAssumption == Out!SenderAssumption

sender == <<open, local, stored, paused, pending, sent, ackedCount,
            peerWindow, inFlight, timer, retries, sending, acking, sweep,
            controls, carried, cancelSent, acked, everPaused, requeued>>
receiver == <<contexts, current, record, creating, receiving, payloads,
              confirmed>>
vars == <<sender, receiver>>

Init == Out!Init /\ In!Init

SenderStep == Out!LocalNext /\ UNCHANGED receiver

ReceiverStep == In!LocalNext /\ UNCHANGED sender

\* A chunk on its way arrives, and may arrive again.
ChunkArrives(t, c) ==
  /\ c \in carried[t]
  /\ In!ReceiveChunk(t, c)
  /\ UNCHANGED sender

\* An ACK, with the window ReceiverBackpressure.advertisedWindow gave it:
\* smaller the fuller the buffer is, never zero.
AckArrives(t, c) ==
  /\ c \in confirmed[t]
  /\ \E w \in AdvertisedWindows : Out!Ack(t, c, w)
  /\ UNCHANGED receiver

CancelArrives(t) ==
  /\ t \in cancelSent
  /\ In!CancelInbound(t)
  /\ UNCHANGED sender

Next ==
  \/ SenderStep
  \/ ReceiverStep
  \/ \E t \in Transfers :
       \/ CancelArrives(t)
       \/ \E c \in Chunks : ChunkArrives(t, c) \/ AckArrives(t, c)

Spec == Init /\ [][Next]_vars

(***************************************************************************)
(* Properties.                                                             *)
(***************************************************************************)

\* A transfer that the sender completed without counting a chunk twice, which it
\* does where a send fails after its chunk was acknowledged.
Completed(t) == stored[t] = "completed" /\ requeued[t] = 0

\* "COMPLETED: all chunks delivered + payload reconstructed": such a transfer has
\* reached the receiver whole, and its payload is handed over or about to be.
CompletedIsDelivered ==
  \A t \in Transfers : Completed(t) => In!Delivering(t)

\* The ACKs the sender takes are the receiver's: it confirmed those chunks.
HeardOf == \A t \in Transfers : acked[t] \subseteq confirmed[t]

\* It was acknowledged chunk by chunk, and where it is this receiver that
\* acknowledges, it has reached it.
CompletedHasArrived ==
  /\ \A t \in Transfers : Completed(t) => acked[t] = Chunks
  /\ HeardOf => CompletedIsDelivered

\* What one end promises, stated at its module: chunks and the bytes reserved
\* for them are where they have to be.
TypeOK == Out!TypeOK /\ In!TypeOK
ChunksAccounted == Out!ChunksAccounted /\ Out!GuardBalanced
EndsWhenAcked == Out!EndsWhenAcked
PayloadOnce == In!PayloadOnce
ConfirmedIsHeld == In!ConfirmedIsHeld
=============================================================================
