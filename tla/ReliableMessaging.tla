-------------------------- MODULE ReliableMessaging --------------------------
(***************************************************************************)
(* The reliable messaging engine end to end: sending devices               *)
(* (OutboundMessaging) and the receiving device (InboundMessaging) joined  *)
(* by a transport that may reorder, repeat and lose envelopes.             *)
(***************************************************************************)
EXTENDS DataPlane

CONSTANTS
  MaxRetries, BufferLimit, DedupeSize, Sweepers, Allowed,
  MaxRestarts, \* bound: restarts of the sending processes
  Loss,        \* whether the transport may lose envelopes
  Duplication  \* whether it may bring one again

ASSUME TransportAssumption == Loss \in BOOLEAN /\ Duplication \in BOOLEAN

VARIABLES
  msgs, queue, tasks, acking, ackSeen, wire, attempts,
  seen, expected, buffer, released, delivering, app, acks, ackCount,
  restarts

Out == INSTANCE OutboundMessaging
In  == INSTANCE InboundMessaging WITH MaxRestarts <- 0, RecordMayFail <- FALSE

ASSUME SendingAssumption == Out!OutboundAssumption

sender   == <<msgs, queue, tasks, acking, ackSeen, attempts>>
receiver == <<seen, expected, buffer, released, delivering, app, ackCount>>
vars == <<sender, wire, receiver, acks, restarts>>

Init == Out!Init /\ In!Init

SenderStep == Out!LocalNext /\ UNCHANGED <<receiver, acks>>

ReceiverStep == In!LocalNext /\ UNCHANGED <<sender, wire>>

\* An envelope that arrives may arrive again.
Taken(e, channel) == {channel \ {e}} \cup (IF Duplication THEN {channel} ELSE {})

ReceiveData(m) ==
  /\ m \in wire
  /\ wire' \in Taken(m, wire)
  /\ In!Receive(m)
  /\ UNCHANGED sender

ReceiveAck(a) ==
  /\ a \in acks
  /\ acks' \in Taken(a, acks)
  /\ Out!AckArrives(a)
  /\ UNCHANGED receiver

\* An ACK whose ackId is known is dropped by the sender.
RepeatedAck(a) ==
  /\ a \in acks \cap ackSeen
  /\ acks' = acks \ {a}
  /\ UNCHANGED <<sender, wire, receiver, restarts>>

LoseData(m) ==
  /\ Loss /\ m \in wire
  /\ wire' = wire \ {m}
  /\ UNCHANGED <<sender, receiver, acks, restarts>>

LoseAck(a) ==
  /\ Loss /\ a \in acks
  /\ acks' = acks \ {a}
  /\ UNCHANGED <<sender, wire, receiver, restarts>>

Next == \/ SenderStep
        \/ ReceiverStep
        \/ \E m \in wire : ReceiveData(m) \/ LoseData(m)
        \/ \E a \in acks : ReceiveAck(a) \/ RepeatedAck(a) \/ LoseAck(a)

Spec == Init /\ [][Next]_vars

\* What the engines do for a message, in a sweep and for an ACK, by itself
\* (MCDataPlane states fairness of it).
SendWork(m) ==
  /\ \E t \in tasks : t.by = "send" /\ t.cur.m = m /\ Out!Work(t)
  /\ UNCHANGED <<receiver, acks>>
HandOverWork(m) ==
  /\ \E d \in delivering : d.ackFor = m /\ In!HandOver(d)
  /\ UNCHANGED <<sender, wire>>
TimerRuns(m) == Out!TimerDue(m) /\ UNCHANGED <<receiver, acks>>
Ticks(w, s) == Out!Tick(w, s) /\ UNCHANGED <<receiver, acks>>
SweepWork(w, s) ==
  /\ \E t \in tasks : t.by = w /\ t.cur.m.from = s /\ Out!Work(t)
  /\ UNCHANGED <<receiver, acks>>
AckWork(a) ==
  /\ \E h \in acking : h.id = a /\ Out!FinishAck(h)
  /\ UNCHANGED <<receiver, acks>>

(***************************************************************************)
(* Properties.                                                             *)
(***************************************************************************)

\* The sending side, stated at OutboundMessaging.
TypeOK == Out!TypeOK
NotStranded == Out!NotStranded
FailedAfterAllRetries == Out!FailedAfterAllRetries
QueueForgets == Out!QueueForgets

\* "ACK received -- guaranteed delivered": a message the sender holds as
\* ACKNOWLEDGED is with the receiver's application, or the receiver still has
\* it and will hand it over.
AcknowledgedIsHeld ==
  \A m \in Messages : msgs[m].state = "acknowledged" =>
    \/ In!InSequence(m, app) \/ In!HandingOver(m) \/ m \in buffer

\* The promise of the abstract specification, for a single sender.
Delivery == INSTANCE OrderedDelivery
              WITH sent <- {m \in Messages : msgs[m].state # "absent"},
                   delivered <- released

KeepsPromise == Delivery!Spec
=============================================================================
