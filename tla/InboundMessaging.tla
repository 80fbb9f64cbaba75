-------------------------- MODULE InboundMessaging --------------------------
(***************************************************************************)
(* The receiving side of the reliable messaging engine                     *)
(* (server/data-plane/manager/messagingEngine.js, receive to _sendAck, with *)
(* ordering/ordering.js and delivery/dedupe.js): one device receives one   *)
(* conversation.  It drops duplicates, restores the order by sequence      *)
(* number, hands each message to the application and acknowledges it.      *)
(*                                                                         *)
(* Duplicate check and ordering run without an await, so they are one      *)
(* step; handing a run of messages over waits for inbound.record before    *)
(* each of them, and other envelopes are handled meanwhile.                *)
(***************************************************************************)
EXTENDS DataPlane

CONSTANTS
  BufferLimit,  \* OrderingEngine.bufferLimit
  DedupeSize,   \* DuplicateCache size
  MaxRestarts,  \* bound: restarts of the receiving process
  RecordMayFail \* whether inbound.record may throw

ASSUME InboundAssumption ==
  /\ BufferLimit \in Nat \ {0}
  /\ DedupeSize \in Nat \ {0}
  /\ MaxRestarts \in Nat
  /\ RecordMayFail \in BOOLEAN

VARIABLES
  seen,       \* messageIds in the duplicate cache, oldest first
  expected,   \* ordering engine: next sequence number
  buffer,     \* ordering engine: reorder buffer
  released,   \* what this ordering engine released so far, in order
  delivering, \* inbound handlers waiting for inbound.record
  app,        \* what the application handlers were given, in order
  acks,       \* ACK envelopes on their way back
  ackCount,   \* ACK envelopes sent so far, per message
  restarts    \* restarts so far

vars == <<seen, expected, buffer, released, delivering, app, acks, ackCount,
          restarts>>

\* A handler that hands "run" over and will then acknowledge "ackFor".
Delivery == [run : Seq(Messages) \ {<<>>}, ackFor : Messages]

TypeOK ==
  /\ seen \in Seq(Messages)
  /\ expected \in 1..(MaxSeq + 1)
  /\ buffer \subseteq Messages
  /\ released \in Seq(Messages)
  /\ delivering \subseteq Delivery
  /\ app \in Seq(Messages)
  /\ acks \subseteq AckIds
  /\ ackCount \in [Messages -> 0..MaxAcks]
  /\ restarts \in 0..MaxRestarts

Init ==
  /\ seen = <<>> /\ expected = 1 /\ buffer = {} /\ released = <<>>
  /\ delivering = {} /\ app = <<>>
  /\ acks = {} /\ ackCount = [m \in Messages |-> 0]
  /\ restarts = 0

\* _sendAck: a fresh ackId each time.  The bound stands for ACKs that get
\* lost; so does a transport that throws, which _sendAck swallows.
SendAck(m) ==
  IF ackCount[m] < MaxAcks
    THEN /\ ackCount' = [ackCount EXCEPT ![m] = @ + 1]
         /\ acks' = acks \cup {[m |-> m, n |-> ackCount[m] + 1]}
    ELSE UNCHANGED <<acks, ackCount>>

InSeen(m) == \E i \in DOMAIN seen : seen[i] = m

\* LruSet.add of an id that is not there: the oldest entry makes room.
Remember(m) ==
  seen' = IF Len(seen) < DedupeSize THEN Append(seen, m)
          ELSE Tail(Append(seen, m))

Buffered(n) == \E b \in buffer : b.seq = n

\* A copy of a message the cache knows is only acknowledged again.
ReceiveDuplicate(m) ==
  /\ InSeen(m)
  /\ SendAck(m)
  /\ UNCHANGED <<seen, expected, buffer, released, delivering, app, restarts>>

\* accept below the expected number: nothing to deliver, still acknowledged.
ReceiveStale(m) ==
  /\ ~ InSeen(m) /\ Remember(m)
  /\ m.seq < expected
  /\ SendAck(m)
  /\ UNCHANGED <<expected, buffer, released, delivering, app,
                 restarts>>

\* The buffered messages with the numbers first..next-1, all there are up to
\* the first hole.
IsRun(b, first, next) ==
  /\ \A n \in first..(next - 1) : \E k \in b : k.seq = n
  /\ ~ \E k \in b : k.seq = next

RunOf(b, first, next) ==
  [i \in 1..(next - first) |-> CHOOSE k \in b : k.seq = first + i - 1]

\* The handler begins to hand the run over; it will acknowledge m.
Release(run, m) ==
  /\ released' = released \o run
  /\ delivering' = delivering \cup {[run |-> run, ackFor |-> m]}

\* Mutation: the run behind the message is left in the buffer.
ReceiveNextNoDrain(m) ==
  /\ ~ InSeen(m) /\ Remember(m)
  /\ m.seq = expected
  /\ Release(<<m>>, m)
  /\ expected' = expected + 1
  /\ UNCHANGED <<buffer, acks, ackCount, app, restarts>>

\* Mutation: a number below the expected one is not recognised.
ReceiveNextUnchecked(m) ==
  /\ ~ InSeen(m) /\ Remember(m)
  /\ m.seq <= expected
  /\ \E next \in (expected + 1)..(MaxSeq + 1) :
       /\ IsRun(buffer, expected + 1, next)
       /\ Release(<<m>> \o RunOf(buffer, expected + 1, next), m)
       /\ expected' = next
       /\ buffer' = {b \in buffer : b.seq \notin (expected + 1)..(next - 1)}
  /\ UNCHANGED <<acks, ackCount, app, restarts>>

\* Mutation: the expected number runs one ahead.
ReceiveNextSkips(m) ==
  /\ ~ InSeen(m) /\ Remember(m)
  /\ m.seq = expected
  /\ \E next \in (expected + 1)..(MaxSeq + 1) :
       /\ IsRun(buffer, expected + 1, next)
       /\ Release(<<m>> \o RunOf(buffer, expected + 1, next), m)
       /\ expected' = next + 1
       /\ buffer' = {b \in buffer : b.seq \notin (expected + 1)..(next - 1)}
  /\ UNCHANGED <<acks, ackCount, app, restarts>>

\* accept at the expected number: the message and the run behind it.
ReceiveNext(m) ==
  /\ ~ InSeen(m) /\ Remember(m)
  /\ m.seq = expected
  /\ \E next \in (expected + 1)..(MaxSeq + 1) :
       /\ IsRun(buffer, expected + 1, next)
       /\ Release(<<m>> \o RunOf(buffer, expected + 1, next), m)
       /\ expected' = next
       /\ buffer' = {b \in buffer : b.seq \notin (expected + 1)..(next - 1)}
  /\ UNCHANGED <<acks, ackCount, app, restarts>>

\* The buffer with m in it, unless its number is taken.
Held(m) == IF Buffered(m.seq) THEN buffer ELSE buffer \cup {m}

\* Mutation: the message is acknowledged but not kept.
ReceiveGapForgets(m) ==
  /\ ~ InSeen(m) /\ Remember(m)
  /\ m.seq > expected
  /\ Cardinality(Held(m)) <= BufferLimit
  /\ SendAck(m)
  /\ UNCHANGED <<buffer, expected, released, delivering, app, restarts>>

\* Mutation: the message is delivered at once, over the gap.
ReceiveGapDelivers(m) ==
  /\ ~ InSeen(m) /\ Remember(m)
  /\ m.seq > expected
  /\ Release(<<m>>, m)
  /\ expected' = m.seq + 1
  /\ UNCHANGED <<buffer, acks, ackCount, app, restarts>>

\* Mutation: one message more than the limit is kept.
ReceiveGapOverfull(m) ==
  /\ ~ InSeen(m) /\ Remember(m)
  /\ m.seq > expected
  /\ Cardinality(Held(m)) <= BufferLimit + 1
  /\ buffer' = Held(m)
  /\ SendAck(m)
  /\ UNCHANGED <<expected, released, delivering, app, restarts>>

\* accept beyond the expected number: held in the buffer, and acknowledged.
ReceiveGap(m) ==
  /\ ~ InSeen(m) /\ Remember(m)
  /\ m.seq > expected
  /\ Cardinality(Held(m)) <= BufferLimit
  /\ buffer' = Held(m)
  /\ SendAck(m)
  /\ UNCHANGED <<expected, released, delivering, app, restarts>>

\* _forceRecover: the full buffer gives up the gap below its lowest message.
ReceiveOverflow(m) ==
  /\ ~ InSeen(m) /\ Remember(m)
  /\ m.seq > expected
  /\ Cardinality(Held(m)) > BufferLimit
  /\ \E lowest \in Held(m), next \in Seqs \cup {MaxSeq + 1} :
       /\ \A b \in Held(m) : lowest.seq <= b.seq
       /\ lowest.seq < next
       /\ IsRun(Held(m), lowest.seq, next)
       /\ Release(RunOf(Held(m), lowest.seq, next), m)
       /\ expected' = next
       /\ buffer' = {b \in Held(m) : b.seq \notin lowest.seq..(next - 1)}
  /\ UNCHANGED <<acks, ackCount, app, restarts>>

Receive(m) == \/ ReceiveDuplicate(m) \/ ReceiveStale(m) \/ ReceiveNext(m)
              \/ ReceiveGap(m) \/ ReceiveOverflow(m)

\* inbound.record answered for the first message of the run: the application
\* handlers get it, and after the last one the ACK goes out.
HandOver(d) ==
  /\ d \in delivering
  /\ app' = Append(app, Head(d.run))
  /\ IF Len(d.run) = 1
       THEN delivering' = delivering \ {d} /\ SendAck(d.ackFor)
       ELSE /\ delivering' = (delivering \ {d}) \cup
                               {[d EXCEPT !.run = Tail(@)]}
            /\ UNCHANGED <<acks, ackCount>>
  /\ UNCHANGED <<seen, expected, buffer, released, restarts>>

\* inbound.record throws: the handler ends there, without an ACK.
RecordFails(d) ==
  /\ RecordMayFail
  /\ d \in delivering
  /\ delivering' = delivering \ {d}
  /\ UNCHANGED <<acks, ackCount, seen, expected, buffer,
                 released, app, restarts>>

\* The process restarts: duplicate cache and ordering engine are in memory,
\* and nothing calls `seed` with the saved ordering metadata.
Restart ==
  /\ restarts < MaxRestarts
  /\ restarts' = restarts + 1
  /\ seen' = <<>> /\ expected' = 1 /\ buffer' = {} /\ released' = <<>>
  /\ delivering' = {}
  /\ UNCHANGED <<app, acks, ackCount>>

LocalNext == \/ \E d \in delivering : HandOver(d) \/ RecordFails(d)
             \/ Restart

\* By itself the engine faces a transport that may bring any message at any
\* time, any number of times or never.
Next == LocalNext \/ \E m \in Messages : Receive(m)

Spec == Init /\ [][Next]_vars

(***************************************************************************)
(* Properties.                                                             *)
(***************************************************************************)

Increasing(s) == \A i, j \in DOMAIN s : i < j => s[i].seq < s[j].seq

\* The ordering engine releases by strictly increasing sequence number, so
\* nothing is released twice, whatever the transport repeats or reorders,
\* whatever the duplicate cache has forgotten, and across forced recoveries.
ReleasedInOrder ==
  /\ Increasing(released)
  /\ \A i \in DOMAIN released : released[i].seq < expected

\* The reorder buffer never holds on to a message that could be delivered:
\* everything in it is beyond a hole, with one message for a number.
BufferWaitsForHole ==
  /\ \A b \in buffer : b.seq > expected
  /\ \A a, b \in buffer : a.seq = b.seq => a = b

\* The buffer keeps to its limit: a message too many forces a recovery.
BufferIsBounded == Cardinality(buffer) <= BufferLimit

InSequence(m, s) == \E i \in DOMAIN s : s[i] = m

HandingOver(m) == \E d \in delivering : InSequence(m, d.run)

Acked(m) == ackCount[m] > 0

\* A message that was acknowledged is not lost on this device: it was handed
\* to the application, a handler is about to, or it waits in the buffer.
AckedIsHeld ==
  \A m \in Messages : Acked(m) =>
    InSequence(m, app) \/ HandingOver(m) \/ m \in buffer

\* "the receiver's DuplicateCache guarantees at-most-once delivery to the
\* app" (LAYER8_SPRINT1_RELIABLE_MESSAGING.md) while the receiver runs; both
\* the cache and the ordering engine forget everything in a restart.
AtMostOnce ==
  restarts = 0 => \A i, j \in DOMAIN app : app[i] = app[j] => i = j

\* "invoked, in order, with each inbound message's OPAQUE ciphertext"
\* (onMessage).
AppInOrder == Increasing(app)
=============================================================================
