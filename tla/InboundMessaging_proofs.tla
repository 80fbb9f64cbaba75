----------------------- MODULE InboundMessaging_proofs -----------------------
(***************************************************************************)
(* Proofs about the receiving side, for every number of senders and        *)
(* messages and every size of buffer and duplicate cache.                  *)
(***************************************************************************)
EXTENDS InboundMessaging, TLAPS, SequenceTheorems, FiniteSetTheorems

\* The run the ordering engine takes out of the buffer is a sequence of
\* messages numbered first, first + 1, ... without a hole.
LEMMA RunIsConsecutive ==
  ASSUME NEW b \in SUBSET Messages, NEW first \in Nat, NEW next \in Nat,
         first <= next, IsRun(b, first, next)
  PROVE  /\ RunOf(b, first, next) \in Seq(Messages)
         /\ Len(RunOf(b, first, next)) = next - first
         /\ \A i \in 1..(next - first) :
              RunOf(b, first, next)[i].seq = first + i - 1
<1> DEFINE run == RunOf(b, first, next)
           pick(i) == CHOOSE k \in b : k.seq = first + i - 1
<1>1. \A i \in 1..(next - first) : pick(i) \in b /\ pick(i).seq = first + i - 1
  <2> TAKE i \in 1..(next - first)
  <2>1. first + i - 1 \in first..(next - 1)
    OBVIOUS
  <2>2. \E k \in b : k.seq = first + i - 1
    BY <2>1 DEF IsRun
  <2> QED
    BY <2>2
<1>2. run = [i \in 1..(next - first) |-> pick(i)]
  BY DEF RunOf
<1>3. next - first \in Nat
  OBVIOUS
<1>4. run \in [1..(next - first) -> Messages]
  BY <1>1, <1>2
<1>5. run \in Seq(Messages) /\ Len(run) = next - first
  BY <1>3, <1>4, LenProperties
<1> QED
  BY <1>1, <1>2, <1>5

\* Releasing consecutive numbers that begin at "first" keeps the released
\* numbers increasing when all of them are below "first".
LEMMA ReleaseKeepsOrder ==
  ASSUME NEW s \in Seq(Messages), NEW r \in Seq(Messages), NEW first \in Nat,
         Increasing(s),
         \A i \in DOMAIN s : s[i].seq < first,
         \A i \in 1..Len(r) : r[i].seq = first + i - 1
  PROVE  /\ s \o r \in Seq(Messages)
         /\ Increasing(s \o r)
         /\ \A i \in DOMAIN (s \o r) : (s \o r)[i].seq < first + Len(r)
<1> DEFINE c == s \o r
<1>1. c \in Seq(Messages) /\ Len(c) = Len(s) + Len(r)
  OBVIOUS
<1>2. DOMAIN c = 1..(Len(s) + Len(r)) /\ DOMAIN s = 1..Len(s)
  BY <1>1
<1>3. \A i \in 1..Len(s) : c[i] = s[i] /\ s[i].seq \in Nat
  <2> TAKE i \in 1..Len(s)
  <2>1. c[i] = s[i]
    OBVIOUS
  <2>2. s[i] \in Messages
    BY ElementOfSeq
  <2> QED
    BY <2>1, <2>2 DEF Messages, Seqs
<1>4. \A i \in (Len(s) + 1)..(Len(s) + Len(r)) :
        c[i].seq = first + (i - Len(s)) - 1
  <2> TAKE i \in (Len(s) + 1)..(Len(s) + Len(r))
  <2>1. i - Len(s) \in 1..Len(r) /\ c[i] = r[i - Len(s)]
    OBVIOUS
  <2> QED
    BY <2>1
<1>5. \A i \in DOMAIN c : c[i].seq < first + Len(r)
  <2> SUFFICES ASSUME NEW i \in DOMAIN c PROVE c[i].seq < first + Len(r)
    OBVIOUS
  <2>1. CASE i \in 1..Len(s)
    BY <2>1, <1>2, <1>3
  <2>2. CASE i \in (Len(s) + 1)..(Len(s) + Len(r))
    BY <2>2, <1>4
  <2> QED
    BY <1>2, <2>1, <2>2
<1>6. Increasing(c)
  <2> SUFFICES ASSUME NEW i \in DOMAIN c, NEW j \in DOMAIN c, i < j
               PROVE  c[i].seq < c[j].seq
    BY DEF Increasing
  <2>1. CASE j \in 1..Len(s)
    BY <2>1, <1>2, <1>3 DEF Increasing
  <2>2. CASE i \in 1..Len(s) /\ j \in (Len(s) + 1)..(Len(s) + Len(r))
    BY <2>2, <1>2, <1>3, <1>4
  <2>3. CASE i \in (Len(s) + 1)..(Len(s) + Len(r)) /\ j \in (Len(s) + 1)..(Len(s) + Len(r))
    BY <2>3, <1>4
  <2> QED
    BY <1>2, <2>1, <2>2, <2>3
<1> QED
  BY <1>1, <1>5, <1>6

\* What the accept at the expected number releases: m, then the run behind it.
LEMMA NextRun ==
  ASSUME NEW b \in SUBSET Messages, NEW m \in Messages, NEW next \in Nat,
         m.seq < next, IsRun(b, m.seq + 1, next)
  PROVE  /\ <<m>> \o RunOf(b, m.seq + 1, next) \in Seq(Messages)
         /\ Len(<<m>> \o RunOf(b, m.seq + 1, next)) = next - m.seq
         /\ \A i \in 1..(next - m.seq) :
              (<<m>> \o RunOf(b, m.seq + 1, next))[i].seq = m.seq + i - 1
<1> DEFINE tail == RunOf(b, m.seq + 1, next)
           run == <<m>> \o tail
<1>1. m.seq \in Nat
  BY DEF Messages, Seqs
<1>2. /\ tail \in Seq(Messages)
      /\ Len(tail) = next - (m.seq + 1)
      /\ \A i \in 1..(next - (m.seq + 1)) : tail[i].seq = m.seq + 1 + i - 1
  <2>1. m.seq + 1 \in Nat /\ m.seq + 1 <= next
    BY <1>1
  <2> QED
    BY <2>1, RunIsConsecutive
<1> HIDE DEF tail
<1>3. run \in Seq(Messages) /\ Len(run) = next - m.seq
  BY <1>1, <1>2
<1>4. \A i \in 1..(next - m.seq) : run[i].seq = m.seq + i - 1
  <2> HIDE DEF run
  <2> SUFFICES ASSUME NEW i \in 1..(next - m.seq)
               PROVE  run[i].seq = m.seq + i - 1
    OBVIOUS
  <2>1. CASE i = 1
    <3>1. run[1] = m
      BY <1>2 DEF run
    <3>2. m.seq + i - 1 = m.seq
      BY <1>1, <2>1
    <3>3. run[i] = m
      BY <2>1, <3>1
    <3> QED
      BY <3>2, <3>3
  <2>2. CASE i # 1
    <3>1. i - 1 \in 1..(next - (m.seq + 1)) /\ run[i] = tail[i - 1]
      BY <1>1, <1>2, <2>2 DEF run
    <3>2. tail[i - 1].seq = m.seq + 1 + (i - 1) - 1
      BY <1>2, <3>1
    <3>3. m.seq + 1 + (i - 1) - 1 = m.seq + i - 1
      BY <1>1
    <3> QED
      BY <3>1, <3>2, <3>3
  <2> QED
    BY <2>1, <2>2
<1> QED
  BY <1>3, <1>4 DEF tail, run

LEMMA AckTypeOK ==
  ASSUME NEW m \in Messages, TypeOK, SendAck(m)
  PROVE  acks' \subseteq AckIds /\ ackCount' \in [Messages -> 0..MaxAcks]
<1>1. CASE ackCount[m] < MaxAcks
  <2>1. ackCount[m] + 1 \in 1..MaxAcks
    BY <1>1, DataPlaneAssumption DEF TypeOK
  <2> QED
    <3>1. /\ ackCount' = [ackCount EXCEPT ![m] = ackCount[m] + 1]
          /\ acks' = acks \cup {[m |-> m, n |-> ackCount[m] + 1]}
      BY <1>1 DEF SendAck
    <3>2. ackCount \in [Messages -> 0..MaxAcks] /\ acks \subseteq AckIds
      BY DEF TypeOK
    <3>3. ackCount' \in [Messages -> 0..MaxAcks]
      <4>1. ackCount[m] + 1 \in 0..MaxAcks
        BY <2>1
      <4> QED
        BY <3>1, <3>2, <4>1
    <3>4. acks' \subseteq AckIds
      BY <2>1, <3>1, <3>2 DEF AckIds
    <3> QED
      BY <3>3, <3>4
<1>2. CASE ~ (ackCount[m] < MaxAcks)
  BY <1>2 DEF SendAck, TypeOK
<1> QED
  BY <1>1, <1>2

LEMMA RememberTypeOK ==
  ASSUME NEW m \in Messages, TypeOK, Remember(m)
  PROVE  seen' \in Seq(Messages)
<1>1. /\ Append(seen, m) \in Seq(Messages)
      /\ Append(seen, m) # <<>>
  BY AppendProperties DEF TypeOK
<1>2. Tail(Append(seen, m)) \in Seq(Messages)
  BY <1>1, HeadTailProperties
<1> QED
  BY <1>1, <1>2 DEF Remember

\* Every type of TypeOK is kept by every step.
LEMMA TypeStep == TypeOK /\ [Next]_vars => TypeOK'
<1> SUFFICES ASSUME TypeOK, [Next]_vars PROVE TypeOK'
  OBVIOUS
<1>1. ASSUME NEW m \in Messages, ReceiveDuplicate(m) PROVE TypeOK'
  BY <1>1, AckTypeOK DEF ReceiveDuplicate, TypeOK
<1>2. ASSUME NEW m \in Messages, ReceiveStale(m) PROVE TypeOK'
  BY <1>2, AckTypeOK, RememberTypeOK DEF ReceiveStale, TypeOK
<1>3. ASSUME NEW m \in Messages, ReceiveNext(m) PROVE TypeOK'
  <2>1. PICK next \in (expected + 1)..(MaxSeq + 1) :
          /\ IsRun(buffer, expected + 1, next)
          /\ Release(<<m>> \o RunOf(buffer, expected + 1, next), m)
          /\ expected' = next
          /\ buffer' = {b \in buffer : b.seq \notin (expected + 1)..(next - 1)}
    BY <1>3 DEF ReceiveNext
  <2>2. m.seq = expected
    BY <1>3 DEF ReceiveNext
  <2> DEFINE run == <<m>> \o RunOf(buffer, expected + 1, next)
  <2>3. run \in Seq(Messages) /\ Len(run) = next - expected
    <3>1. next \in Nat /\ m.seq < next /\ IsRun(buffer, m.seq + 1, next)
      BY <2>1, <2>2, DataPlaneAssumption DEF TypeOK
    <3> QED
      BY <2>2, <3>1, NextRun DEF TypeOK
  <2>4. run \in Seq(Messages) \ {<<>>}
    BY <2>1, <2>3, DataPlaneAssumption DEF TypeOK
  <2>5. released' \in Seq(Messages) /\ delivering' \subseteq Delivery
    <3>1. /\ released' = released \o run
          /\ delivering' = delivering \cup {[run |-> run, ackFor |-> m]}
      BY <2>1 DEF Release
    <3> HIDE DEF run
    <3>2. [run |-> run, ackFor |-> m] \in Delivery
      BY <2>4 DEF Delivery
    <3> QED
      BY <2>4, <3>1, <3>2 DEF TypeOK
  <2>6. expected' \in 1..(MaxSeq + 1) /\ buffer' \subseteq Messages
    BY <2>1, DataPlaneAssumption DEF TypeOK
  <2>7. seen' \in Seq(Messages)
    BY <1>3, RememberTypeOK DEF ReceiveNext
  <2> QED
    BY <1>3, <2>5, <2>6, <2>7 DEF ReceiveNext, TypeOK
<1>4. ASSUME NEW m \in Messages, ReceiveGap(m) PROVE TypeOK'
  BY <1>4, AckTypeOK, RememberTypeOK DEF ReceiveGap, Held, TypeOK
<1>5. ASSUME NEW m \in Messages, ReceiveOverflow(m) PROVE TypeOK'
  <2>1. PICK lowest \in Held(m), next \in Seqs \cup {MaxSeq + 1} :
          /\ lowest.seq < next
          /\ IsRun(Held(m), lowest.seq, next)
          /\ Release(RunOf(Held(m), lowest.seq, next), m)
          /\ expected' = next
          /\ buffer' = {b \in Held(m) : b.seq \notin lowest.seq..(next - 1)}
    BY <1>5 DEF ReceiveOverflow
  <2>2. Held(m) \in SUBSET Messages
    BY DEF Held, TypeOK
  <2>3. lowest.seq \in Nat /\ next \in 1..(MaxSeq + 1)
    BY <2>1, <2>2, DataPlaneAssumption DEF Messages, Seqs
  <2> DEFINE run == RunOf(Held(m), lowest.seq, next)
  <2>4. run \in Seq(Messages) /\ Len(run) = next - lowest.seq
    BY <2>1, <2>2, <2>3, RunIsConsecutive
  <2>5. run \in Seq(Messages) \ {<<>>}
    BY <2>1, <2>3, <2>4
  <2>6. released' \in Seq(Messages) /\ delivering' \subseteq Delivery
    <3>1. /\ released' = released \o run
          /\ delivering' = delivering \cup {[run |-> run, ackFor |-> m]}
      BY <2>1 DEF Release
    <3> HIDE DEF run
    <3>2. [run |-> run, ackFor |-> m] \in Delivery
      BY <2>5 DEF Delivery
    <3> QED
      BY <2>5, <3>1, <3>2 DEF TypeOK
  <2>7. seen' \in Seq(Messages)
    BY <1>5, RememberTypeOK DEF ReceiveOverflow
  <2> QED
    BY <1>5, <2>1, <2>2, <2>3, <2>6, <2>7 DEF ReceiveOverflow, TypeOK
<1>6. ASSUME NEW d \in delivering, HandOver(d) PROVE TypeOK'
  <2>1. d.run \in Seq(Messages) /\ d.run # <<>> /\ d.ackFor \in Messages
    BY DEF TypeOK, Delivery
  <2>2. app' \in Seq(Messages)
    BY <1>6, <2>1 DEF HandOver, TypeOK
  <2>3. CASE Len(d.run) = 1
    BY <1>6, <2>1, <2>2, <2>3, AckTypeOK DEF HandOver, TypeOK
  <2>4. CASE Len(d.run) # 1
    <3>1. Tail(d.run) \in Seq(Messages) /\ Tail(d.run) # <<>>
      <4>1. Len(d.run) \in Nat \ {0}
        BY <2>1, EmptySeq
      <4>2. /\ Tail(d.run) \in Seq(Messages)
            /\ Len(Tail(d.run)) = Len(d.run) - 1
        BY <2>1, HeadTailProperties
      <4>3. Len(Tail(d.run)) # 0
        BY <2>4, <4>1, <4>2
      <4> QED
        BY <4>2, <4>3, EmptySeq
    <3>2. [d EXCEPT !.run = Tail(@)] \in Delivery
      BY <3>1 DEF TypeOK, Delivery
    <3> QED
      BY <1>6, <2>2, <2>4, <3>2 DEF HandOver, TypeOK
  <2> QED
    BY <2>3, <2>4
<1>7. ASSUME NEW d \in delivering, RecordFails(d) PROVE TypeOK'
  BY <1>7 DEF RecordFails, TypeOK
<1>8. CASE Restart
  BY <1>8, DataPlaneAssumption, InboundAssumption DEF Restart, TypeOK
<1>9. CASE UNCHANGED vars
  BY <1>9 DEF vars, TypeOK
<1> QED
  BY <1>1, <1>2, <1>3, <1>4, <1>5, <1>6, <1>7, <1>8, <1>9
  DEF Next, LocalNext, Receive

\* The variables of the receiver keep their types.
THEOREM TypeCorrect == Spec => []TypeOK
<1>1. Init => TypeOK
  BY DataPlaneAssumption, InboundAssumption DEF Init, TypeOK
<1> QED
  BY <1>1, TypeStep, PTL DEF Spec

(***************************************************************************)
(* The ordering engine.  That the released numbers increase is inductive   *)
(* only together with what the buffer holds: were a buffered number at or  *)
(* below the expected one, a forced recovery could go back.                *)
(***************************************************************************)
OrderInv == ReleasedInOrder /\ BufferWaitsForHole

\* A step that releases "run", numbered first, first + 1, ..., next - 1, and
\* then expects "next".
LEMMA ReleaseStep ==
  ASSUME TypeOK, ReleasedInOrder,
         NEW m, NEW run \in Seq(Messages), NEW first \in Nat, NEW next \in Nat,
         expected <= first, Len(run) = next - first,
         \A i \in 1..(next - first) : run[i].seq = first + i - 1,
         Release(run, m), expected' = next
  PROVE  ReleasedInOrder'
<1>1. released \in Seq(Messages) /\ expected \in Nat
  BY DataPlaneAssumption DEF TypeOK
<1>2. \A i \in DOMAIN released : released[i].seq \in Nat
  <2>1. \A i \in DOMAIN released : released[i] \in Messages
    BY <1>1
  <2> QED
    BY <2>1 DEF Messages, Seqs
<1>3. \A i \in DOMAIN released : released[i].seq < first
  BY <1>1, <1>2 DEF ReleasedInOrder
<1>4. Increasing(released)
  BY DEF ReleasedInOrder
<1>5. \A i \in 1..Len(run) : run[i].seq = first + i - 1
  OBVIOUS
<1>6. /\ Increasing(released \o run)
      /\ \A i \in DOMAIN (released \o run) :
           (released \o run)[i].seq < first + Len(run)
  BY <1>1, <1>3, <1>4, <1>5, ReleaseKeepsOrder
<1>7. first + Len(run) = next
  OBVIOUS
<1>8. released' = released \o run
  BY DEF Release
<1> QED
  BY <1>6, <1>7, <1>8 DEF ReleasedInOrder, Increasing

LEMMA OrderStep == TypeOK /\ OrderInv /\ [Next]_vars => OrderInv'
<1> SUFFICES ASSUME TypeOK, OrderInv, [Next]_vars PROVE OrderInv'
  OBVIOUS
<1> USE DEF OrderInv
<1>0. /\ \A b \in buffer : b \in Messages /\ b.seq \in Nat
      /\ expected \in Nat
      /\ \A m \in Messages : m.seq \in Nat
  BY DataPlaneAssumption DEF TypeOK, Messages, Seqs
<1>1. ASSUME UNCHANGED <<released, expected, buffer>> PROVE OrderInv'
  BY <1>1 DEF ReleasedInOrder, BufferWaitsForHole, Increasing
<1>2. ASSUME NEW m \in Messages, ReceiveNext(m) PROVE OrderInv'
  <2>1. PICK next \in (expected + 1)..(MaxSeq + 1) :
          /\ IsRun(buffer, expected + 1, next)
          /\ Release(<<m>> \o RunOf(buffer, expected + 1, next), m)
          /\ expected' = next
          /\ buffer' = {b \in buffer : b.seq \notin (expected + 1)..(next - 1)}
    BY <1>2 DEF ReceiveNext
  <2>2. m.seq = expected
    BY <1>2 DEF ReceiveNext
  <2> DEFINE run == <<m>> \o RunOf(buffer, expected + 1, next)
  <2>3. next \in Nat /\ m.seq < next /\ buffer \in SUBSET Messages
    BY <1>0, <2>1, <2>2, DataPlaneAssumption DEF TypeOK
  <2>4. /\ run \in Seq(Messages) /\ Len(run) = next - expected
        /\ \A i \in 1..(next - expected) : run[i].seq = expected + i - 1
    BY <2>1, <2>2, <2>3, NextRun
  <2>5. Release(run, m)
    BY <2>1
  <2> HIDE DEF run
  <2>6. ReleasedInOrder'
    BY <1>0, <2>1, <2>3, <2>4, <2>5, ReleaseStep
  <2>7. \A b \in buffer' : b.seq > expected'
    BY <1>0, <2>1, <2>3 DEF IsRun, BufferWaitsForHole
  <2> QED
    BY <2>1, <2>6, <2>7 DEF BufferWaitsForHole
<1>3. ASSUME NEW m \in Messages, ReceiveGap(m) PROVE OrderInv'
  <2>1. \A b \in Held(m) : b.seq > expected
    BY <1>3 DEF ReceiveGap, Held, BufferWaitsForHole
  <2>2. \A a, b \in Held(m) : a.seq = b.seq => a = b
    BY DEF Held, Buffered, BufferWaitsForHole
  <2> QED
    BY <1>3, <2>1, <2>2
    DEF ReceiveGap, BufferWaitsForHole, ReleasedInOrder, Increasing
<1>4. ASSUME NEW m \in Messages, ReceiveOverflow(m) PROVE OrderInv'
  <2>1. PICK lowest \in Held(m), next \in Seqs \cup {MaxSeq + 1} :
          /\ \A b \in Held(m) : lowest.seq <= b.seq
          /\ lowest.seq < next
          /\ IsRun(Held(m), lowest.seq, next)
          /\ Release(RunOf(Held(m), lowest.seq, next), m)
          /\ expected' = next
          /\ buffer' = {b \in Held(m) : b.seq \notin lowest.seq..(next - 1)}
    BY <1>4 DEF ReceiveOverflow
  <2>2. /\ Held(m) \in SUBSET Messages
        /\ \A b \in Held(m) : b.seq \in Nat /\ b.seq > expected
    BY <1>0, <1>4 DEF ReceiveOverflow, Held, BufferWaitsForHole
  <2>3. \A a, b \in Held(m) : a.seq = b.seq => a = b
    BY DEF Held, Buffered, BufferWaitsForHole
  <2>4. next \in Nat /\ lowest.seq \in Nat /\ expected <= lowest.seq
    BY <1>0, <2>1, <2>2, DataPlaneAssumption DEF Seqs
  <2> DEFINE run == RunOf(Held(m), lowest.seq, next)
  <2>5. /\ run \in Seq(Messages) /\ Len(run) = next - lowest.seq
        /\ \A i \in 1..(next - lowest.seq) : run[i].seq = lowest.seq + i - 1
    <3>1. lowest.seq <= next
      BY <2>1, <2>4
    <3> QED
      BY <2>1, <2>2, <2>4, <3>1, RunIsConsecutive
  <2>6. Release(run, m)
    BY <2>1
  <2> HIDE DEF run
  <2>7. ReleasedInOrder'
    BY <2>1, <2>4, <2>5, <2>6, ReleaseStep
  <2>8. \A b \in buffer' : b.seq > expected'
    BY <2>1, <2>2, <2>4 DEF IsRun
  <2> QED
    BY <2>1, <2>3, <2>7, <2>8 DEF BufferWaitsForHole
<1>5. CASE Restart
  <2>1. released' = <<>> /\ buffer' = {}
    BY <1>5 DEF Restart
  <2> QED
    BY <2>1 DEF ReleasedInOrder, BufferWaitsForHole, Increasing
<1>6. ASSUME NEW m \in Messages, ReceiveDuplicate(m) \/ ReceiveStale(m)
      PROVE  OrderInv'
  BY <1>1, <1>6 DEF ReceiveDuplicate, ReceiveStale
<1>7. ASSUME NEW d \in delivering, HandOver(d) \/ RecordFails(d)
      PROVE  OrderInv'
  BY <1>1, <1>7 DEF HandOver, RecordFails
<1>8. CASE UNCHANGED vars
  BY <1>1, <1>8 DEF vars
<1> QED
  BY <1>2, <1>3, <1>4, <1>5, <1>6, <1>7, <1>8 DEF Next, LocalNext, Receive

LEMMA OrderInvariant == Spec => []OrderInv
<1>1. Init => OrderInv
  BY DEF Init, OrderInv, ReleasedInOrder, BufferWaitsForHole, Increasing
<1> QED
  BY <1>1, TypeCorrect, OrderStep, PTL DEF Spec

\* Whatever the transport repeats, reorders or withholds, the ordering engine
\* releases messages by strictly increasing sequence number.
THEOREM ReleasesInOrder == Spec => []ReleasedInOrder
<1>1. OrderInv => ReleasedInOrder
  BY DEF OrderInv
<1> QED
  BY <1>1, OrderInvariant, PTL

\* No deliverable message is left in the reorder buffer.
THEOREM BufferOnlyWaits == Spec => []BufferWaitsForHole
<1>1. OrderInv => BufferWaitsForHole
  BY DEF OrderInv
<1> QED
  BY <1>1, OrderInvariant, PTL

(***************************************************************************)
(* What the application gets.  Every message it has, or a handler holds,   *)
(* was released, and none is at two of these places; since what is         *)
(* released next is numbered beyond all that was, it is at none of them.   *)
(***************************************************************************)
OnceInv ==
  restarts = 0 =>
    /\ \A i \in 1..Len(app) : app[i].seq < expected
    /\ \A i, j \in 1..Len(app) : app[i] = app[j] => i = j
    /\ \A d \in delivering :
         /\ \A i \in 1..Len(d.run) : d.run[i].seq < expected
         /\ \A i, j \in 1..Len(d.run) : d.run[i] = d.run[j] => i = j
         /\ \A i \in 1..Len(app), j \in 1..Len(d.run) : app[i] # d.run[j]
    /\ \A d, e \in delivering : d # e =>
         \A i \in 1..Len(d.run), j \in 1..Len(e.run) : d.run[i] # e.run[j]

\* What the steps below use of the types.
LEMMA OnceTypes ==
  ASSUME TypeOK
  PROVE  /\ expected \in Nat /\ app \in Seq(Messages) /\ Len(app) \in Nat
         /\ \A m \in Messages : m.seq \in Nat
         /\ \A d \in delivering : d.run \in Seq(Messages) /\ d.run # <<>>
<1>1. expected \in Nat
  BY DataPlaneAssumption DEF TypeOK
<1>2. app \in Seq(Messages) /\ Len(app) \in Nat
  BY DEF TypeOK
<1>3. \A m \in Messages : m.seq \in Nat
  BY DEF Messages, Seqs
<1>4. \A d \in delivering : d.run \in Seq(Messages) /\ d.run # <<>>
  BY DEF TypeOK, Delivery
<1> QED
  BY <1>1, <1>2, <1>3, <1>4

\* A run that begins at the expected number, or beyond it, is new to the
\* application and to every handler.
LEMMA ReleaseOnce ==
  ASSUME TypeOK, OnceInv, NEW m, NEW run \in Seq(Messages),
         NEW first \in Nat, NEW next \in Nat,
         expected <= first, Len(run) = next - first,
         \A i \in 1..(next - first) : run[i].seq = first + i - 1,
         first <= next,
         Release(run, m), expected' = next, UNCHANGED <<app, restarts>>
  PROVE  OnceInv'
<1> SUFFICES ASSUME restarts = 0
             PROVE  OnceInv'
  BY DEF OnceInv
<1> DEFINE n == [run |-> run, ackFor |-> m]
<1>1. delivering' = delivering \cup {n} /\ n.run = run
  BY DEF Release
<1> HIDE DEF n
<1>2. /\ expected \in Nat /\ app \in Seq(Messages) /\ Len(app) \in Nat
      /\ \A m1 \in Messages : m1.seq \in Nat
      /\ \A d \in delivering : d.run \in Seq(Messages)
  BY OnceTypes
<1>3. \A i \in 1..Len(run) : run[i] \in Messages /\ run[i].seq >= expected /\ run[i].seq < next
  <2> SUFFICES ASSUME NEW i \in 1..Len(run)
               PROVE  run[i] \in Messages /\ run[i].seq >= expected /\ run[i].seq < next
    OBVIOUS
  <2>1. run[i] \in Messages
    OBVIOUS
  <2>2. run[i].seq = first + i - 1 /\ i \in 1..(next - first)
    OBVIOUS
  <2> QED
    BY <1>2, <2>1, <2>2
<1>4. \A i, j \in 1..Len(run) : run[i] = run[j] => i = j
  <2> SUFFICES ASSUME NEW i \in 1..Len(run), NEW j \in 1..Len(run), run[i] = run[j]
               PROVE  i = j
    OBVIOUS
  <2>1. run[i].seq = first + i - 1 /\ run[j].seq = first + j - 1
    OBVIOUS
  <2>2. first + i - 1 = first + j - 1
    BY <2>1
  <2> QED
    BY <2>2
<1>5. /\ \A i \in 1..Len(app) : app[i] \in Messages /\ app[i].seq < expected
      /\ \A d \in delivering : \A i \in 1..Len(d.run) :
           d.run[i] \in Messages /\ d.run[i].seq < expected
  BY <1>2 DEF OnceInv
<1>6. expected <= next
  BY <1>2
<1>7. \A i \in 1..Len(app) : app[i].seq < next
  <2> SUFFICES ASSUME NEW i \in 1..Len(app) PROVE app[i].seq < next
    OBVIOUS
  <2>1. app[i].seq \in Nat /\ app[i].seq < expected
    BY <1>2, <1>5
  <2> QED
    BY <1>2, <1>6, <2>1
<1>8. \A d \in delivering : \A i \in 1..Len(d.run) : d.run[i].seq < next
  <2> SUFFICES ASSUME NEW d \in delivering, NEW i \in 1..Len(d.run)
               PROVE  d.run[i].seq < next
    OBVIOUS
  <2>1. d.run[i].seq \in Nat /\ d.run[i].seq < expected
    BY <1>2, <1>5
  <2> QED
    BY <1>2, <1>6, <2>1
<1>9. \A i \in 1..Len(app), j \in 1..Len(run) : app[i] # run[j]
  <2> SUFFICES ASSUME NEW i \in 1..Len(app), NEW j \in 1..Len(run), app[i] = run[j]
               PROVE  FALSE
    OBVIOUS
  <2>1. app[i].seq \in Nat /\ app[i].seq < expected /\ app[i].seq >= expected
    BY <1>2, <1>3, <1>5
  <2> QED
    BY <1>2, <2>1
<1>10. \A d \in delivering : \A i \in 1..Len(d.run), j \in 1..Len(run) :
         d.run[i] # run[j]
  <2> SUFFICES ASSUME NEW d \in delivering, NEW i \in 1..Len(d.run),
                      NEW j \in 1..Len(run), d.run[i] = run[j]
               PROVE  FALSE
    OBVIOUS
  <2>1. d.run[i].seq \in Nat /\ d.run[i].seq < expected /\ d.run[i].seq >= expected
    BY <1>2, <1>3, <1>5
  <2> QED
    BY <1>2, <2>1
<1>11. (\A d \in delivering :
         /\ \A i \in 1..Len(d.run) : d.run[i].seq < expected
         /\ \A i, j \in 1..Len(d.run) : d.run[i] = d.run[j] => i = j
         /\ \A i \in 1..Len(app), j \in 1..Len(d.run) : app[i] # d.run[j])'
  <2>1. ASSUME NEW d \in delivering'
        PROVE  /\ \A i \in 1..Len(d.run) : d.run[i].seq < next
               /\ \A i, j \in 1..Len(d.run) : d.run[i] = d.run[j] => i = j
               /\ \A i \in 1..Len(app), j \in 1..Len(d.run) : app[i] # d.run[j]
    <3>1. CASE d \in delivering
      BY <1>8, <3>1 DEF OnceInv
    <3>2. CASE d = n
      BY <1>1, <1>3, <1>4, <1>9, <3>2
    <3> QED
      BY <1>1, <2>1, <3>1, <3>2
  <2> QED
    BY <2>1
<1>12. (\A d, e \in delivering : d # e =>
         \A i \in 1..Len(d.run), j \in 1..Len(e.run) : d.run[i] # e.run[j])'
  <2>1. ASSUME NEW d \in delivering', NEW e \in delivering', d # e
        PROVE  \A i \in 1..Len(d.run), j \in 1..Len(e.run) : d.run[i] # e.run[j]
    <3>1. CASE d \in delivering /\ e \in delivering
      BY <2>1, <3>1 DEF OnceInv
    <3>2. CASE d \in delivering /\ e = n
      BY <1>1, <1>10, <3>2
    <3>3. CASE d = n /\ e \in delivering
      BY <1>1, <1>10, <3>3
    <3> QED
      BY <1>1, <2>1, <3>1, <3>2, <3>3
  <2> QED
    BY <2>1
<1> QED
  BY <1>7, <1>11, <1>12 DEF OnceInv

\* Handing one message over moves it from the head of the run to the
\* application.
LEMMA HandOverOnce ==
  ASSUME TypeOK, OnceInv, NEW d \in delivering, HandOver(d)
  PROVE  OnceInv'
<1> SUFFICES ASSUME restarts = 0
             PROVE  OnceInv'
  BY DEF OnceInv, HandOver
<1> DEFINE m == Head(d.run)
           rest == Tail(d.run)
           n == [d EXCEPT !.run = Tail(@)]
<1>1. /\ d.run \in Seq(Messages) /\ d.run # <<>> /\ Len(d.run) \in Nat \ {0}
      /\ app \in Seq(Messages) /\ Len(app) \in Nat
      /\ d \in Delivery
  <2>1. d.run \in Seq(Messages) /\ d.run # <<>>
    BY OnceTypes
  <2>2. Len(d.run) \in Nat \ {0}
    BY <2>1, EmptySeq
  <2>3. d \in Delivery
    BY DEF TypeOK
  <2> QED
    BY <2>1, <2>2, <2>3, OnceTypes
<1>2. m = d.run[1] /\ 1 \in 1..Len(d.run)
  BY <1>1
<1>3. /\ Len(rest) = Len(d.run) - 1
      /\ \A i \in 1..Len(rest) : rest[i] = d.run[i + 1] /\ i + 1 \in 1..Len(d.run)
  BY <1>1
<1>4. n.run = rest
  BY <1>1 DEF Delivery
<1>5. /\ app' = Append(app, m) /\ expected' = expected
      /\ delivering' \subseteq (delivering \ {d}) \cup {n}
  BY DEF HandOver
<1>6. /\ Len(app') = Len(app) + 1 /\ app'[Len(app) + 1] = m
      /\ \A i \in 1..Len(app) : app'[i] = app[i]
  BY <1>1, <1>5
<1>7. /\ \A i \in 1..Len(app) : app[i].seq < expected /\ app[i] # m
      /\ \A i, j \in 1..Len(app) : app[i] = app[j] => i = j
      /\ m.seq < expected
  BY <1>2 DEF OnceInv
<1>8. /\ \A i \in 1..Len(rest) : rest[i].seq < expected /\ rest[i] # m
      /\ \A i, j \in 1..Len(rest) : rest[i] = rest[j] => i = j
      /\ \A i \in 1..Len(app), j \in 1..Len(rest) : app[i] # rest[j]
  <2>1. \A i, j \in 1..Len(d.run) : d.run[i] = d.run[j] => i = j
    BY DEF OnceInv
  <2>2. \A i \in 1..Len(rest) : rest[i].seq < expected
    BY <1>3 DEF OnceInv
  <2>3. \A i \in 1..Len(rest) : rest[i] # m
    BY <1>2, <1>3, <2>1
  <2>4. \A i, j \in 1..Len(rest) : rest[i] = rest[j] => i = j
    <3> SUFFICES ASSUME NEW i \in 1..Len(rest), NEW j \in 1..Len(rest),
                        rest[i] = rest[j]
                 PROVE  i = j
      OBVIOUS
    <3>1. i + 1 = j + 1
      BY <1>3, <2>1
    <3> QED
      BY <1>1, <1>3, <3>1
  <2>5. \A i \in 1..Len(app), j \in 1..Len(rest) : app[i] # rest[j]
    BY <1>3 DEF OnceInv
  <2> QED
    BY <2>2, <2>3, <2>4, <2>5
<1>9. \A e \in delivering \ {d} :
        /\ \A i \in 1..Len(e.run) : e.run[i].seq < expected /\ e.run[i] # m
        /\ \A i \in 1..Len(e.run), j \in 1..Len(rest) : e.run[i] # rest[j]
  <2> SUFFICES ASSUME NEW e \in delivering \ {d}
               PROVE  /\ \A i \in 1..Len(e.run) : e.run[i].seq < expected /\ e.run[i] # m
                      /\ \A i \in 1..Len(e.run), j \in 1..Len(rest) : e.run[i] # rest[j]
    OBVIOUS
  <2>1. \A i \in 1..Len(e.run), j \in 1..Len(d.run) : e.run[i] # d.run[j]
    BY DEF OnceInv
  <2>2. \A i \in 1..Len(e.run) : e.run[i].seq < expected
    BY DEF OnceInv
  <2> QED
    BY <1>2, <1>3, <2>1, <2>2
<1> HIDE DEF m, rest, n
<1>10. (\A i \in 1..Len(app) : app[i].seq < expected)'
  BY <1>1, <1>5, <1>6, <1>7
<1>11. (\A i, j \in 1..Len(app) : app[i] = app[j] => i = j)'
  <2> SUFFICES ASSUME NEW i \in 1..Len(app'), NEW j \in 1..Len(app'),
                      app'[i] = app'[j]
               PROVE  i = j
    OBVIOUS
  <2>1. CASE i \in 1..Len(app) /\ j \in 1..Len(app)
    BY <1>6, <1>7, <2>1
  <2>2. CASE i = Len(app) + 1 /\ j \in 1..Len(app)
    BY <1>6, <1>7, <2>2
  <2>3. CASE i \in 1..Len(app) /\ j = Len(app) + 1
    BY <1>6, <1>7, <2>3
  <2> QED
    BY <1>1, <1>6, <2>1, <2>2, <2>3
<1>12. (\A e \in delivering :
         /\ \A i \in 1..Len(e.run) : e.run[i].seq < expected
         /\ \A i, j \in 1..Len(e.run) : e.run[i] = e.run[j] => i = j
         /\ \A i \in 1..Len(app), j \in 1..Len(e.run) : app[i] # e.run[j])'
  <2> SUFFICES ASSUME NEW e \in delivering'
               PROVE  /\ \A i \in 1..Len(e.run) : e.run[i].seq < expected
                      /\ \A i, j \in 1..Len(e.run) : e.run[i] = e.run[j] => i = j
                      /\ \A i \in 1..Len(app'), j \in 1..Len(e.run) : app'[i] # e.run[j]
    BY <1>5
  <2>1. CASE e \in delivering \ {d}
    <3>1. /\ \A i \in 1..Len(e.run) : e.run[i].seq < expected
          /\ \A i, j \in 1..Len(e.run) : e.run[i] = e.run[j] => i = j
      BY <2>1 DEF OnceInv
    <3>2. \A i \in 1..Len(app), j \in 1..Len(e.run) : app[i] # e.run[j]
      BY <2>1 DEF OnceInv
    <3>3. \A i \in 1..Len(app'), j \in 1..Len(e.run) : app'[i] # e.run[j]
      BY <1>1, <1>6, <1>9, <2>1, <3>2
    <3> QED
      BY <3>1, <3>3
  <2>2. CASE e = n
    <3>1. e.run = rest
      BY <1>4, <2>2
    <3>2. \A i \in 1..Len(app'), j \in 1..Len(rest) : app'[i] # rest[j]
      BY <1>1, <1>6, <1>8
    <3> QED
      BY <1>8, <3>1, <3>2
  <2> QED
    BY <1>5, <2>1, <2>2
<1>13. (\A e, f \in delivering : e # f =>
         \A i \in 1..Len(e.run), j \in 1..Len(f.run) : e.run[i] # f.run[j])'
  <2> SUFFICES ASSUME NEW e \in delivering', NEW f \in delivering', e # f
               PROVE  \A i \in 1..Len(e.run), j \in 1..Len(f.run) : e.run[i] # f.run[j]
    OBVIOUS
  <2>1. CASE e \in delivering \ {d} /\ f \in delivering \ {d}
    BY <2>1 DEF OnceInv
  <2>2. CASE e \in delivering \ {d} /\ f = n
    BY <1>4, <1>9, <2>2
  <2>3. CASE e = n /\ f \in delivering \ {d}
    BY <1>4, <1>9, <2>3
  <2> QED
    BY <1>5, <2>1, <2>2, <2>3
<1> QED
  BY <1>10, <1>11, <1>12, <1>13 DEF OnceInv

\* Every step of the receiver keeps that.
LEMMA OnceStep == TypeOK /\ OrderInv /\ OnceInv /\ [Next]_vars => OnceInv'
<1> SUFFICES ASSUME TypeOK, OrderInv, OnceInv, [Next]_vars PROVE OnceInv'
  OBVIOUS
<1>0. /\ \A b \in buffer : b \in Messages /\ b.seq \in Nat
      /\ expected \in Nat
      /\ \A m \in Messages : m.seq \in Nat
  BY DataPlaneAssumption DEF TypeOK, Messages, Seqs
<1>1. ASSUME UNCHANGED <<app, expected, delivering, restarts>> PROVE OnceInv'
  BY <1>1 DEF OnceInv
<1>2. ASSUME NEW m \in Messages, ReceiveNext(m) PROVE OnceInv'
  <2>1. PICK next \in (expected + 1)..(MaxSeq + 1) :
          /\ IsRun(buffer, expected + 1, next)
          /\ Release(<<m>> \o RunOf(buffer, expected + 1, next), m)
          /\ expected' = next
    BY <1>2 DEF ReceiveNext
  <2>2. m.seq = expected /\ UNCHANGED <<app, restarts>>
    BY <1>2 DEF ReceiveNext
  <2> DEFINE run == <<m>> \o RunOf(buffer, expected + 1, next)
  <2>3. next \in Nat /\ m.seq < next /\ buffer \in SUBSET Messages
    BY <1>0, <2>1, <2>2, DataPlaneAssumption DEF TypeOK
  <2>4. /\ run \in Seq(Messages) /\ Len(run) = next - expected
        /\ \A i \in 1..(next - expected) : run[i].seq = expected + i - 1
    BY <2>1, <2>2, <2>3, NextRun
  <2>5. Release(run, m)
    BY <2>1
  <2> HIDE DEF run
  <2>6. expected <= expected /\ expected <= next
    BY <1>0, <2>2, <2>3
  <2> QED
    BY <1>0, <2>1, <2>2, <2>3, <2>4, <2>5, <2>6, ReleaseOnce
<1>3. ASSUME NEW m \in Messages, ReceiveOverflow(m) PROVE OnceInv'
  <2>1. PICK lowest \in Held(m), next \in Seqs \cup {MaxSeq + 1} :
          /\ lowest.seq < next
          /\ IsRun(Held(m), lowest.seq, next)
          /\ Release(RunOf(Held(m), lowest.seq, next), m)
          /\ expected' = next
    BY <1>3 DEF ReceiveOverflow
  <2>2. /\ Held(m) \in SUBSET Messages
        /\ \A b \in Held(m) : b.seq \in Nat /\ b.seq > expected
    BY <1>0, <1>3 DEF ReceiveOverflow, Held, OrderInv, BufferWaitsForHole
  <2>3. /\ next \in Nat /\ lowest.seq \in Nat /\ expected <= lowest.seq
        /\ lowest.seq <= next
    BY <1>0, <2>1, <2>2, DataPlaneAssumption DEF Seqs
  <2> DEFINE run == RunOf(Held(m), lowest.seq, next)
  <2>4. /\ run \in Seq(Messages) /\ Len(run) = next - lowest.seq
        /\ \A i \in 1..(next - lowest.seq) : run[i].seq = lowest.seq + i - 1
    BY <2>1, <2>2, <2>3, RunIsConsecutive
  <2>5. Release(run, m) /\ UNCHANGED <<app, restarts>>
    BY <1>3, <2>1 DEF ReceiveOverflow
  <2> HIDE DEF run
  <2> QED
    BY <2>1, <2>3, <2>4, <2>5, ReleaseOnce
<1>4. ASSUME NEW m \in Messages,
             ReceiveDuplicate(m) \/ ReceiveStale(m) \/ ReceiveGap(m)
      PROVE  OnceInv'
  BY <1>1, <1>4 DEF ReceiveDuplicate, ReceiveStale, ReceiveGap
<1>5. ASSUME NEW d \in delivering, HandOver(d) PROVE OnceInv'
  BY <1>5, HandOverOnce
<1>6. ASSUME NEW d \in delivering, RecordFails(d) PROVE OnceInv'
  BY <1>6 DEF RecordFails, OnceInv
<1>7. CASE Restart
  BY <1>7 DEF Restart, OnceInv, TypeOK
<1>8. CASE UNCHANGED vars
  BY <1>1, <1>8 DEF vars
<1> QED
  BY <1>2, <1>3, <1>4, <1>5, <1>6, <1>7, <1>8 DEF Next, LocalNext, Receive

\* Until the receiver restarts no message reaches the application twice, even
\* when the duplicate cache has forgotten it long ago.
THEOREM AppGetsOnce == Spec => []AtMostOnce
<1>1. Init => OnceInv
  BY DEF Init, OnceInv
<1>2. TypeOK /\ OnceInv => AtMostOnce
  <2>1. TypeOK => DOMAIN app = 1..Len(app)
    BY DEF TypeOK
  <2> QED
    BY <2>1 DEF OnceInv, AtMostOnce
<1> QED
  BY <1>1, <1>2, OnceStep, TypeCorrect, OrderInvariant, PTL DEF Spec

(***************************************************************************)
(* The size of the reorder buffer.                                         *)
(***************************************************************************)
SizeInv == IsFiniteSet(buffer) /\ BufferIsBounded

\* A forced recovery takes at least the lowest message out of a buffer that
\* is one over the limit.
LEMMA SizeStep == TypeOK /\ SizeInv /\ [Next]_vars => SizeInv'
<1> SUFFICES ASSUME TypeOK, SizeInv, [Next]_vars PROVE SizeInv'
  OBVIOUS
<1> USE DEF SizeInv, BufferIsBounded
<1>0. BufferLimit \in Nat /\ Cardinality(buffer) \in Nat
  BY FS_CardinalityType, InboundAssumption
<1>1. ASSUME buffer' \in SUBSET buffer PROVE SizeInv'
  <2>1. IsFiniteSet(buffer') /\ Cardinality(buffer') <= Cardinality(buffer)
    BY <1>1, FS_Subset
  <2>2. Cardinality(buffer') \in Nat
    BY <2>1, FS_CardinalityType
  <2> QED
    BY <1>0, <2>1, <2>2
<1>2. ASSUME NEW m \in Messages
      PROVE  /\ IsFiniteSet(Held(m)) /\ Cardinality(Held(m)) \in Nat
             /\ Cardinality(Held(m)) <= BufferLimit + 1
  <2>1. CASE Buffered(m.seq)
    BY <1>0, <2>1 DEF Held
  <2>2. CASE ~ Buffered(m.seq)
    <3>1. Held(m) = buffer \cup {m}
      BY <2>2 DEF Held
    <3>2. /\ IsFiniteSet(Held(m))
          /\ Cardinality(Held(m)) <= Cardinality(buffer) + 1
      BY <1>0, <3>1, FS_AddElement
    <3>3. Cardinality(Held(m)) \in Nat
      BY <3>2, FS_CardinalityType
    <3> QED
      BY <1>0, <3>2, <3>3
  <2> QED
    BY <2>1, <2>2
<1>3. ASSUME NEW m \in Messages, ReceiveGap(m) PROVE SizeInv'
  <2>1. buffer' = Held(m) /\ Cardinality(Held(m)) <= BufferLimit
    BY <1>3 DEF ReceiveGap
  <2> QED
    BY <1>2, <2>1
<1>4. ASSUME NEW m \in Messages, ReceiveOverflow(m) PROVE SizeInv'
  <2>1. PICK lowest \in Held(m), next \in Seqs \cup {MaxSeq + 1} :
          /\ lowest.seq < next
          /\ buffer' = {b \in Held(m) : b.seq \notin lowest.seq..(next - 1)}
    BY <1>4 DEF ReceiveOverflow
  <2>2. lowest.seq \in Nat /\ next \in Nat
    <3>1. lowest \in Messages
      BY DEF Held, TypeOK
    <3> QED
      BY <3>1, DataPlaneAssumption DEF Messages, Seqs
  <2>3. lowest.seq \in lowest.seq..(next - 1)
    BY <2>1, <2>2
  <2>4. buffer' \in SUBSET (Held(m) \ {lowest})
    BY <2>1, <2>3
  <2>5. /\ IsFiniteSet(Held(m) \ {lowest})
        /\ Cardinality(Held(m) \ {lowest}) = Cardinality(Held(m)) - 1
    BY <1>2, FS_RemoveElement
  <2>6. /\ IsFiniteSet(buffer')
        /\ Cardinality(buffer') <= Cardinality(Held(m) \ {lowest})
    BY <2>4, <2>5, FS_Subset
  <2>7. Cardinality(buffer') \in Nat
    BY <2>6, FS_CardinalityType
  <2> QED
    BY <1>0, <1>2, <2>5, <2>6, <2>7
<1>5. ASSUME NEW m \in Messages,
             ReceiveDuplicate(m) \/ ReceiveStale(m) \/ ReceiveNext(m)
      PROVE  SizeInv'
  BY <1>1, <1>5 DEF ReceiveDuplicate, ReceiveStale, ReceiveNext
<1>6. ASSUME NEW d \in delivering, HandOver(d) \/ RecordFails(d)
      PROVE  SizeInv'
  BY <1>1, <1>6 DEF HandOver, RecordFails
<1>7. CASE Restart
  BY <1>1, <1>7 DEF Restart
<1>8. CASE UNCHANGED vars
  BY <1>1, <1>8 DEF vars
<1> QED
  BY <1>3, <1>4, <1>5, <1>6, <1>7, <1>8 DEF Next, LocalNext, Receive

\* Whatever arrives in whatever order, the reorder buffer keeps to its limit.
THEOREM BufferKeepsToLimit == Spec => []BufferIsBounded
<1>1. Init => SizeInv
  BY FS_EmptySet, InboundAssumption DEF Init, SizeInv, BufferIsBounded
<1>2. SizeInv => BufferIsBounded
  BY DEF SizeInv
<1> QED
  BY <1>1, <1>2, SizeStep, TypeCorrect, PTL DEF Spec
=============================================================================
