-------------------------- MODULE LargePayload_proofs --------------------------
(***************************************************************************)
(* Proofs about the large payload transport engine, for any number of      *)
(* transfers, chunks, pumps, retries and windows.                          *)
(***************************************************************************)
EXTENDS LargePayload, TLAPS, SequenceTheorems, FiniteSetTheorems

(***************************************************************************)
(* The sender: its types.                                                  *)
(***************************************************************************)
\* Both ends speak of the same chunks and states.
LEMMA SameData ==
  /\ Out!Chunks = Chunks /\ In!Chunks = Chunks
  /\ Out!Ended = Ended /\ In!Ended = Ended
  /\ Out!TransferState = TransferState /\ In!TransferState = TransferState
BY DEF Out!Chunks, In!Chunks, Chunks, Out!Ended, In!Ended, Ended,
       Out!Transferring, In!Transferring, Transferring,
       Out!TransferState, In!TransferState, TransferState

\* As Out!TypeOK, but for the count of ACKs: that it keeps to the number of
\* chunks is a matter of the invariant below.
OutTyped ==
  /\ open \subseteq Transfers
  /\ local \in [Transfers -> TransferState \cup {"none"}]
  /\ stored \in [Transfers -> TransferState \cup {"none"}]
  /\ paused \in [Transfers -> BOOLEAN]
  /\ pending \in [Transfers -> Seq(Chunks)]
  /\ sent \in [Transfers -> SUBSET Chunks]
  /\ ackedCount \in [Transfers -> Nat]
  /\ peerWindow \in [Transfers -> 1..Window]
  /\ inFlight \in 0..MaxInFlight
  /\ timer \in [Transfers -> [Chunks -> {"off", "running", "due"}]]
  /\ retries \in [Transfers -> [Chunks -> 0..MaxChunkRetries]]
  /\ sending \subseteq Out!Sending /\ acking \subseteq Out!Acking
  /\ sweep \in {Out!Idle} \cup [t : Transfers, todo : SUBSET Chunks,
                                failing : BOOLEAN]
  /\ controls \subseteq Out!Control
  /\ carried \in [Transfers -> SUBSET Chunks]
  /\ cancelSent \subseteq Transfers
  /\ acked \in [Transfers -> SUBSET Chunks] /\ everPaused \subseteq Transfers
  /\ requeued \in [Transfers -> 0..MaxRequeued]

\* The states the sender writes.
LEMMA StatesWritten ==
  {"active", "paused", "completed", "failed", "cancelled", "expired"}
    \subseteq TransferState
BY DEF TransferState, Transferring, Ended

LEMMA MaxOfZero ==
  ASSUME NEW n \in Nat
  PROVE  /\ Out!Max({0, n - 1}) \in 0..n
         /\ n > 0 => Out!Max({0, n - 1}) = n - 1
<1>1. \E x \in {0, n - 1} : \A y \in {0, n - 1} : x >= y
  OBVIOUS
<1>2. /\ Out!Max({0, n - 1}) \in {0, n - 1}
      /\ \A y \in {0, n - 1} : Out!Max({0, n - 1}) >= y
  BY <1>1 DEF Out!Max
<1> QED
  BY <1>2

\* What leaves the memory guard's count.
LEMMA ReleaseTyped ==
  inFlight \in 0..MaxInFlight => Out!Max({0, inFlight - 1}) \in 0..MaxInFlight
<1> SUFFICES ASSUME inFlight \in 0..MaxInFlight
             PROVE  Out!Max({0, inFlight - 1}) \in 0..MaxInFlight
  OBVIOUS
<1>1. inFlight \in Nat /\ 0..inFlight \subseteq 0..MaxInFlight
  BY SendingAssumption DEF Out!SenderAssumption
<1>2. Out!Max({0, inFlight - 1}) \in 0..inFlight
  BY <1>1, MaxOfZero
<1> QED
  BY <1>1, <1>2

LEMMA SenderConstants ==
  /\ Window \in Nat \ {0} /\ MaxInFlight \in Nat \ {0}
  /\ MaxChunkRetries \in Nat /\ MaxPumps \in Nat \ {0}
  /\ ChunkCount \in Nat \ {0} /\ IsFiniteSet(Transfers) /\ MaxRequeued \in Nat
BY SendingAssumption, TransfersAssumption DEF Out!SenderAssumption

LEMMA InitTyped == Out!Init => OutTyped
BY SenderConstants, SameData
   DEF Out!Init, OutTyped, TransferState, Out!Idle, Chunks

LEMMA StartTyped ==
  ASSUME OutTyped, NEW t \in Transfers, Out!Start(t)
  PROVE  OutTyped'
<1>1. [i \in Chunks |-> i] \in Seq(Chunks)
  BY SenderConstants DEF Chunks, Seq
<1> QED
  BY <1>1, StatesWritten, SameData
     DEF OutTyped, Out!Start, Out!StoreAndCopy, Out!Store, Out!clocks, Out!history

LEMMA PumpTyped ==
  ASSUME OutTyped, NEW t \in Transfers, Out!PumpChunk(t)
  PROVE  OutTyped'
<1> DEFINE c == Head(pending[t])
<1>1. c \in Chunks /\ Tail(pending[t]) \in Seq(Chunks)
  BY DEF OutTyped, Out!PumpChunk, Out!CanSend
<1>2. inFlight + 1 \in 0..MaxInFlight
  BY SenderConstants DEF OutTyped, Out!PumpChunk, Out!CanSend
<1>3. PICK took \in BOOLEAN :
        /\ sending' = sending \cup {[t |-> t, c |-> c, took |-> took]}
        /\ carried' = IF took THEN [carried EXCEPT ![t] = @ \cup {c}] ELSE carried
  BY DEF Out!PumpChunk
<1>4. [t |-> t, c |-> c, took |-> took] \in Out!Sending
  BY <1>1, SameData DEF Out!Sending
<1>5. sending' \subseteq Out!Sending /\ carried' \in [Transfers -> SUBSET Chunks]
  BY <1>1, <1>3, <1>4 DEF OutTyped
<1>6. /\ pending' \in [Transfers -> Seq(Chunks)]
      /\ sent' \in [Transfers -> SUBSET Chunks]
      /\ timer' \in [Transfers -> [Chunks -> {"off", "running", "due"}]]
      /\ inFlight' \in 0..MaxInFlight
  BY <1>1, <1>2 DEF OutTyped, Out!PumpChunk
<1> QED
  BY <1>5, <1>6 DEF OutTyped, Out!PumpChunk, Out!history

LEMMA SendFailsTyped ==
  ASSUME OutTyped, NEW s \in sending, Out!SendFails(s)
  PROVE  OutTyped'
<1>1. s.t \in Transfers /\ s.c \in Chunks
  BY SameData DEF OutTyped, Out!Sending
<1>2. inFlight' \in 0..MaxInFlight
  BY ReleaseTyped DEF OutTyped, Out!SendFails
<1>3. <<s.c>> \o pending[s.t] \in Seq(Chunks)
  BY <1>1 DEF OutTyped
<1>4. /\ pending' \in [Transfers -> Seq(Chunks)]
      /\ sent' \in [Transfers -> SUBSET Chunks]
      /\ timer' \in [Transfers -> [Chunks -> {"off", "running", "due"}]]
  BY <1>1, <1>3 DEF OutTyped, Out!SendFails
<1>5. requeued' \in [Transfers -> 0..MaxRequeued]
  <2>1. requeued[s.t] \in Nat
    BY <1>1, SenderConstants DEF OutTyped
  <2>2. \/ UNCHANGED requeued
        \/ requeued[s.t] < MaxRequeued
           /\ requeued' = [requeued EXCEPT ![s.t] = requeued[s.t] + 1]
    BY Zenon DEF Out!SendFails
  <2>3. CASE UNCHANGED requeued
    BY <2>3 DEF OutTyped
  <2>4. CASE /\ requeued[s.t] < MaxRequeued
             /\ requeued' = [requeued EXCEPT ![s.t] = requeued[s.t] + 1]
    <3>1. requeued[s.t] + 1 \in 0..MaxRequeued
      BY <2>1, <2>4, SenderConstants
    <3>2. requeued \in [Transfers -> 0..MaxRequeued]
      BY DEF OutTyped
    <3> QED
      BY <2>4, <3>1, <3>2
  <2> QED
    BY <2>2, <2>3, <2>4
<1> QED
  BY <1>2, <1>4, <1>5 DEF OutTyped, Out!SendFails

LEMMA AckTyped ==
  ASSUME OutTyped, NEW t \in Transfers, NEW c \in Chunks, NEW w \in 1..Window,
         Out!Ack(t, c, w)
  PROVE  OutTyped'
<1>1. Out!Max({0, inFlight - 1}) \in 0..MaxInFlight
  BY ReleaseTyped DEF OutTyped
<1>2. Out!BeginComplete(t, c, local[t]) \subseteq Out!Acking
  BY SameData DEF Out!BeginComplete, Out!Acking
<1>3. {[t |-> t, c |-> c, step |-> "store"]} \subseteq Out!Acking
  BY SameData DEF Out!Acking
<1>4. CASE Out!AckChunk(t, c, w)
  <2>1. ackedCount' \in [Transfers -> Nat]
    BY <1>4 DEF OutTyped, Out!AckChunk
  <2> QED
  BY <2>1, <1>1, <1>3, <1>4
     DEF OutTyped, Out!AckChunk, Out!TakesAck, Out!clocks
<1>5. CASE Out!AckAgain(t, c, w)
  BY <1>2, <1>5
     DEF OutTyped, Out!AckAgain, Out!TakesAck, Out!clocks, Out!history
<1> QED
  BY <1>4, <1>5 DEF Out!Ack

LEMMA AckHandlerTyped ==
  ASSUME OutTyped, NEW a \in acking,
         Out!AckStored(a) \/ Out!Complete(a) \/ Out!Close(a)
  PROVE  OutTyped'
<1>1. a.t \in Transfers /\ a.c \in Chunks /\ a \in Out!Acking
  BY SameData DEF OutTyped, Out!Acking
<1>2. \A s : Out!BeginComplete(a.t, a.c, s) \subseteq Out!Acking
  BY <1>1, SameData DEF Out!BeginComplete, Out!Acking
<1>3. [a EXCEPT !.step = "close"] \in Out!Acking
  BY <1>1 DEF Out!Acking
<1>4. CASE Out!AckStored(a)
  BY <1>1, <1>2, <1>4
     DEF OutTyped, Out!AckStored, Out!clocks, Out!history
<1>5. CASE Out!Complete(a)
  BY <1>1, <1>3, <1>5, StatesWritten
     DEF OutTyped, Out!Complete, Out!Store, Out!context, Out!clocks, Out!history
<1>6. CASE Out!Close(a)
  BY <1>1, <1>6
     DEF OutTyped, Out!Close, Out!Forget, Out!context, Out!clocks, Out!history
<1> QED
  BY <1>4, <1>5, <1>6

LEMMA SweepTyped ==
  ASSUME OutTyped, Out!Sweep
  PROVE  OutTyped'
<1> USE DEF OutTyped, Out!context, Out!clocks, Out!history
<1>0. sweep # Out!Idle => sweep \in [t : Transfers, todo : SUBSET Chunks, failing : BOOLEAN]
  OBVIOUS
<1>1. ASSUME NEW c \in sweep.todo,
             Out!SweepSkips(c) \/ Out!SweepRetries(c) \/ Out!SweepGivesUp(c)
      PROVE  OutTyped'
  <2>1. sweep # Out!Idle
    BY DEF Out!Idle
  <2>2. sweep.t \in Transfers /\ c \in Chunks
    BY <1>0, <2>1
  <2>3. CASE Out!SweepSkips(c)
    BY <1>0, <2>1, <2>3 DEF Out!SweepSkips
  <2>4. CASE Out!SweepRetries(c)
    <3>1. retries[sweep.t][c] + 1 \in 0..MaxChunkRetries
      BY <2>2, <2>4, SenderConstants DEF Out!SweepRetries
    <3>2. /\ retries' \in [Transfers -> [Chunks -> 0..MaxChunkRetries]]
          /\ timer' \in [Transfers -> [Chunks -> {"off", "running", "due"}]]
      BY <2>2, <2>4, <3>1 DEF Out!SweepRetries
    <3>3. carried' \in [Transfers -> SUBSET Chunks]
      <4>1. carried' \in {carried, [carried EXCEPT ![sweep.t] = @ \cup {c}]}
        BY <2>4 DEF Out!SweepRetries
      <4>2. carried[sweep.t] \cup {c} \in SUBSET Chunks
        BY <2>2
      <4> QED
        BY <2>2, <4>1, <4>2
    <3>4. sweep' \in [t : Transfers, todo : SUBSET Chunks, failing : BOOLEAN]
      BY <1>0, <2>1, <2>4 DEF Out!SweepRetries
    <3> QED
      BY <2>4, <3>2, <3>3, <3>4 DEF Out!SweepRetries
  <2>5. CASE Out!SweepGivesUp(c)
    BY <1>0, <2>1, <2>5 DEF Out!SweepGivesUp
  <2> QED
    BY <1>1, <2>3, <2>4, <2>5
<1>2. CASE Out!SweepFails
  <2>1. sweep.t \in Transfers
    BY <1>0, <1>2 DEF Out!Idle, Out!SweepFails
  <2>2. /\ stored' \in [Transfers -> TransferState \cup {"none"}]
        /\ open' \subseteq Transfers
    <3>1. CASE Out!CanMove(local[sweep.t], "failed")
      <4>1. /\ stored' = [stored EXCEPT ![sweep.t] = "failed"]
            /\ open' = open \ {sweep.t}
        BY <1>2, <3>1, Zenon DEF Out!SweepFails, Out!Store, Out!Forget
      <4> QED
        BY <2>1, <4>1, StatesWritten
    <3>2. CASE ~ Out!CanMove(local[sweep.t], "failed")
      BY <1>2, <3>2 DEF Out!SweepFails
    <3> QED
      BY <3>1, <3>2
  <2> QED
    BY <1>2, <2>2 DEF Out!SweepFails
<1>3. CASE Out!SweepEnds
  BY <1>3 DEF Out!SweepEnds
<1> QED
  BY <1>1, <1>2, <1>3 DEF Out!Sweep

LEMMA ControlTyped ==
  ASSUME OutTyped, NEW t \in Transfers,
         Out!Pause(t) \/ Out!Resume(t) \/ Out!Cancel(t)
  PROVE  OutTyped'
<1>1. \A op \in {"pause", "resume", "cancel"} : [t |-> t, op |-> op] \in Out!Control
  BY DEF Out!Control
<1>2. CASE Out!Pause(t)
  BY <1>1, <1>2 DEF OutTyped, Out!Pause, Out!Calls, Out!clocks
<1>3. CASE Out!Resume(t)
  <2>1. controls' \subseteq Out!Control
    BY <1>1, <1>3 DEF OutTyped, Out!Resume
  <2>2. paused' \in [Transfers -> BOOLEAN]
    BY <1>3 DEF OutTyped, Out!Resume
  <2> QED
    BY <1>3, <2>1, <2>2 DEF OutTyped, Out!Resume, Out!clocks, Out!history
<1>4. CASE Out!Cancel(t)
  BY <1>1, <1>4 DEF OutTyped, Out!Cancel, Out!Calls, Out!context, Out!clocks,
     Out!history
<1> QED
  BY <1>2, <1>3, <1>4

\* What the answer of the repository brings about.
LEMMA ControlEffect ==
  ASSUME NEW k \in controls, k.op \in {"pause", "resume", "cancel"},
         Out!ControlStored(k)
  PROVE  \/ /\ k.op = "pause"
            /\ Out!StoreAndCopy(k.t, "paused") /\ UNCHANGED <<open, cancelSent>>
         \/ /\ k.op = "resume"
            /\ Out!StoreAndCopy(k.t, "active") /\ UNCHANGED <<open, cancelSent>>
         \/ /\ k.op = "cancel"
            /\ Out!StoreAndCopy(k.t, "cancelled") /\ open' = open \ {k.t}
            /\ cancelSent \subseteq cancelSent'
            /\ cancelSent' \subseteq cancelSent \cup {k.t}
<1>1. CASE k.op = "pause"
  BY <1>1, Zenon DEF Out!ControlStored
<1>2. CASE k.op = "resume"
  BY <1>2, Zenon DEF Out!ControlStored
<1>3. CASE k.op = "cancel"
  <2>1. /\ Out!StoreAndCopy(k.t, "cancelled") /\ Out!Forget(k.t)
        /\ cancelSent' \in {cancelSent, cancelSent \cup ({k.t} \cap open)}
    BY <1>3, Zenon DEF Out!ControlStored
  <2> QED
    BY <1>3, <2>1 DEF Out!Forget
<1> QED
  BY <1>1, <1>2, <1>3

LEMMA ControlStoredTyped ==
  ASSUME OutTyped, NEW k \in controls, Out!ControlStored(k)
  PROVE  OutTyped'
<1>1. k.t \in Transfers /\ k.op \in {"pause", "resume", "cancel"}
  BY DEF OutTyped, Out!Control
<1>2. PICK state \in TransferState :
        /\ Out!StoreAndCopy(k.t, state)
        /\ open' \subseteq open
        /\ cancelSent' \subseteq cancelSent \cup {k.t}
  BY <1>1, ControlEffect, StatesWritten
<1> QED
  BY <1>1, <1>2 DEF OutTyped, Out!ControlStored, Out!StoreAndCopy, Out!Store,
     Out!clocks, Out!history

LEMMA SenderTyped ==
  ASSUME OutTyped, Out!Next \/ UNCHANGED Out!vars
  PROVE  OutTyped'
<1> USE DEF Out!context, Out!clocks, Out!history
<1>1. CASE UNCHANGED Out!vars
  BY <1>1 DEF OutTyped, Out!vars
<1>2. ASSUME NEW t \in Transfers, Out!SweepTransfer(t) PROVE OutTyped'
  BY <1>2 DEF OutTyped, Out!SweepTransfer
<1>3. ASSUME NEW t \in Transfers, Out!Expire(t) PROVE OutTyped'
  BY <1>3, StatesWritten DEF OutTyped, Out!Expire, Out!Store, Out!Forget
<1>4. ASSUME NEW t \in Transfers, NEW c \in Chunks, Out!TimerLapses(t, c)
      PROVE OutTyped'
  BY <1>4 DEF OutTyped, Out!TimerLapses
<1>5. ASSUME NEW s \in sending, Out!SendDone(s) PROVE OutTyped'
  BY <1>5 DEF OutTyped, Out!SendDone
<1> QED
  BY <1>1, <1>2, <1>3, <1>4, <1>5, StartTyped, PumpTyped, SendFailsTyped, AckTyped,
     AckHandlerTyped, SweepTyped, ControlTyped, ControlStoredTyped, SameData
     DEF Out!Next, Out!LocalNext

(***************************************************************************)
(* The sender: where its chunks are.                                       *)
(***************************************************************************)
InSeq(q, c) == \E i \in DOMAIN q : q[i] = c
NoRepeat(q) == \A i, j \in DOMAIN q : q[i] = q[j] => i = j

Started(t) == stored[t] # "none"

\* Nothing works on a transfer that was not started, and nothing is known of it.
OnlyStarted ==
  /\ \A t \in open : Started(t)
  /\ \A s \in sending : Started(s.t)
  /\ \A a \in acking : Started(a.t)
  /\ \A k \in controls : Started(k.t)
  /\ sweep # Out!Idle => Started(sweep.t)
  /\ \A t \in Transfers : ~ Started(t) =>
       /\ pending[t] = <<>> /\ ackedCount[t] = 0 /\ requeued[t] = 0
       /\ sent[t] = {} /\ acked[t] = {}

\* A chunk that waits is not in flight and no pump has it.  Unless one was
\* queued again after its ACK, none that waits or is in flight was acknowledged.
Placed(t, c) ==
  /\ InSeq(pending[t], c) =>
       /\ c \notin sent[t]
       /\ \A s \in sending : ~ (s.t = t /\ s.c = c)
  /\ requeued[t] = 0 /\ (InSeq(pending[t], c) \/ c \in sent[t]) => c \notin acked[t]
  /\ Started(t) => InSeq(pending[t], c) \/ c \in sent[t] \/ c \in acked[t]
  /\ \A r, s \in sending :
       r.t = t /\ r.c = c /\ s.t = t /\ s.c = c => r = s

\* Each chunk is counted once, and once more for each time it was queued again.
Sum(t) ==
  /\ Started(t) => Len(pending[t]) + Cardinality(sent[t]) + ackedCount[t]
                     = ChunkCount + requeued[t]
  /\ Cardinality(acked[t]) <= ackedCount[t]

Reserved == {p \in Transfers \X Chunks : p[2] \in sent[p[1]]}

\* The memory guard releases no less than it reserved, and no more unless a
\* chunk was queued again.
Guarded ==
  /\ inFlight <= Cardinality(Reserved)
  /\ (\A t \in Transfers : requeued[t] = 0) => inFlight = Cardinality(Reserved)

ChunksInv ==
  /\ OutTyped /\ OnlyStarted
  /\ \A t \in Transfers : NoRepeat(pending[t]) /\ Sum(t)
  /\ \A t \in Transfers, c \in Chunks : Placed(t, c)
  /\ Guarded

\* Who completes a transfer has all its chunks acknowledged, unless one was
\* queued again.
CompletingInv ==
  /\ \A t \in Transfers : Completed(t) => acked[t] = Chunks
  /\ \A a \in acking :
       a.step # "store" /\ requeued[a.t] = 0 => acked[a.t] = Chunks

\* Somebody is about to end what is acknowledged.
EndingInv ==
  /\ \A t \in Transfers : paused[t] => t \in everPaused
  /\ \A k \in controls : k.op # "cancel" => k.t \in everPaused
  /\ \A t \in open \ everPaused :
       /\ stored[t] \in {"active", "completed"}
       /\ local[t] \in {"active", "completed"}
       /\ acked[t] = Chunks => \E a \in acking : a.t = t

\* A queue whose first element is taken, or that gets a new first element.
LEMMA TakeFirst ==
  ASSUME NEW q \in Seq(Chunks), q # <<>>, NoRepeat(q)
  PROVE  /\ Head(q) \in Chunks /\ InSeq(q, Head(q))
         /\ Tail(q) \in Seq(Chunks) /\ Len(Tail(q)) = Len(q) - 1
         /\ NoRepeat(Tail(q))
         /\ \A c : InSeq(Tail(q), c) <=> InSeq(q, c) /\ c # Head(q)
<1>1. /\ Len(q) \in Nat /\ Len(q) > 0 /\ DOMAIN q = 1..Len(q)
      /\ Head(q) = q[1] /\ Head(q) \in Chunks /\ Tail(q) \in Seq(Chunks)
      /\ Len(Tail(q)) = Len(q) - 1 /\ DOMAIN Tail(q) = 1..(Len(q) - 1)
      /\ \A i \in 1..(Len(q) - 1) : Tail(q)[i] = q[i + 1]
  OBVIOUS
<1>2. NoRepeat(Tail(q))
  <2> SUFFICES ASSUME NEW i \in 1..(Len(q) - 1), NEW j \in 1..(Len(q) - 1),
                      Tail(q)[i] = Tail(q)[j]
               PROVE  i = j
    BY <1>1 DEF NoRepeat
  <2>1. i + 1 \in 1..Len(q) /\ j + 1 \in 1..Len(q) /\ q[i + 1] = q[j + 1]
    BY <1>1
  <2> QED
    BY <1>1, <2>1 DEF NoRepeat
<1>3. ASSUME NEW c, InSeq(Tail(q), c) PROVE InSeq(q, c) /\ c # Head(q)
  <2>1. PICK i \in 1..(Len(q) - 1) : Tail(q)[i] = c
    BY <1>1, <1>3 DEF InSeq
  <2>2. i + 1 \in 1..Len(q) /\ i + 1 # 1 /\ q[i + 1] = c
    BY <1>1, <2>1
  <2> QED
    BY <1>1, <2>2 DEF InSeq, NoRepeat
<1>4. ASSUME NEW c, InSeq(q, c), c # Head(q) PROVE InSeq(Tail(q), c)
  <2>1. PICK i \in 1..Len(q) : q[i] = c
    BY <1>1, <1>4 DEF InSeq
  <2>2. i - 1 \in 1..(Len(q) - 1) /\ Tail(q)[i - 1] = c
    BY <1>1, <1>4, <2>1
  <2> QED
    BY <1>1, <2>2 DEF InSeq
<1>5. InSeq(q, Head(q))
  BY <1>1 DEF InSeq
<1> QED
  BY <1>1, <1>2, <1>3, <1>4, <1>5

LEMMA PutFirst ==
  ASSUME NEW q \in Seq(Chunks), NoRepeat(q), NEW x \in Chunks, ~ InSeq(q, x)
  PROVE  /\ <<x>> \o q \in Seq(Chunks) /\ Len(<<x>> \o q) = Len(q) + 1
         /\ NoRepeat(<<x>> \o q)
         /\ \A c : InSeq(<<x>> \o q, c) <=> InSeq(q, c) \/ c = x
<1> DEFINE r == <<x>> \o q
<1>1. /\ Len(q) \in Nat /\ DOMAIN q = 1..Len(q) /\ r \in Seq(Chunks)
      /\ Len(r) = Len(q) + 1 /\ DOMAIN r = 1..(Len(q) + 1)
      /\ r[1] = x /\ \A i \in 1..Len(q) : r[i + 1] = q[i]
  OBVIOUS
<1>2. \A i \in 1..(Len(q) + 1) : i = 1 \/ (i - 1 \in 1..Len(q) /\ r[i] = q[i - 1])
  BY <1>1
<1> HIDE DEF r
<1>3. NoRepeat(r)
  <2> SUFFICES ASSUME NEW i \in 1..(Len(q) + 1), NEW j \in 1..(Len(q) + 1), r[i] = r[j]
               PROVE  i = j
    BY <1>1 DEF NoRepeat
  <2>1. ASSUME NEW k \in 1..(Len(q) + 1), k # 1, r[k] = x PROVE FALSE
    BY <1>1, <1>2, <2>1 DEF InSeq
  <2>3. CASE i = 1 \/ j = 1
    BY <1>1, <2>1, <2>3
  <2>2. CASE i # 1 /\ j # 1
    <3>1. i - 1 \in 1..Len(q) /\ j - 1 \in 1..Len(q) /\ q[i - 1] = q[j - 1]
      BY <1>2, <2>2
    <3>2. i - 1 = j - 1
      BY <1>1, <3>1 DEF NoRepeat
    <3> QED
      BY <1>1, <3>2
  <2> QED
    BY <2>2, <2>3
<1>4. ASSUME NEW c, InSeq(r, c) PROVE InSeq(q, c) \/ c = x
  BY <1>1, <1>2, <1>4 DEF InSeq
<1>5. ASSUME NEW c, InSeq(q, c) PROVE InSeq(r, c)
  <2>1. PICK i \in 1..Len(q) : q[i] = c
    BY <1>1, <1>5 DEF InSeq
  <2>2. i + 1 \in 1..(Len(q) + 1) /\ r[i + 1] = c
    BY <1>1, <2>1
  <2> QED
    BY <1>1, <2>2 DEF InSeq
<1>6. InSeq(r, x)
  BY <1>1 DEF InSeq
<1> QED
  BY <1>1, <1>3, <1>4, <1>5, <1>6 DEF r

\* The queue of a transfer that starts: every chunk once.
LEMMA AllChunks ==
  LET q == [i \in Chunks |-> i]
  IN  /\ q \in Seq(Chunks) /\ Len(q) = ChunkCount /\ NoRepeat(q)
      /\ \A c \in Chunks : InSeq(q, c)
<1> DEFINE q == [i \in Chunks |-> i]
<1>1. ChunkCount \in Nat /\ Chunks = 1..ChunkCount
  BY SenderConstants DEF Chunks
<1>2. q \in Seq(Chunks) /\ DOMAIN q = 1..ChunkCount
  BY <1>1 DEF Seq
<1>3. Len(q) = ChunkCount
  BY <1>1, <1>2, LenProperties
<1>4. NoRepeat(q) /\ \A c \in Chunks : InSeq(q, c)
  BY DEF NoRepeat, InSeq
<1> QED
  BY <1>2, <1>3, <1>4

\* What is reserved, when one chunk gets in flight or is no longer.
LEMMA ReservedFinite ==
  ASSUME OutTyped
  PROVE  IsFiniteSet(Reserved) /\ Cardinality(Reserved) \in Nat
         /\ \A t \in Transfers : IsFiniteSet(sent[t]) /\ Cardinality(sent[t]) \in Nat
<1>1. IsFiniteSet(Chunks)
  BY SenderConstants, FS_Interval DEF Chunks
<1>2. IsFiniteSet(Transfers \X Chunks)
  BY <1>1, SenderConstants, FS_Product
<1>3. Reserved \subseteq Transfers \X Chunks
  BY DEF Reserved
<1>4. \A t \in Transfers : sent[t] \subseteq Chunks
  BY DEF OutTyped
<1> QED
  BY <1>1, <1>2, <1>3, <1>4, FS_Subset, FS_CardinalityType

LEMMA ReservedMore ==
  ASSUME OutTyped, NEW t \in Transfers, NEW c \in Chunks, c \notin sent[t],
         sent' = [sent EXCEPT ![t] = @ \cup {c}]
  PROVE  /\ Cardinality(Reserved') = Cardinality(Reserved) + 1
         /\ Cardinality(sent'[t]) = Cardinality(sent[t]) + 1
<1>1. Reserved' = Reserved \cup {<<t, c>>} /\ <<t, c>> \notin Reserved
  BY DEF OutTyped, Reserved
<1>2. sent'[t] = sent[t] \cup {c}
  BY DEF OutTyped
<1> QED
  <2>1. /\ IsFiniteSet(Reserved) /\ IsFiniteSet(sent[t])
        /\ Cardinality(Reserved) \in Nat /\ Cardinality(sent[t]) \in Nat
    BY ReservedFinite
  <2>2. Cardinality(Reserved \cup {<<t, c>>}) = Cardinality(Reserved) + 1
    BY <1>1, <2>1, FS_AddElement
  <2>3. Cardinality(sent[t] \cup {c}) = Cardinality(sent[t]) + 1
    BY <2>1, FS_AddElement
  <2> QED
    BY <1>1, <1>2, <2>2, <2>3

LEMMA ReservedLess ==
  ASSUME OutTyped, NEW t \in Transfers, NEW c \in Chunks, c \in sent[t],
         sent' = [sent EXCEPT ![t] = @ \ {c}]
  PROVE  /\ Cardinality(Reserved') = Cardinality(Reserved) - 1
         /\ Cardinality(Reserved) > 0
         /\ Cardinality(sent'[t]) = Cardinality(sent[t]) - 1
<1>1. Reserved' = Reserved \ {<<t, c>>} /\ <<t, c>> \in Reserved
  BY DEF OutTyped, Reserved
<1>2. sent'[t] = sent[t] \ {c}
  BY DEF OutTyped
<1>3. Cardinality(Reserved) # 0
  BY <1>1, ReservedFinite, FS_EmptySet
<1>0. /\ IsFiniteSet(Reserved) /\ IsFiniteSet(sent[t])
      /\ Cardinality(Reserved) \in Nat /\ Cardinality(sent[t]) \in Nat
  BY ReservedFinite
<1>4. Cardinality(Reserved') = Cardinality(Reserved) - 1
  BY <1>0, <1>1, FS_RemoveElement
<1>5. Cardinality(sent'[t]) = Cardinality(sent[t]) - 1
  <2>1. Cardinality(sent[t] \ {c}) = Cardinality(sent[t]) - 1
    BY <1>0, FS_RemoveElement
  <2> QED
    BY <1>2, <2>1
<1> QED
  BY <1>3, <1>4, <1>5, ReservedFinite

\* A step that leaves the chunks where they are.
Quiet ==
  /\ UNCHANGED <<pending, sent, ackedCount, acked, inFlight, requeued>>
  /\ sending' \subseteq sending
  /\ \A t \in Transfers : Started(t)' <=> Started(t)
  /\ open' \subseteq open
  /\ \A a \in acking' : Started(a.t)
  /\ \A k \in controls' : Started(k.t)
  /\ sweep' # Out!Idle => Started(sweep'.t)

LEMMA QuietKeeps ==
  ASSUME ChunksInv, OutTyped', Quiet
  PROVE  ChunksInv'
<1>1. /\ \A s \in sending' : s \in sending /\ s.t \in Transfers
      /\ \A a \in acking' : a.t \in Transfers
      /\ \A k \in controls' : k.t \in Transfers
      /\ sweep' # Out!Idle => sweep'.t \in Transfers
      /\ \A t \in open' : t \in Transfers
  BY DEF ChunksInv, OutTyped, Quiet, Out!Sending, Out!Acking, Out!Control
<1>2. OnlyStarted'
  BY <1>1 DEF ChunksInv, OnlyStarted, Quiet
<1>3. \A t \in Transfers : NoRepeat(pending[t])' /\ Sum(t)'
  BY DEF ChunksInv, Quiet, NoRepeat, Sum
<1>4. \A t \in Transfers, c \in Chunks : Placed(t, c)'
  BY DEF ChunksInv, Quiet, Placed, InSeq
<1>5. Guarded'
  BY DEF ChunksInv, Quiet, Reserved, Guarded
<1> QED
  BY <1>2, <1>3, <1>4, <1>5 DEF ChunksInv

\* The handlers of ACKs, but for the count of a chunk, are of that kind.
LEMMA AckHandlersQuiet ==
  ASSUME ChunksInv, NEW t \in Transfers, NEW c \in Chunks, NEW w,
         \/ Out!AckAgain(t, c, w)
         \/ \E a \in acking : Out!AckStored(a) \/ Out!Complete(a) \/ Out!Close(a)
  PROVE  Quiet
<1>1. /\ \A k \in controls : Started(k.t)
      /\ \A a \in acking : Started(a.t)
      /\ sweep # Out!Idle => Started(sweep.t)
      /\ \A x \in open : Started(x)
      /\ stored \in [Transfers -> TransferState \cup {"none"}]
  BY DEF ChunksInv, OnlyStarted, OutTyped
<1>2. CASE Out!AckAgain(t, c, w)
  <2>1. \A a \in acking' : a \in acking \/ a.t = t
    BY <1>2 DEF Out!AckAgain, Out!BeginComplete
  <2>2. Started(t)
    BY <1>1, <1>2 DEF Out!AckAgain, Out!TakesAck
  <2> QED
    BY <1>1, <1>2, <2>1, <2>2
       DEF Quiet, Out!AckAgain, Out!TakesAck, Out!clocks, Out!history, Started
<1>3. ASSUME NEW a \in acking, Out!AckStored(a) PROVE Quiet
  <2>1. \A b \in acking' : b \in acking \/ b.t = a.t
    BY <1>3 DEF Out!AckStored, Out!BeginComplete
  <2> QED
    BY <1>1, <1>3, <2>1
       DEF Quiet, Out!AckStored, Out!clocks, Out!history, Started
<1>4. ASSUME NEW a \in acking, Out!Complete(a) PROVE Quiet
  <2>1. \A b \in acking' : b \in acking \/ b.t = a.t
    <3>1. [a EXCEPT !.step = "close"].t = a.t
      BY DEF ChunksInv, OutTyped, Out!Acking
    <3> QED
      BY <1>4, <3>1 DEF Out!Complete
  <2>2. \A x \in Transfers : Started(x)' <=> Started(x)
    BY <1>1, <1>4 DEF Out!Complete, Out!Store, Started
  <2> QED
    BY <1>1, <1>4, <2>1, <2>2
       DEF Quiet, Out!Complete, Out!context, Out!clocks, Out!history
<1>5. ASSUME NEW a \in acking, Out!Close(a) PROVE Quiet
  BY <1>1, <1>5
     DEF Quiet, Out!Close, Out!Forget, Out!context, Out!clocks, Out!history, Started
<1> QED
  BY <1>2, <1>3, <1>4, <1>5

\* So are the sweep, but for its retransmissions, and the end of a transfer.
LEMMA SweepQuiet ==
  ASSUME ChunksInv, NEW t \in Transfers,
         \/ Out!SweepTransfer(t) \/ Out!Expire(t)
         \/ \E c \in sweep.todo : Out!SweepSkips(c) \/ Out!SweepGivesUp(c)
         \/ Out!SweepFails \/ Out!SweepEnds
  PROVE  Quiet
<1> USE DEF Quiet, Out!context, Out!clocks, Out!history
<1>1. /\ \A k \in controls : Started(k.t)
      /\ \A a \in acking : Started(a.t)
      /\ sweep # Out!Idle => Started(sweep.t)
      /\ \A x \in open : Started(x)
      /\ stored \in [Transfers -> TransferState \cup {"none"}]
  BY DEF ChunksInv, OnlyStarted, OutTyped
<1>2. CASE Out!SweepTransfer(t)
  BY <1>1, <1>2 DEF Out!SweepTransfer, Started
<1>3. CASE Out!Expire(t)
  <2>1. \A x \in Transfers : Started(x)' <=> Started(x)
    BY <1>1, <1>3 DEF Out!Expire, Out!Store, Started
  <2> QED
    BY <1>1, <1>3, <2>1 DEF Out!Expire, Out!Forget
<1>4. ASSUME NEW c \in sweep.todo, Out!SweepSkips(c) \/ Out!SweepGivesUp(c)
      PROVE  Quiet
  <2>1. sweep # Out!Idle /\ sweep \in [t : Transfers, todo : SUBSET Chunks, failing : BOOLEAN]
    BY DEF Out!Idle, ChunksInv, OutTyped
  <2>2. sweep'.t = sweep.t
    BY <1>4, <2>1 DEF Out!SweepSkips, Out!SweepGivesUp
  <2> QED
    BY <1>1, <1>4, <2>1, <2>2 DEF Out!SweepSkips, Out!SweepGivesUp, Started
<1>5. CASE Out!SweepFails
  <2>1. sweep # Out!Idle
    BY <1>5 DEF Out!Idle, Out!SweepFails
  <2>2. \/ stored' = [stored EXCEPT ![sweep.t] = "failed"] /\ open' = open \ {sweep.t}
        \/ UNCHANGED <<open, stored>>
    BY <1>5, Zenon DEF Out!SweepFails, Out!Store, Out!Forget
  <2>3. \A x \in Transfers : Started(x)' <=> Started(x)
    BY <1>1, <2>1, <2>2 DEF Started
  <2> QED
    BY <1>1, <1>5, <2>2, <2>3 DEF Out!SweepFails
<1>6. CASE Out!SweepEnds
  BY <1>1, <1>6 DEF Out!SweepEnds, Started
<1> QED
  BY <1>2, <1>3, <1>4, <1>5, <1>6

\* And so are pauses, cancellations and what is resumed.
LEMMA ControlQuiet ==
  ASSUME ChunksInv,
         \/ \E t \in Transfers : Out!Pause(t) \/ Out!Resume(t) \/ Out!Cancel(t)
         \/ \E k \in controls : Out!ControlStored(k)
  PROVE  Quiet
<1> USE DEF Quiet, Out!context, Out!clocks, Out!history
<1>1. /\ \A k \in controls : Started(k.t)
      /\ \A a \in acking : Started(a.t)
      /\ sweep # Out!Idle => Started(sweep.t)
      /\ \A x \in open : Started(x)
      /\ stored \in [Transfers -> TransferState \cup {"none"}]
  BY DEF ChunksInv, OnlyStarted, OutTyped
<1>2. ASSUME NEW t \in Transfers, Out!Pause(t) \/ Out!Resume(t) \/ Out!Cancel(t)
      PROVE  Quiet
  <2>1. t \in open
    BY <1>2 DEF Out!Pause, Out!Resume, Out!Cancel, Out!Calls
  <2>2. \A k \in controls' : k \in controls \/ k.t = t
    <3>1. CASE Out!Resume(t)
      BY <3>1 DEF Out!Resume
    <3>2. CASE Out!Pause(t) \/ Out!Cancel(t)
      BY <3>2 DEF Out!Pause, Out!Cancel, Out!Calls
    <3> QED
      BY <1>2, <3>1, <3>2
  <2>3. /\ UNCHANGED <<pending, sent, ackedCount, acked, inFlight, requeued>>
        /\ UNCHANGED <<stored, sending, open, acking, sweep>>
    BY <1>2 DEF Out!Pause, Out!Resume, Out!Cancel
  <2> QED
    BY <1>1, <2>1, <2>2, <2>3 DEF Started
<1>3. ASSUME NEW k \in controls, Out!ControlStored(k) PROVE Quiet
  <2>1. k.t \in Transfers /\ k.op \in {"pause", "resume", "cancel"} /\ Started(k.t)
    BY <1>1 DEF ChunksInv, OutTyped, Out!Control
  <2>2. open' \subseteq open
        /\ \E state \in {"paused", "active", "cancelled"} : Out!StoreAndCopy(k.t, state)
    BY <1>3, <2>1, ControlEffect
  <2>3. \A x \in Transfers : Started(x)' <=> Started(x)
    BY <1>1, <2>1, <2>2 DEF Out!StoreAndCopy, Out!Store, Started
  <2>4. /\ UNCHANGED <<pending, sent, ackedCount, acked, inFlight, requeued>>
        /\ UNCHANGED <<sending, acking, sweep>> /\ controls' \subseteq controls
    BY <1>3 DEF Out!ControlStored
  <2> QED
    BY <1>1, <2>2, <2>3, <2>4
<1> QED
  BY <1>2, <1>3

\* What a step that moves a chunk has to keep.
LEMMA Rebuild ==
  ASSUME OutTyped', OnlyStarted',
         \A t \in Transfers : NoRepeat(pending[t])' /\ Sum(t)',
         \A t \in Transfers, c \in Chunks : Placed(t, c)', Guarded'
  PROVE  ChunksInv'
BY DEF ChunksInv

\* Bytes that are released, of a count that is not too high.
LEMMA ReleaseIs ==
  ASSUME NEW n \in Nat, NEW r \in Nat, n <= r
  PROVE  /\ Out!Max({0, n - 1}) <= r
         /\ r > 0 => Out!Max({0, n - 1}) <= r - 1
         /\ r > 0 /\ n = r => Out!Max({0, n - 1}) = r - 1
<1>1. CASE n = 0
  <2>1. Out!Max({0, n - 1}) \in 0..0
    BY <1>1, MaxOfZero
  <2> QED
    BY <1>1, <2>1
<1>2. CASE n > 0
  BY <1>2, MaxOfZero
<1> QED
  BY <1>1, <1>2

\* The numbers of a transfer that was started.
LEMMA NumbersOf ==
  ASSUME ChunksInv, NEW t \in Transfers
  PROVE  /\ Len(pending[t]) \in Nat /\ Cardinality(sent[t]) \in Nat
         /\ ackedCount[t] \in Nat /\ requeued[t] \in Nat /\ ChunkCount \in Nat
         /\ IsFiniteSet(acked[t]) /\ Cardinality(acked[t]) \in Nat
         /\ inFlight \in Nat /\ Cardinality(Reserved) \in Nat
<1>1. pending[t] \in Seq(Chunks) /\ ackedCount[t] \in Nat /\ acked[t] \subseteq Chunks
      /\ requeued[t] \in Nat /\ inFlight \in Nat
  BY SenderConstants DEF ChunksInv, OutTyped
<1>2. Len(pending[t]) \in Nat
  BY <1>1
<1>3. Cardinality(sent[t]) \in Nat /\ Cardinality(Reserved) \in Nat
  BY ReservedFinite DEF ChunksInv
<1>4. IsFiniteSet(acked[t]) /\ Cardinality(acked[t]) \in Nat
  <2>1. IsFiniteSet(Chunks)
    BY SenderConstants, FS_Interval DEF Chunks
  <2>2. IsFiniteSet(acked[t])
    BY <1>1, <2>1, FS_Subset
  <2> QED
    BY <2>2, FS_CardinalityType
<1> QED
  BY <1>1, <1>2, <1>3, <1>4, SenderConstants

LEMMA StartKeeps ==
  ASSUME ChunksInv, OutTyped', NEW t \in Transfers, Out!Start(t)
  PROVE  ChunksInv'
<1> DEFINE q == [i \in Chunks |-> i]
<1>1. /\ ~ Started(t) /\ Started(t)'
      /\ \A x \in Transfers : x # t => (Started(x)' <=> Started(x))
      /\ pending' = [pending EXCEPT ![t] = q]
      /\ open' = open \cup {t}
      /\ UNCHANGED <<sent, ackedCount, acked, inFlight, requeued>>
      /\ UNCHANGED <<sending, acking, sweep, controls>>
  BY SameData DEF ChunksInv, OutTyped, Out!Start, Out!StoreAndCopy, Out!Store, Out!clocks,
     Out!history, Started
<1>2. /\ pending[t] = <<>> /\ ackedCount[t] = 0 /\ requeued[t] = 0
      /\ sent[t] = {} /\ acked[t] = {}
      /\ \A s \in sending : s.t # t
  BY <1>1 DEF ChunksInv, OnlyStarted
<1>3. /\ q \in Seq(Chunks) /\ Len(q) = ChunkCount /\ NoRepeat(q)
      /\ \A c \in Chunks : InSeq(q, c)
  BY AllChunks
<1> HIDE DEF q
<1>4. pending'[t] = q /\ \A x \in Transfers : x # t => pending'[x] = pending[x]
  BY <1>1 DEF ChunksInv, OutTyped
<1>5. OnlyStarted'
  <2>1. /\ \A s \in sending : s.t \in Transfers
        /\ \A a \in acking : a.t \in Transfers
        /\ \A k \in controls : k.t \in Transfers
        /\ sweep # Out!Idle => sweep.t \in Transfers
        /\ open \subseteq Transfers
    BY DEF ChunksInv, OutTyped, Out!Sending, Out!Acking, Out!Control
  <2> QED
    BY <1>1, <1>4, <2>1 DEF ChunksInv, OnlyStarted
<1>6. ASSUME NEW x \in Transfers PROVE NoRepeat(pending[x])' /\ Sum(x)'
  <2>1. CASE x = t
    <3>1. Cardinality(sent[t]) = 0 /\ ChunkCount \in Nat
      BY <1>2, FS_EmptySet, SenderConstants
    <3>2. NoRepeat(pending[x])'
      BY <1>3, <1>4, <2>1 DEF NoRepeat
    <3>3. /\ Len(pending'[t]) = ChunkCount /\ Cardinality(sent'[t]) = 0
          /\ ackedCount'[t] = 0 /\ requeued'[t] = 0 /\ Cardinality(acked'[t]) = 0
      BY <1>1, <1>2, <1>3, <1>4, <3>1
    <3> QED
      BY <2>1, <3>1, <3>2, <3>3 DEF Sum
  <2>2. CASE x # t
    BY <1>1, <1>4, <2>2 DEF ChunksInv, Sum, NoRepeat
  <2> QED
    BY <2>1, <2>2
<1>7. ASSUME NEW x \in Transfers, NEW c \in Chunks PROVE Placed(x, c)'
  <2>1. CASE x = t
    BY <1>1, <1>2, <1>3, <1>4, <2>1 DEF Placed, InSeq
  <2>2. CASE x # t
    BY <1>1, <1>4, <2>2 DEF ChunksInv, Placed, InSeq
  <2> QED
    BY <2>1, <2>2
<1>8. Guarded'
  BY <1>1 DEF ChunksInv, Reserved, Guarded
<1> QED
  BY <1>5, <1>6, <1>7, <1>8, Rebuild

LEMMA PumpKeeps ==
  ASSUME ChunksInv, OutTyped', NEW t \in Transfers, Out!PumpChunk(t)
  PROVE  ChunksInv'
<1> DEFINE c == Head(pending[t])
<1>1. /\ pending[t] \in Seq(Chunks) /\ pending[t] # <<>> /\ t \in open
      /\ NoRepeat(pending[t])
      /\ pending' = [pending EXCEPT ![t] = Tail(@)]
      /\ sent' = [sent EXCEPT ![t] = @ \cup {c}]
      /\ inFlight' = inFlight + 1
      /\ UNCHANGED <<stored, open, ackedCount, acked, acking, sweep, controls, requeued>>
  BY DEF ChunksInv, OutTyped, Out!PumpChunk, Out!CanSend, Out!history
<1>2. PICK took \in BOOLEAN :
        sending' = sending \cup {[t |-> t, c |-> c, took |-> took]}
  BY DEF Out!PumpChunk
<1>3. /\ c \in Chunks /\ InSeq(pending[t], c) /\ Tail(pending[t]) \in Seq(Chunks)
      /\ Len(Tail(pending[t])) = Len(pending[t]) - 1 /\ NoRepeat(Tail(pending[t]))
      /\ \A x : InSeq(Tail(pending[t]), x) <=> InSeq(pending[t], x) /\ x # c
  BY <1>1, TakeFirst
<1>4. /\ c \notin sent[t]
      /\ requeued[t] = 0 => c \notin acked[t]
      /\ \A s \in sending : ~ (s.t = t /\ s.c = c)
  BY <1>3 DEF ChunksInv, Placed
<1> HIDE DEF c
<1>5. Started(t)
  BY <1>1 DEF ChunksInv, OnlyStarted
<1>6. /\ pending'[t] = Tail(pending[t]) /\ sent'[t] = sent[t] \cup {c}
      /\ \A x \in Transfers : x # t =>
           pending'[x] = pending[x] /\ sent'[x] = sent[x]
  BY <1>1, <1>2, <1>3 DEF ChunksInv, OutTyped
<1>7. OnlyStarted'
  BY <1>1, <1>2, <1>5, <1>6 DEF ChunksInv, OnlyStarted, Started
<1>8. /\ Cardinality(Reserved') = Cardinality(Reserved) + 1
      /\ Cardinality(sent'[t]) = Cardinality(sent[t]) + 1
  BY <1>1, <1>3, <1>4, ReservedMore DEF ChunksInv
<1>9. ASSUME NEW x \in Transfers PROVE NoRepeat(pending[x])' /\ Sum(x)'
  <2>1. CASE x = t
    <3>1. Len(pending[t]) + Cardinality(sent[t]) + ackedCount[t]
            = ChunkCount + requeued[t]
      BY <1>5 DEF ChunksInv, Sum
    <3>2. NoRepeat(pending[x])'
      BY <1>3, <1>6, <2>1 DEF NoRepeat
    <3>3. Len(pending'[t]) + Cardinality(sent'[t]) + ackedCount'[t]
            = ChunkCount + requeued'[t]
      BY <1>1, <1>3, <1>6, <1>8, <3>1, NumbersOf
    <3> QED
      BY <1>1, <2>1, <3>2, <3>3 DEF ChunksInv, Sum
  <2>2. CASE x # t
    BY <1>1, <1>6, <2>2 DEF ChunksInv, Sum, NoRepeat, Started
  <2> QED
    BY <2>1, <2>2
<1>10. ASSUME NEW x \in Transfers, NEW y \in Chunks PROVE Placed(x, y)'
  <2>1. Placed(x, y)
    BY DEF ChunksInv
  <2>2. CASE x = t /\ y = c
    <3>1. ~ InSeq(pending'[t], c)
      BY <1>3, <1>6
    <3>2. \A s \in sending' : s.t = t /\ s.c = c => s = [t |-> t, c |-> c, took |-> took]
      BY <1>2, <1>4
    <3> QED
      BY <1>1, <1>4, <1>6, <2>2, <3>1, <3>2 DEF Placed, InSeq
  <2>3. CASE ~ (x = t /\ y = c)
    <3>1. /\ InSeq(pending'[x], y) <=> InSeq(pending[x], y)
          /\ y \in sent'[x] <=> y \in sent[x]
      <4>1. CASE x # t
        BY <1>6, <4>1
      <4>2. CASE x = t
        BY <1>3, <1>6, <2>3, <4>2
      <4> QED
        BY <4>1, <4>2
    <3>2. \A s \in sending' : s.t = x /\ s.c = y => s \in sending
      BY <1>2, <2>3
    <3> QED
      BY <1>1, <2>1, <3>1, <3>2 DEF Placed, InSeq, Started
  <2> QED
    BY <2>2, <2>3
<1>11. Guarded'
  BY <1>1, <1>8, NumbersOf DEF ChunksInv, Guarded
<1> QED
  BY <1>7, <1>9, <1>10, <1>11, Rebuild

\* A send may fail after the ACK of its chunk: the chunk is queued again, and
\* will be counted once more.
LEMMA SendFailsKeeps ==
  ASSUME ChunksInv, OutTyped', NEW s \in sending, Out!SendFails(s)
  PROVE  ChunksInv'
<1> DEFINE t == s.t
           c == s.c
<1>1. /\ t \in Transfers /\ c \in Chunks
      /\ pending[t] \in Seq(Chunks) /\ NoRepeat(pending[t])
  BY SameData DEF ChunksInv, OutTyped, Out!Sending, Out!SendFails
<1>2. /\ sending' = sending \ {s}
      /\ sent' = [sent EXCEPT ![t] = @ \ {c}]
      /\ inFlight' = Out!Max({0, inFlight - 1})
      /\ pending' = [pending EXCEPT ![t] = <<c>> \o @]
      /\ UNCHANGED <<stored, open, ackedCount, acked, acking, sweep, controls>>
  BY DEF Out!SendFails
<1>3. IF c \in sent[t] THEN UNCHANGED requeued
      ELSE requeued' = [requeued EXCEPT ![t] = requeued[t] + 1]
  BY Zenon DEF Out!SendFails
<1>4. ~ InSeq(pending[t], c) /\ \A r \in sending : r.t = t /\ r.c = c => r = s
  BY <1>1 DEF ChunksInv, Placed
<1>5. Started(t)
  BY DEF ChunksInv, OnlyStarted
<1> HIDE DEF t, c
<1>6. /\ <<c>> \o pending[t] \in Seq(Chunks)
      /\ Len(<<c>> \o pending[t]) = Len(pending[t]) + 1
      /\ NoRepeat(<<c>> \o pending[t])
      /\ \A x : InSeq(<<c>> \o pending[t], x) <=> InSeq(pending[t], x) \/ x = c
  BY <1>1, <1>4, PutFirst
<1>7. /\ pending'[t] = <<c>> \o pending[t] /\ sent'[t] = sent[t] \ {c}
      /\ \A x \in Transfers : x # t =>
           /\ pending'[x] = pending[x] /\ sent'[x] = sent[x]
           /\ requeued'[x] = requeued[x]
      /\ requeued'[t] = IF c \in sent[t] THEN requeued[t] ELSE requeued[t] + 1
  BY <1>1, <1>2, <1>3 DEF ChunksInv, OutTyped
<1>8. OnlyStarted'
  BY <1>2, <1>5, <1>7 DEF ChunksInv, OnlyStarted, Started
<1>9. /\ c \in sent[t] =>
           /\ Cardinality(Reserved') = Cardinality(Reserved) - 1
           /\ Cardinality(Reserved) > 0
           /\ Cardinality(sent'[t]) = Cardinality(sent[t]) - 1
      /\ c \notin sent[t] => Reserved' = Reserved /\ sent'[t] = sent[t]
  <2>1. CASE c \in sent[t]
    BY <1>1, <1>2, <2>1, ReservedLess DEF ChunksInv
  <2>2. CASE c \notin sent[t]
    <3>1. \A x \in Transfers : sent'[x] = sent[x]
      BY <1>7, <2>2
    <3> QED
      BY <1>1, <2>2, <3>1 DEF Reserved
  <2> QED
    BY <2>1, <2>2
<1>10. ASSUME NEW x \in Transfers PROVE NoRepeat(pending[x])' /\ Sum(x)'
  <2>1. CASE x = t
    <3>1. /\ Len(pending[t]) + Cardinality(sent[t]) + ackedCount[t]
               = ChunkCount + requeued[t]
          /\ Cardinality(acked[t]) <= ackedCount[t]
      BY <1>1, <1>5 DEF ChunksInv, Sum
    <3>2. NoRepeat(pending[x])'
      BY <1>6, <1>7, <2>1 DEF NoRepeat
    <3>3. Len(pending'[t]) = Len(pending[t]) + 1
      BY <1>6, <1>7
    <3>4. Len(pending'[t]) + Cardinality(sent'[t]) + ackedCount'[t]
            = ChunkCount + requeued'[t]
      <4>1. CASE c \in sent[t]
        BY <1>1, <1>2, <1>7, <1>9, <3>1, <3>3, <4>1, NumbersOf
      <4>2. CASE c \notin sent[t]
        <5>1. /\ Cardinality(sent'[t]) = Cardinality(sent[t])
              /\ requeued'[t] = requeued[t] + 1 /\ ackedCount'[t] = ackedCount[t]
          BY <1>2, <1>7, <1>9, <4>2
        <5>2. /\ Len(pending[t]) \in Nat /\ Cardinality(sent[t]) \in Nat
              /\ ackedCount[t] \in Nat /\ requeued[t] \in Nat /\ ChunkCount \in Nat
          BY <1>1, NumbersOf
        <5>3. Len(pending'[t]) + Cardinality(sent'[t]) + ackedCount'[t]
                = (Len(pending[t]) + 1) + Cardinality(sent[t]) + ackedCount[t]
          BY <3>3, <5>1, Zenon
        <5>4. (Len(pending[t]) + 1) + Cardinality(sent[t]) + ackedCount[t]
                = ChunkCount + (requeued[t] + 1)
          <6> DEFINE p == Len(pending[t])
                     o == Cardinality(sent[t])
                     a == ackedCount[t]
                     r == requeued[t]
          <6>1. /\ p \in Nat /\ o \in Nat /\ a \in Nat /\ r \in Nat /\ ChunkCount \in Nat
                /\ p + o + a = ChunkCount + r
            BY <3>1, <5>2
          <6> SUFFICES (p + 1) + o + a = ChunkCount + (r + 1)
            OBVIOUS
          <6> HIDE DEF p, o, a, r
          <6> QED
            BY <6>1
        <5> QED
          BY <5>1, <5>3, <5>4, Zenon
      <4> QED
        BY <4>1, <4>2
    <3> QED
      BY <1>2, <2>1, <3>1, <3>2, <3>4 DEF Sum
  <2>2. CASE x # t
    BY <1>2, <1>7, <2>2 DEF ChunksInv, Sum, NoRepeat, Started
  <2> QED
    BY <2>1, <2>2
<1>11. ASSUME NEW x \in Transfers, NEW y \in Chunks PROVE Placed(x, y)'
  <2>1. Placed(x, y)
    BY DEF ChunksInv
  <2>2. CASE x = t /\ y = c
    <3>1. InSeq(pending'[t], c) /\ c \notin sent'[t]
      BY <1>6, <1>7
    <3>2. \A r \in sending' : ~ (r.t = t /\ r.c = c)
      BY <1>2, <1>4
    <3>3. requeued'[t] = 0 => c \notin acked[t]
      <4>1. CASE c \in sent[t]
        BY <1>7, <2>1, <2>2, <4>1 DEF Placed
      <4>2. CASE c \notin sent[t]
        BY <1>1, <1>7, <4>2, NumbersOf
      <4> QED
        BY <4>1, <4>2
    <3> QED
      BY <1>2, <2>2, <3>1, <3>2, <3>3 DEF Placed
  <2>3. CASE ~ (x = t /\ y = c)
    <3>1. /\ InSeq(pending'[x], y) <=> InSeq(pending[x], y)
          /\ y \in sent'[x] <=> y \in sent[x]
          /\ requeued'[x] = 0 => requeued[x] = 0
      <4>1. CASE x # t
        BY <1>7, <4>1
      <4>2. CASE x = t
        <5>1. requeued[t] \in Nat
          BY <1>1, NumbersOf
        <5>2. requeued'[t] = 0 => requeued[t] = 0
          BY <1>7, <5>1
        <5>3. y # c
          BY <2>3, <4>2
        <5>4. InSeq(pending'[t], y) <=> InSeq(pending[t], y)
          BY <1>6, <1>7, <5>3
        <5>5. y \in sent'[t] <=> y \in sent[t]
          BY <1>7, <5>3
        <5> QED
          BY <4>2, <5>2, <5>4, <5>5
      <4> QED
        BY <4>1, <4>2
    <3> QED
      BY <1>2, <2>1, <3>1 DEF Placed, Started
  <2> QED
    BY <2>2, <2>3
<1>12. Guarded'
  <2>1. CASE c \in sent[t]
    <3>1. requeued' = requeued
      BY <1>3, <2>1
    <3> QED
      BY <1>1, <1>2, <1>9, <2>1, <3>1, NumbersOf, ReleaseIs DEF ChunksInv, Guarded
  <2>2. CASE c \notin sent[t]
    <3>1. requeued'[t] # 0
      BY <1>1, <1>7, <2>2, NumbersOf
    <3> QED
      BY <1>1, <1>2, <1>9, <2>2, <3>1, NumbersOf, ReleaseIs DEF ChunksInv, Guarded
  <2> QED
    BY <2>1, <2>2
<1> QED
  BY <1>8, <1>10, <1>11, <1>12, Rebuild

LEMMA AckChunkKeeps ==
  ASSUME ChunksInv, OutTyped', NEW t \in Transfers, NEW c \in Chunks, NEW w,
         Out!AckChunk(t, c, w)
  PROVE  ChunksInv'
<1>1. /\ t \in open /\ c \in carried[t] /\ c \in sent[t]
      /\ sent' = [sent EXCEPT ![t] = @ \ {c}]
      /\ inFlight' = Out!Max({0, inFlight - 1})
      /\ ackedCount' = [ackedCount EXCEPT ![t] = @ + 1]
      /\ acked' = [acked EXCEPT ![t] = @ \cup {c}]
      /\ acking' = acking \cup {[t |-> t, c |-> c, step |-> "store"]}
      /\ UNCHANGED <<stored, open, pending, sending, sweep, controls, requeued>>
  BY DEF Out!AckChunk, Out!TakesAck
<1>2. Started(t)
  BY <1>1 DEF ChunksInv, OnlyStarted
<1>3. ~ InSeq(pending[t], c)
  BY <1>1 DEF ChunksInv, Placed
<1>4. /\ sent'[t] = sent[t] \ {c} /\ acked'[t] = acked[t] \cup {c}
      /\ ackedCount'[t] = ackedCount[t] + 1
      /\ \A x \in Transfers : x # t =>
           /\ sent'[x] = sent[x] /\ acked'[x] = acked[x]
           /\ ackedCount'[x] = ackedCount[x]
  BY <1>1 DEF ChunksInv, OutTyped
<1>5. OnlyStarted'
  <2>1. \A a \in acking' : a \in acking \/ a.t = t
    BY <1>1
  <2> QED
    BY <1>1, <1>2, <1>4, <2>1 DEF ChunksInv, OnlyStarted, Started
<1>6. /\ Cardinality(Reserved') = Cardinality(Reserved) - 1 /\ Cardinality(Reserved) > 0
      /\ Cardinality(sent'[t]) = Cardinality(sent[t]) - 1
  BY <1>1, ReservedLess DEF ChunksInv
<1>7. ASSUME NEW x \in Transfers PROVE NoRepeat(pending[x])' /\ Sum(x)'
  <2>1. NoRepeat(pending[x])'
    BY <1>1 DEF ChunksInv, NoRepeat
  <2>2. CASE x = t
    <3>1. /\ Len(pending[t]) + Cardinality(sent[t]) + ackedCount[t]
               = ChunkCount + requeued[t]
          /\ Cardinality(acked[t]) <= ackedCount[t]
      BY <1>2 DEF ChunksInv, Sum
    <3>2. pending' = pending /\ requeued' = requeued
      BY <1>1
    <3>3. Len(pending'[t]) + Cardinality(sent'[t]) + ackedCount'[t]
            = ChunkCount + requeued'[t]
      <4>1. /\ Len(pending[t]) \in Nat /\ Cardinality(sent[t]) \in Nat
            /\ ackedCount[t] \in Nat /\ requeued[t] \in Nat /\ ChunkCount \in Nat
        BY NumbersOf
      <4>2. /\ Len(pending'[t]) = Len(pending[t]) /\ requeued'[t] = requeued[t]
            /\ Cardinality(sent'[t]) = Cardinality(sent[t]) - 1
            /\ ackedCount'[t] = ackedCount[t] + 1
        BY <1>4, <1>6, <3>2
      <4>3. Len(pending'[t]) + Cardinality(sent'[t]) + ackedCount'[t]
              = Len(pending[t]) + (Cardinality(sent[t]) - 1) + (ackedCount[t] + 1)
        BY <4>2, Zenon
      <4>4. Len(pending[t]) + (Cardinality(sent[t]) - 1) + (ackedCount[t] + 1)
              = ChunkCount + requeued[t]
        <5> DEFINE p == Len(pending[t])
                   o == Cardinality(sent[t])
                   a == ackedCount[t]
                   r == requeued[t]
        <5>1. /\ p \in Nat /\ o \in Nat /\ a \in Nat /\ r \in Nat /\ ChunkCount \in Nat
              /\ p + o + a = ChunkCount + r
          BY <3>1, <4>1
        <5> SUFFICES p + (o - 1) + (a + 1) = ChunkCount + r
          OBVIOUS
        <5> HIDE DEF p, o, a, r
        <5> QED
          BY <5>1
      <4> QED
        BY <4>2, <4>3, <4>4, Zenon
    <3>4. Cardinality(acked[t] \cup {c}) \in {Cardinality(acked[t]), Cardinality(acked[t]) + 1}
      BY NumbersOf, FS_AddElement
    <3>5. Cardinality(acked'[t]) <= ackedCount'[t]
      BY <1>4, <3>1, <3>4, NumbersOf
    <3> QED
      BY <2>1, <2>2, <3>3, <3>5 DEF Sum
  <2>3. CASE x # t
    BY <1>1, <1>4, <2>1, <2>3 DEF ChunksInv, Sum, Started
  <2> QED
    BY <2>2, <2>3
<1>8. ASSUME NEW x \in Transfers, NEW y \in Chunks PROVE Placed(x, y)'
  <2>1. Placed(x, y)
    BY DEF ChunksInv
  <2>2. CASE x = t /\ y = c
    BY <1>1, <1>3, <1>4, <2>1, <2>2 DEF Placed
  <2>3. CASE ~ (x = t /\ y = c)
    <3>1. /\ y \in sent'[x] <=> y \in sent[x]
          /\ y \in acked'[x] <=> y \in acked[x]
      BY <1>4, <2>3
    <3> QED
      BY <1>1, <2>1, <3>1 DEF Placed, Started
  <2> QED
    BY <2>2, <2>3
<1>9. Guarded'
  BY <1>1, <1>6, NumbersOf, ReleaseIs DEF ChunksInv, Guarded
<1> QED
  BY <1>5, <1>7, <1>8, <1>9, Rebuild

\* So are an ACK timeout that passes and a chunk that is sent again.
LEMMA RetryQuiet ==
  ASSUME ChunksInv, NEW t \in Transfers, NEW c \in Chunks,
         \/ Out!TimerLapses(t, c)
         \/ c \in sweep.todo /\ sweep.t = t /\ Out!SweepRetries(c)
  PROVE  Quiet
<1>1. /\ UNCHANGED <<stored, open, pending, sent, ackedCount, acked, inFlight,
                     requeued, sending, acking, controls>>
      /\ sweep' = sweep \/ (c \in sweep.todo /\ sweep' = [sweep EXCEPT !.todo = @ \ {c}])
  BY DEF Out!TimerLapses, Out!SweepRetries, Out!context, Out!history
<1>2. sweep' # Out!Idle => Started(sweep'.t)
  <2>1. CASE sweep' = sweep
    BY <2>1 DEF ChunksInv, OnlyStarted
  <2>2. CASE sweep' # sweep
    <3>1. sweep # Out!Idle
      BY <1>1, <2>2 DEF Out!Idle
    <3>2. sweep \in [t : Transfers, todo : SUBSET Chunks, failing : BOOLEAN]
      BY <3>1 DEF ChunksInv, OutTyped
    <3> QED
      BY <1>1, <2>2, <3>1, <3>2 DEF ChunksInv, OnlyStarted
  <2> QED
    BY <2>1, <2>2
<1> QED
  BY <1>1, <1>2 DEF ChunksInv, OnlyStarted, Quiet, Started

LEMMA SendDoneKeeps ==
  ASSUME ChunksInv, OutTyped', NEW s \in sending, Out!SendDone(s)
  PROVE  ChunksInv'
<1>1. Quiet
  BY DEF ChunksInv, OnlyStarted, Quiet, Out!SendDone, Out!context, Out!clocks,
     Out!history, Started
<1> QED
  BY <1>1, QuietKeeps

LEMMA ChunksStep ==
  ASSUME ChunksInv, Out!Next \/ UNCHANGED Out!vars
  PROVE  ChunksInv'
<1>1. OutTyped'
  BY SenderTyped DEF ChunksInv
<1>2. CASE UNCHANGED Out!vars
  <2>1. Quiet
    BY <1>2 DEF ChunksInv, OnlyStarted, Quiet, Out!vars, Out!context, Out!clocks,
       Out!history, Started
  <2> QED
    BY <1>1, <2>1, QuietKeeps
<1>3. ASSUME NEW t \in Transfers,
             \/ Out!Start(t) \/ Out!PumpChunk(t) \/ Out!SweepTransfer(t) \/ Out!Expire(t)
             \/ Out!Pause(t) \/ Out!Resume(t) \/ Out!Cancel(t)
             \/ \E c \in Chunks : Out!TimerLapses(t, c)
      PROVE  ChunksInv'
  BY <1>1, <1>3, StartKeeps, PumpKeeps, SweepQuiet, ControlQuiet, RetryQuiet, QuietKeeps
<1>4. ASSUME NEW s \in sending, Out!SendDone(s) \/ Out!SendFails(s) PROVE ChunksInv'
  BY <1>1, <1>4, SendDoneKeeps, SendFailsKeeps
<1>5. ASSUME NEW a \in acking, Out!AckStored(a) \/ Out!Complete(a) \/ Out!Close(a)
      PROVE  ChunksInv'
  <2>1. a.t \in Transfers /\ a.c \in Chunks
    BY SameData DEF ChunksInv, OutTyped, Out!Acking
  <2> QED
    BY <1>1, <1>5, <2>1, AckHandlersQuiet, QuietKeeps
<1>6. CASE Out!Sweep
  <2>1. CASE Out!SweepFails \/ Out!SweepEnds
    <3>1. sweep.t \in Transfers
      BY <2>1 DEF ChunksInv, OutTyped, Out!SweepFails, Out!SweepEnds, Out!Idle
    <3> QED
      BY <1>1, <2>1, <3>1, SweepQuiet, QuietKeeps
  <2>2. ASSUME NEW c \in sweep.todo,
               Out!SweepSkips(c) \/ Out!SweepRetries(c) \/ Out!SweepGivesUp(c)
        PROVE  ChunksInv'
    <3>1. sweep.t \in Transfers /\ c \in Chunks
      BY DEF ChunksInv, OutTyped, Out!Idle
    <3> QED
      BY <1>1, <2>2, <3>1, SweepQuiet, QuietKeeps, RetryQuiet
  <2> QED
    BY <1>6, <2>1, <2>2 DEF Out!Sweep
<1>7. ASSUME NEW k \in controls, Out!ControlStored(k) PROVE ChunksInv'
  BY <1>1, <1>7, ControlQuiet, QuietKeeps
<1>8. ASSUME NEW t \in Transfers, NEW c \in Chunks, NEW w \in 1..Window,
             Out!Ack(t, c, w)
      PROVE  ChunksInv'
  BY <1>1, <1>8, AckChunkKeeps, AckHandlersQuiet, QuietKeeps DEF Out!Ack
<1> QED
  BY <1>2, <1>3, <1>4, <1>5, <1>6, <1>7, <1>8, SameData DEF Out!Next, Out!LocalNext

LEMMA InitChunks == Out!Init => ChunksInv
<1> SUFFICES ASSUME Out!Init PROVE ChunksInv
  OBVIOUS
<1>1. /\ OutTyped /\ OnlyStarted
      /\ \A t \in Transfers : /\ ~ Started(t) /\ pending[t] = <<>> /\ sent[t] = {}
                               /\ acked[t] = {} /\ ackedCount[t] = 0
      /\ sending = {} /\ inFlight = 0
  BY InitTyped, SameData DEF Out!Init, OnlyStarted, Started
<1>2. \A t \in Transfers : NoRepeat(pending[t]) /\ Sum(t)
  <2> SUFFICES ASSUME NEW t \in Transfers PROVE NoRepeat(pending[t]) /\ Sum(t)
    OBVIOUS
  <2>1. NoRepeat(pending[t])
    BY <1>1 DEF NoRepeat
  <2>2. Cardinality(acked[t]) = 0 /\ ackedCount[t] = 0 /\ ~ Started(t)
    BY <1>1, FS_EmptySet
  <2>3. Cardinality(acked[t]) <= ackedCount[t]
    BY <2>2
  <2> QED
    BY <2>1, <2>2, <2>3 DEF Sum
<1>3. \A t \in Transfers, c \in Chunks : Placed(t, c)
  BY <1>1 DEF Placed, InSeq
<1>4. Reserved = {}
  BY <1>1 DEF Reserved
<1> QED
  BY <1>1, <1>2, <1>3, <1>4, FS_EmptySet DEF ChunksInv, Guarded

\* With every chunk acknowledged the count is full, and, where none was queued
\* again, only then.
LEMMA CountTells ==
  ASSUME ChunksInv, NEW t \in Transfers, Started(t)
  PROVE  /\ ackedCount[t] <= ChunkCount + requeued[t]
         /\ requeued[t] = 0 /\ ackedCount[t] >= ChunkCount => acked[t] = Chunks
         /\ acked[t] = Chunks => ackedCount[t] >= ChunkCount
<1>1. /\ pending[t] \in Seq(Chunks) /\ sent[t] \subseteq Chunks /\ acked[t] \subseteq Chunks
      /\ DOMAIN pending[t] = 1..Len(pending[t])
  BY DEF ChunksInv, OutTyped
<1>2. IsFiniteSet(sent[t])
  BY ReservedFinite DEF ChunksInv
<1>3. /\ Len(pending[t]) + Cardinality(sent[t]) + ackedCount[t]
           = ChunkCount + requeued[t]
      /\ Cardinality(acked[t]) <= ackedCount[t]
  BY DEF ChunksInv, Sum
<1>4. ASSUME requeued[t] = 0, ackedCount[t] >= ChunkCount PROVE acked[t] = Chunks
  <2>1. Len(pending[t]) = 0 /\ Cardinality(sent[t]) = 0
    BY <1>3, <1>4, NumbersOf
  <2>2. sent[t] = {}
    BY <1>2, <2>1, FS_EmptySet
  <2>3. \A c \in Chunks : ~ InSeq(pending[t], c)
    BY <1>1, <2>1 DEF InSeq
  <2> QED
    BY <1>1, <2>2, <2>3 DEF ChunksInv, Placed
<1>5. ASSUME acked[t] = Chunks PROVE ackedCount[t] >= ChunkCount
  <2>1. Cardinality(Chunks) = ChunkCount
    BY SenderConstants, FS_Interval DEF Chunks
  <2> QED
    BY <1>3, <1>5, <2>1, NumbersOf
<1>6. ackedCount[t] <= ChunkCount + requeued[t]
  BY <1>3, NumbersOf
<1> QED
  BY <1>4, <1>5, <1>6

\* What the sender counts with is what the library's theorems speak of.
LEMMA SameCount == \A S : Out!Cardinality(S) = Cardinality(S)
BY DEF Out!Cardinality, Cardinality

\* Chunks and reserved bytes are where the engine's property says.
LEMMA ChunksInvMeans ==
  ASSUME ChunksInv
  PROVE  Out!ChunksAccounted /\ Out!GuardBalanced
<1>1. ASSUME NEW t \in open, NEW c \in Chunks
      PROVE  /\ Out!InQueue(t, c) \/ c \in sent[t] \/ c \in acked[t]
             /\ ~ (Out!InQueue(t, c) /\ c \in sent[t])
             /\ requeued[t] = 0 =>
                  c \notin acked[t] \/ ~ (Out!InQueue(t, c) \/ c \in sent[t])
  <2>1. t \in Transfers /\ Started(t)
    BY DEF ChunksInv, OutTyped, OnlyStarted
  <2>2. Out!InQueue(t, c) <=> InSeq(pending[t], c)
    BY DEF Out!InQueue, InSeq
  <2>3. Placed(t, c)
    BY <2>1 DEF ChunksInv
  <2> QED
    BY <2>1, <2>2, <2>3 DEF Placed
<1>2. \A t \in open : Len(pending[t]) + Cardinality(sent[t]) + ackedCount[t]
                        = ChunkCount + requeued[t]
  BY DEF ChunksInv, OutTyped, OnlyStarted, Sum
<1>3. Out!GuardBalanced
  BY SameData, SameCount DEF ChunksInv, Reserved, Guarded, Out!GuardBalanced
<1> QED
  BY <1>1, <1>2, <1>3, SameData, SameCount DEF Out!ChunksAccounted

(***************************************************************************)
(* The sender: how a transfer ends.                                        *)
(***************************************************************************)
\* A step that ends nothing and acknowledges nothing.
LEMMA CompletingQuiet ==
  ASSUME OutTyped, CompletingInv, UNCHANGED acked,
         \A t \in Transfers : stored'[t] = "completed" => stored[t] = "completed",
         \A t \in Transfers : requeued'[t] = 0 => requeued[t] = 0,
         acking' \subseteq acking
  PROVE  CompletingInv'
BY DEF OutTyped, CompletingInv, Completed, Out!Acking

LEMMA CompletingStep ==
  ASSUME ChunksInv, CompletingInv, Out!Next \/ UNCHANGED Out!vars
  PROVE  CompletingInv'
<1>1. OutTyped /\ stored \in [Transfers -> TransferState \cup {"none"}]
  BY DEF ChunksInv, OutTyped
<1>2. \A state \in {"active", "paused", "failed", "cancelled", "expired"},
         t \in Transfers :
        stored' = [stored EXCEPT ![t] = state] =>
          \A x \in Transfers : stored'[x] = "completed" => stored[x] = "completed"
  BY <1>1
<1> USE DEF Out!context, Out!clocks, Out!history
<1>3. CASE UNCHANGED Out!vars
  BY <1>1, <1>3, CompletingQuiet DEF Out!vars
<1>4. ASSUME NEW t \in Transfers, Out!Start(t) PROVE CompletingInv'
  BY <1>1, <1>2, <1>4, CompletingQuiet DEF Out!Start, Out!StoreAndCopy, Out!Store
<1>5. ASSUME NEW t \in Transfers, Out!PumpChunk(t) PROVE CompletingInv'
  BY <1>1, <1>5, CompletingQuiet DEF Out!PumpChunk
<1>6. ASSUME NEW t \in Transfers, Out!SweepTransfer(t) PROVE CompletingInv'
  BY <1>1, <1>6, CompletingQuiet DEF Out!SweepTransfer
<1>7. ASSUME NEW t \in Transfers, Out!Expire(t) PROVE CompletingInv'
  BY <1>1, <1>2, <1>7, CompletingQuiet DEF Out!Expire, Out!Store
<1>8. ASSUME NEW t \in Transfers, Out!Pause(t) \/ Out!Resume(t) \/ Out!Cancel(t)
      PROVE  CompletingInv'
  BY <1>1, <1>8, CompletingQuiet DEF Out!Pause, Out!Resume, Out!Cancel
<1>9. ASSUME NEW t \in Transfers, NEW c \in Chunks, Out!TimerLapses(t, c)
      PROVE  CompletingInv'
  BY <1>1, <1>9, CompletingQuiet DEF Out!TimerLapses
<1>10. ASSUME NEW s \in sending, Out!SendDone(s) \/ Out!SendFails(s)
       PROVE  CompletingInv'
  <2>1. CASE Out!SendDone(s)
    BY <1>1, <2>1, CompletingQuiet DEF Out!SendDone
  <2>2. CASE Out!SendFails(s)
    <3>1. /\ UNCHANGED <<stored, acked, acking>>
          /\ \/ UNCHANGED requeued
             \/ requeued' = [requeued EXCEPT ![s.t] = requeued[s.t] + 1]
      BY <2>2, Zenon DEF Out!SendFails
    <3>2. \A t \in Transfers : requeued'[t] = 0 => requeued[t] = 0
      BY <3>1, SenderConstants DEF ChunksInv, OutTyped
    <3> QED
      BY <1>1, <3>1, <3>2, CompletingQuiet
  <2> QED
    BY <1>10, <2>1, <2>2
<1>11. ASSUME NEW a \in acking, Out!AckStored(a) PROVE CompletingInv'
  <2>1. a.t \in Transfers /\ Started(a.t)
    BY DEF ChunksInv, OutTyped, OnlyStarted, Out!Acking
  <2>2. ASSUME NEW b \in acking', b.step # "store", requeued[b.t] = 0
        PROVE  acked[b.t] = Chunks
    <3>1. CASE b \in acking
      BY <2>2, <3>1 DEF CompletingInv
    <3>2. CASE b \notin acking
      <4>1. b.t = a.t /\ ackedCount[a.t] >= ChunkCount
        BY <1>11, <2>2, <3>2 DEF Out!AckStored, Out!BeginComplete
      <4> QED
        BY <2>1, <2>2, <4>1, CountTells
    <3> QED
      BY <3>1, <3>2
  <2> QED
    BY <1>11, <2>2 DEF CompletingInv, Completed, Out!AckStored
<1>12. ASSUME NEW a \in acking, Out!Complete(a) PROVE CompletingInv'
  <2>1. a.t \in Transfers /\ (requeued[a.t] = 0 => acked[a.t] = Chunks)
    BY <1>12 DEF ChunksInv, OutTyped, Out!Acking, CompletingInv, Out!Complete
  <2>2. \A b \in acking' : b \in acking \/ b.t = a.t
    <3>1. [a EXCEPT !.step = "close"].t = a.t
      BY DEF ChunksInv, OutTyped, Out!Acking
    <3> QED
      BY <1>12, <3>1 DEF Out!Complete
  <2>3. \A x \in Transfers : stored'[x] = "completed" => stored[x] = "completed" \/ x = a.t
    BY <1>1, <1>12, <2>1 DEF Out!Complete, Out!Store
  <2> QED
    BY <1>12, <2>1, <2>2, <2>3 DEF CompletingInv, Completed, Out!Complete
<1>13. ASSUME NEW a \in acking, Out!Close(a) PROVE CompletingInv'
  BY <1>1, <1>13, CompletingQuiet DEF Out!Close
<1>14. CASE Out!Sweep
  <2>1. ASSUME NEW c \in sweep.todo,
               Out!SweepSkips(c) \/ Out!SweepRetries(c) \/ Out!SweepGivesUp(c)
        PROVE  CompletingInv'
    BY <1>1, <2>1, CompletingQuiet DEF Out!SweepSkips, Out!SweepRetries, Out!SweepGivesUp
  <2>2. CASE Out!SweepFails
    <3>1. sweep.t \in Transfers
      BY <2>2 DEF ChunksInv, OutTyped, Out!SweepFails, Out!Idle
    <3>2. \/ stored' = [stored EXCEPT ![sweep.t] = "failed"]
          \/ UNCHANGED stored
      BY <2>2, Zenon DEF Out!SweepFails, Out!Store
    <3>3. UNCHANGED <<acked, acking, requeued>>
      BY <2>2 DEF Out!SweepFails
    <3> QED
      BY <1>1, <1>2, <3>1, <3>2, <3>3, CompletingQuiet
  <2>3. CASE Out!SweepEnds
    BY <1>1, <2>3, CompletingQuiet DEF Out!SweepEnds
  <2> QED
    BY <1>14, <2>1, <2>2, <2>3 DEF Out!Sweep
<1>15. ASSUME NEW k \in controls, Out!ControlStored(k) PROVE CompletingInv'
  <2>1. k.t \in Transfers /\ k.op \in {"pause", "resume", "cancel"}
    BY DEF ChunksInv, OutTyped, Out!Control
  <2>2. \E state \in {"paused", "active", "cancelled"} :
          stored' = [stored EXCEPT ![k.t] = state]
    BY <1>15, <2>1, ControlEffect DEF Out!StoreAndCopy, Out!Store
  <2>3. UNCHANGED <<acked, acking, requeued>>
    BY <1>15 DEF Out!ControlStored
  <2> QED
    BY <1>1, <1>2, <2>1, <2>2, <2>3, CompletingQuiet
<1>16. ASSUME NEW t \in Transfers, NEW c \in Chunks, NEW w \in 1..Window,
              Out!Ack(t, c, w)
       PROVE  CompletingInv'
  <2>1. t \in open /\ Started(t)
    BY <1>16 DEF ChunksInv, OnlyStarted, Out!Ack, Out!AckChunk, Out!AckAgain, Out!TakesAck
  <2>2. CASE Out!AckChunk(t, c, w)
    <3>1. \A x \in Transfers : acked[x] = Chunks => acked'[x] = Chunks
      BY <2>2 DEF ChunksInv, OutTyped, Out!AckChunk
    <3>2. \A b \in acking' : b.step # "store" => b \in acking /\ b.t \in Transfers
      BY <2>2 DEF Out!AckChunk, ChunksInv, OutTyped, Out!Acking
    <3> QED
      BY <2>2, <3>1, <3>2 DEF CompletingInv, Completed, Out!AckChunk
  <2>3. CASE Out!AckAgain(t, c, w)
    <3>1. ASSUME NEW b \in acking', b.step # "store", requeued[b.t] = 0
          PROVE  acked[b.t] = Chunks
      <4>1. CASE b \in acking
        BY <3>1, <4>1 DEF CompletingInv
      <4>2. CASE b \notin acking
        <5>1. b.t = t /\ ackedCount[t] >= ChunkCount
          BY <2>3, <3>1, <4>2 DEF Out!AckAgain, Out!BeginComplete
        <5> QED
          BY <2>1, <3>1, <5>1, CountTells
      <4> QED
        BY <4>1, <4>2
    <3> QED
      BY <2>3, <3>1 DEF CompletingInv, Completed, Out!AckAgain
  <2> QED
    BY <1>16, <2>2, <2>3 DEF Out!Ack
<1> QED
  BY <1>3, <1>4, <1>5, <1>6, <1>7, <1>8, <1>9, <1>10, <1>11, <1>12, <1>13, <1>14,
     <1>15, <1>16, SameData DEF Out!Next, Out!LocalNext

\* A step that leaves states, ACKs and pauses alone.
LEMMA EndingFrame ==
  ASSUME EndingInv, open' \subseteq open, acking \subseteq acking',
         UNCHANGED <<stored, local, acked, everPaused, paused, controls>>
  PROVE  EndingInv'
BY DEF EndingInv

\* A step that writes one transfer's state and forgets the transfer, or one
\* that was paused.
LEMMA EndingElsewhere ==
  ASSUME OutTyped, EndingInv, NEW t \in Transfers, t \notin open' \ everPaused',
         open' \subseteq open, everPaused \subseteq everPaused',
         \A x \in Transfers : x # t => stored'[x] = stored[x] /\ local'[x] = local[x],
         \A a \in acking : a.t # t => a \in acking',
         UNCHANGED acked,
         \A x \in Transfers : paused'[x] => paused[x] \/ x \in everPaused',
         \A k \in controls' : k \in controls \/ k.op = "cancel" \/ k.t \in everPaused'
  PROVE  EndingInv'
<1>1. open \subseteq Transfers
  BY DEF OutTyped
<1>2. ASSUME NEW x \in open' \ everPaused'
      PROVE  /\ stored'[x] \in {"active", "completed"}
             /\ local'[x] \in {"active", "completed"}
             /\ acked'[x] = Chunks => \E a \in acking' : a.t = x
  <2>1. x \in open \ everPaused /\ x # t /\ x \in Transfers
    BY <1>1
  <2> QED
    BY <2>1 DEF EndingInv
<1>3. \A k \in controls' : k.op # "cancel" => k.t \in everPaused'
  BY DEF EndingInv
<1> QED
  BY <1>2, <1>3 DEF EndingInv

LEMMA EndingStep ==
  ASSUME ChunksInv, EndingInv, Out!Next \/ UNCHANGED Out!vars
  PROVE  EndingInv'
<1>1. /\ OutTyped /\ open \subseteq Transfers /\ ChunkCount \in Nat \ {0}
      /\ stored \in [Transfers -> TransferState \cup {"none"}]
      /\ local \in [Transfers -> TransferState \cup {"none"}]
  BY SenderConstants DEF ChunksInv, OutTyped
<1> USE DEF Out!context, Out!clocks, Out!history
<1>2. CASE UNCHANGED Out!vars
  BY <1>2, EndingFrame DEF Out!vars
<1>3. ASSUME NEW t \in Transfers, Out!Start(t) PROVE EndingInv'
  <2>1. acked[t] = {} /\ 1 \in Chunks
    BY <1>1, <1>3 DEF ChunksInv, OnlyStarted, Started, Out!Start, Chunks
  <2>2. /\ stored' = [stored EXCEPT ![t] = "active"]
        /\ local' = [local EXCEPT ![t] = "active"]
        /\ open' = open \cup {t}
        /\ UNCHANGED <<acked, acking, paused, everPaused, controls>>
    BY <1>3 DEF Out!Start, Out!StoreAndCopy, Out!Store
  <2>3. ASSUME NEW x \in open' \ everPaused'
        PROVE  /\ stored'[x] \in {"active", "completed"}
               /\ local'[x] \in {"active", "completed"}
               /\ acked'[x] = Chunks => \E a \in acking' : a.t = x
    <3>1. CASE x = t
      BY <1>1, <2>1, <2>2, <3>1
    <3>2. CASE x # t
      <4>1. x \in open \ everPaused /\ x \in Transfers
        BY <1>1, <2>2, <3>2
      <4>2. stored'[x] = stored[x] /\ local'[x] = local[x]
        BY <1>1, <2>2, <3>2, <4>1
      <4> QED
        BY <2>2, <4>1, <4>2 DEF EndingInv
    <3> QED
      BY <3>1, <3>2
  <2>4. /\ \A x \in Transfers : paused'[x] => x \in everPaused'
        /\ \A k \in controls' : k.op # "cancel" => k.t \in everPaused'
    BY <2>2 DEF EndingInv
  <2> QED
    BY <2>3, <2>4 DEF EndingInv
<1>4. ASSUME NEW t \in Transfers, Out!PumpChunk(t) \/ Out!SweepTransfer(t)
      PROVE  EndingInv'
  BY <1>4, EndingFrame DEF Out!PumpChunk, Out!SweepTransfer
<1>5. ASSUME NEW t \in Transfers, NEW c \in Chunks, Out!TimerLapses(t, c)
      PROVE  EndingInv'
  BY <1>5, EndingFrame DEF Out!TimerLapses
<1>6. ASSUME NEW s \in sending, Out!SendDone(s) \/ Out!SendFails(s)
      PROVE  EndingInv'
  BY <1>6, EndingFrame DEF Out!SendDone, Out!SendFails
<1>7. ASSUME NEW t \in Transfers, Out!Expire(t) PROVE EndingInv'
  <2>1. /\ stored' = [stored EXCEPT ![t] = "expired"] /\ open' = open \ {t}
        /\ UNCHANGED <<local, acked, acking, paused, everPaused, controls>>
    BY <1>7 DEF Out!Expire, Out!Store, Out!Forget
  <2> QED
    BY <1>1, <2>1, EndingElsewhere
<1>8. ASSUME NEW t \in Transfers, Out!Pause(t) \/ Out!Resume(t) \/ Out!Cancel(t)
      PROVE  EndingInv'
  <2>1. UNCHANGED <<open, stored, local, acked, acking>>
    BY <1>8 DEF Out!Pause, Out!Resume, Out!Cancel
  <2>2. CASE Out!Pause(t)
    <3>1. /\ everPaused' = everPaused \cup {t}
          /\ paused' = [paused EXCEPT ![t] = TRUE]
          /\ \A k \in controls' : k \in controls \/ k.t = t
      BY <2>2 DEF Out!Pause, Out!Calls
    <3>2. \A x \in Transfers : paused'[x] => paused[x] \/ x = t
      BY <3>1 DEF ChunksInv, OutTyped
    <3> QED
      BY <1>1, <2>1, <3>1, <3>2, EndingElsewhere
  <2>3. CASE Out!Resume(t)
    <3>1. t \in everPaused
      BY <2>3 DEF Out!Resume, EndingInv
    <3>2. /\ UNCHANGED everPaused /\ paused' = [paused EXCEPT ![t] = FALSE]
          /\ \A k \in controls' : k \in controls \/ k.t = t
      BY <2>3 DEF Out!Resume
    <3>3. \A x \in Transfers : paused'[x] => paused[x]
      BY <3>2 DEF ChunksInv, OutTyped
    <3> QED
      BY <1>1, <2>1, <3>1, <3>2, <3>3, EndingElsewhere
  <2>4. CASE Out!Cancel(t)
    BY <2>1, <2>4 DEF EndingInv, Out!Cancel, Out!Calls
  <2> QED
    BY <1>8, <2>2, <2>3, <2>4
<1>9. ASSUME NEW a \in acking, Out!AckStored(a) PROVE EndingInv'
  <2>1. a.t \in Transfers /\ Started(a.t)
    BY DEF ChunksInv, OutTyped, OnlyStarted, Out!Acking
  <2>2. /\ local' = [local EXCEPT ![a.t] = stored[a.t]]
        /\ UNCHANGED <<open, stored, acked, paused, everPaused, controls>>
        /\ acking' = (acking \ {a}) \cup
              (IF ackedCount[a.t] >= ChunkCount
                 THEN Out!BeginComplete(a.t, a.c, stored[a.t]) ELSE {})
    BY <1>9 DEF Out!AckStored
  <2>3. ASSUME NEW x \in open \ everPaused, acked[x] = Chunks
        PROVE  \E b \in acking' : b.t = x
    <3>1. CASE x # a.t
      BY <2>2, <2>3, <3>1 DEF EndingInv
    <3>2. CASE x = a.t
      <4>1. stored[x] \in {"active", "completed"} /\ ackedCount[x] >= ChunkCount
        BY <1>1, <2>1, <2>3, <3>2, CountTells DEF EndingInv
      <4>2. Out!CanMove(stored[x], "completed")
        BY <4>1 DEF Out!CanMove, Out!Successors, Out!Ended
      <4>3. [t |-> a.t, c |-> a.c, step |-> "complete"] \in acking'
        BY <2>2, <3>2, <4>1, <4>2 DEF Out!BeginComplete
      <4> QED
        BY <3>2, <4>3
    <3> QED
      BY <3>1, <3>2
  <2> QED
    BY <1>1, <2>1, <2>2, <2>3 DEF EndingInv
<1>10. ASSUME NEW a \in acking, Out!Complete(a) PROVE EndingInv'
  <2>1. a.t \in Transfers /\ [a EXCEPT !.step = "close"].t = a.t
    BY DEF ChunksInv, OutTyped, Out!Acking
  <2>2. /\ stored' = [stored EXCEPT ![a.t] = "completed"]
        /\ acking' = (acking \ {a}) \cup {[a EXCEPT !.step = "close"]}
        /\ UNCHANGED <<open, local, acked, paused, everPaused, controls>>
    BY <1>10 DEF Out!Complete, Out!Store
  <2>3. \A x : (\E b \in acking : b.t = x) => (\E b \in acking' : b.t = x)
    BY <2>1, <2>2
  <2> QED
    BY <1>1, <2>1, <2>2, <2>3 DEF EndingInv
<1>11. ASSUME NEW a \in acking, Out!Close(a) PROVE EndingInv'
  <2>1. a.t \in Transfers
    BY DEF ChunksInv, OutTyped, Out!Acking
  <2>2. /\ open' = open \ {a.t} /\ acking' = acking \ {a}
        /\ UNCHANGED <<stored, local, acked, paused, everPaused, controls>>
    BY <1>11 DEF Out!Close, Out!Forget
  <2> QED
    BY <1>1, <2>1, <2>2, EndingElsewhere
<1>12. CASE Out!Sweep
  <2>1. ASSUME NEW c \in sweep.todo,
               Out!SweepSkips(c) \/ Out!SweepRetries(c) \/ Out!SweepGivesUp(c)
        PROVE  EndingInv'
    BY <2>1, EndingFrame DEF Out!SweepSkips, Out!SweepRetries, Out!SweepGivesUp
  <2>2. CASE Out!SweepFails
    <3>1. sweep.t \in Transfers
      BY <2>2 DEF ChunksInv, OutTyped, Out!SweepFails, Out!Idle
    <3>2. \/ stored' = [stored EXCEPT ![sweep.t] = "failed"] /\ open' = open \ {sweep.t}
          \/ UNCHANGED <<open, stored>>
      BY <2>2, Zenon DEF Out!SweepFails, Out!Store, Out!Forget
    <3>3. UNCHANGED <<local, acked, acking, paused, everPaused, controls>>
      BY <2>2 DEF Out!SweepFails
    <3>4. CASE UNCHANGED <<open, stored>>
      BY <3>3, <3>4, EndingFrame
    <3>5. CASE stored' = [stored EXCEPT ![sweep.t] = "failed"] /\ open' = open \ {sweep.t}
      BY <1>1, <3>1, <3>3, <3>5, EndingElsewhere
    <3> QED
      BY <3>2, <3>4, <3>5
  <2>3. CASE Out!SweepEnds
    BY <2>3, EndingFrame DEF Out!SweepEnds
  <2> QED
    BY <1>12, <2>1, <2>2, <2>3 DEF Out!Sweep
<1>13. ASSUME NEW k \in controls, Out!ControlStored(k) PROVE EndingInv'
  <2>1. k.t \in Transfers /\ k.op \in {"pause", "resume", "cancel"}
    BY DEF ChunksInv, OutTyped, Out!Control
  <2>2. /\ open' \subseteq open
        /\ k.op = "cancel" => k.t \notin open'
        /\ \E state : /\ stored' = [stored EXCEPT ![k.t] = state]
                      /\ local' = [local EXCEPT ![k.t] = state]
    BY <1>13, <2>1, ControlEffect DEF Out!StoreAndCopy, Out!Store
  <2>3. /\ controls' \subseteq controls
        /\ UNCHANGED <<acked, acking, paused, everPaused>>
    BY <1>13 DEF Out!ControlStored
  <2>4. k.t \notin open' \ everPaused'
    BY <2>2, <2>3 DEF EndingInv
  <2> QED
    BY <1>1, <2>1, <2>2, <2>3, <2>4, EndingElsewhere
<1>14. ASSUME NEW t \in Transfers, NEW c \in Chunks, NEW w \in 1..Window,
              Out!Ack(t, c, w)
       PROVE  EndingInv'
  <2>1. CASE Out!AckAgain(t, c, w)
    BY <2>1, EndingFrame DEF Out!AckAgain
  <2>2. CASE Out!AckChunk(t, c, w)
    <3>1. /\ acked' = [acked EXCEPT ![t] = @ \cup {c}]
          /\ acking' = acking \cup {[t |-> t, c |-> c, step |-> "store"]}
          /\ UNCHANGED <<open, stored, local, paused, everPaused, controls>>
      BY <2>2 DEF Out!AckChunk, Out!TakesAck
    <3>2. \A x \in open : x # t => acked'[x] = acked[x]
      BY <1>1, <3>1 DEF OutTyped
    <3>3. \E a \in acking' : a.t = t
      <4>1. [t |-> t, c |-> c, step |-> "store"] \in acking'
        BY <3>1
      <4> QED
        BY <4>1
    <3>4. ASSUME NEW x \in open' \ everPaused', acked'[x] = Chunks
          PROVE  \E a \in acking' : a.t = x
      <4>1. CASE x = t
        BY <3>3, <4>1
      <4>2. CASE x # t
        <5>1. x \in open \ everPaused /\ acked[x] = Chunks
          BY <3>1, <3>2, <3>4, <4>2
        <5>2. PICK a \in acking : a.t = x
          BY <5>1 DEF EndingInv
        <5> QED
          BY <3>1, <5>2
      <4> QED
        BY <4>1, <4>2
    <3>5. \A x \in open' \ everPaused' : /\ stored'[x] \in {"active", "completed"}
                                        /\ local'[x] \in {"active", "completed"}
      BY <3>1 DEF EndingInv
    <3>6. /\ \A x \in Transfers : paused'[x] => x \in everPaused'
          /\ \A k \in controls' : k.op # "cancel" => k.t \in everPaused'
      BY <3>1 DEF EndingInv
    <3> QED
      BY <3>4, <3>5, <3>6 DEF EndingInv
  <2> QED
    BY <1>14, <2>1, <2>2 DEF Out!Ack
<1> QED
  BY <1>2, <1>3, <1>4, <1>5, <1>6, <1>7, <1>8, <1>9, <1>10, <1>11, <1>12, <1>13,
     <1>14, SameData DEF Out!Next, Out!LocalNext

\* The sender's three invariants together.
SenderInv == ChunksInv /\ CompletingInv /\ EndingInv

LEMMA InitSender == Out!Init => SenderInv
<1> SUFFICES ASSUME Out!Init PROVE SenderInv
  OBVIOUS
<1>1. ChunksInv
  BY InitChunks
<1>2. CompletingInv /\ EndingInv
  BY DEF Out!Init, CompletingInv, Completed, EndingInv
<1> QED
  BY <1>1, <1>2 DEF SenderInv

LEMMA SenderStep_ ==
  ASSUME SenderInv, Out!Next \/ UNCHANGED Out!vars
  PROVE  SenderInv'
BY ChunksStep, CompletingStep, EndingStep DEF SenderInv

LEMMA SenderInvMeans ==
  ASSUME SenderInv
  PROVE  /\ Out!TypeOK /\ Out!ChunksAccounted /\ Out!GuardBalanced
         /\ \A t \in Transfers : Completed(t) => acked[t] = Chunks
         /\ Out!EndsWhenAcked
<1>1. ackedCount \in [Transfers -> 0..ChunkCount + MaxRequeued]
  <2> SUFFICES ASSUME NEW t \in Transfers
               PROVE  ackedCount[t] \in 0..ChunkCount + MaxRequeued
    BY DEF SenderInv, ChunksInv, OutTyped
  <2>1. ackedCount[t] \in Nat /\ ChunkCount \in Nat /\ MaxRequeued \in Nat
        /\ requeued[t] \in 0..MaxRequeued
    BY SenderConstants DEF SenderInv, ChunksInv, OutTyped
  <2>2. CASE Started(t)
    BY <2>1, <2>2, CountTells DEF SenderInv
  <2>3. CASE ~ Started(t)
    BY <2>1, <2>3 DEF SenderInv, ChunksInv, OnlyStarted
  <2> QED
    BY <2>2, <2>3
<1>2. Out!TypeOK
  BY <1>1, SameData DEF Out!TypeOK, SenderInv, ChunksInv, OutTyped
<1>3. /\ \A t \in Transfers : Completed(t) => acked[t] = Chunks
      /\ Out!EndsWhenAcked
  BY SameData DEF SenderInv, CompletingInv, EndingInv, Out!EndsWhenAcked
<1> QED
  BY <1>2, <1>3, ChunksInvMeans DEF SenderInv

(***************************************************************************)
(* The receiver.                                                           *)
(***************************************************************************)
\* The types, but for the count of payloads.
InTyped ==
  /\ contexts \in [Transfers -> Seq(In!Context)]
  /\ current \in [Transfers -> {0, 1}]
  /\ record \in [Transfers -> TransferState \cup {"none"}]
  /\ creating \subseteq [t : Transfers, c : Chunks]
  /\ receiving \subseteq In!Receiving
  /\ payloads \in [Transfers -> {0, 1}]
  /\ confirmed \in [Transfers -> SUBSET Chunks]

\* A record that may exist only once lets a transfer have one context at most.
OneContext ==
  \A t \in Transfers :
    \/ record[t] = "none" /\ contexts[t] = <<>> /\ current[t] = 0
    \/ record[t] # "none" /\ Len(contexts[t]) = 1

\* The context of a transfer has every chunk.
Whole(t) == Len(contexts[t]) = 1 /\ contexts[t][1].chunks = Chunks

\* Every handler works on that context, which has its chunk; it brings the
\* payload only of a context that is whole.
Handled ==
  \A h \in receiving :
    /\ Len(contexts[h.t]) = 1 /\ h.x = 1
    /\ h.c \in contexts[h.t][1].chunks
    /\ h.step # "record" => h.complete
    /\ h.complete => Whole(h.t)
    /\ h.step = "close" => payloads[h.t] = 1

\* One handler brings a payload, and after it was brought none does again.
OneBringer ==
  /\ \A g, h \in receiving : g.t = h.t /\ g.complete /\ h.complete => g = h
  /\ \A t \in Transfers : payloads[t] = 1 =>
       Whole(t) /\ \A h \in receiving : h.t = t /\ h.complete => h.step = "close"

\* What was acknowledged is in the context.
ConfirmedKept ==
  \A t \in Transfers : \A c \in confirmed[t] :
    Len(contexts[t]) = 1 /\ c \in contexts[t][1].chunks

\* Where recording does not fail, a payload that is whole is brought.
WholeIsBrought ==
  ~ StoreMayFail => \A t \in Transfers : Whole(t) => In!Delivering(t)

ReceiverInv ==
  /\ InTyped /\ OneContext /\ Handled /\ OneBringer /\ ConfirmedKept
  /\ WholeIsBrought

\* What a handler is.
LEMMA HandlerTyped ==
  ASSUME InTyped, NEW h \in receiving
  PROVE  /\ h.t \in Transfers /\ h.x \in 1..MaxContexts /\ h.c \in Chunks
         /\ h.complete \in BOOLEAN /\ h.step \in {"record", "deliver", "close"}
         /\ h = [t |-> h.t, x |-> h.x, c |-> h.c, complete |-> h.complete,
                 step |-> h.step]
BY SameData DEF InTyped, In!Receiving

LEMMA ContextTyped ==
  ASSUME InTyped, NEW t \in Transfers, Len(contexts[t]) = 1
  PROVE  /\ contexts[t] \in Seq(In!Context) /\ contexts[t][1] \in In!Context
         /\ contexts[t][1].chunks \in SUBSET Chunks
         /\ contexts[t][1].state \in TransferState
         /\ DOMAIN contexts[t] = {1}
<1>1. contexts[t] \in Seq(In!Context)
  BY DEF InTyped
<1>2. DOMAIN contexts[t] = {1}
  BY <1>1
<1>3. contexts[t][1] \in In!Context
  BY <1>1, <1>2
<1> QED
  BY <1>1, <1>2, <1>3, SameData DEF In!Context

\* A context gets another state.
LEMMA ContextState ==
  ASSUME InTyped, NEW t \in Transfers, Len(contexts[t]) = 1,
         NEW s \in TransferState,
         contexts' = [contexts EXCEPT ![t][1].state = s]
  PROVE  /\ contexts' \in [Transfers -> Seq(In!Context)]
         /\ \A x \in Transfers : Len(contexts'[x]) = Len(contexts[x])
         /\ \A x \in Transfers :
              Len(contexts[x]) = 1 => contexts'[x][1].chunks = contexts[x][1].chunks
<1>1. contexts \in [Transfers -> Seq(In!Context)]
  BY DEF InTyped
<1>2. contexts[t] \in Seq(In!Context) /\ contexts[t][1] \in In!Context
      /\ DOMAIN contexts[t] = {1}
  BY ContextTyped
<1> DEFINE C == [contexts[t][1] EXCEPT !.state = s]
<1>3. C \in In!Context /\ C.chunks = contexts[t][1].chunks
  BY <1>2, SameData DEF In!Context
<1>4. contexts' = [contexts EXCEPT ![t] = [contexts[t] EXCEPT ![1] = C]]
  BY <1>1
<1> HIDE DEF C
<1>5. /\ [contexts[t] EXCEPT ![1] = C] \in Seq(In!Context)
      /\ Len([contexts[t] EXCEPT ![1] = C]) = 1
      /\ [contexts[t] EXCEPT ![1] = C][1] = C
  BY <1>2, <1>3
<1> QED
  BY <1>1, <1>3, <1>4, <1>5

\* A context takes a chunk.
LEMMA ContextTakes ==
  ASSUME InTyped, NEW t \in Transfers, Len(contexts[t]) = 1, NEW c \in Chunks,
         contexts' = [contexts EXCEPT ![t][1].chunks = @ \cup {c}]
  PROVE  /\ contexts' \in [Transfers -> Seq(In!Context)]
         /\ \A x \in Transfers : Len(contexts'[x]) = Len(contexts[x])
         /\ \A x \in Transfers : x # t => contexts'[x] = contexts[x]
         /\ contexts'[t][1].chunks = contexts[t][1].chunks \cup {c}
<1>1. contexts \in [Transfers -> Seq(In!Context)]
  BY DEF InTyped
<1>2. contexts[t] \in Seq(In!Context) /\ contexts[t][1] \in In!Context
      /\ DOMAIN contexts[t] = {1}
  BY ContextTyped
<1> DEFINE C == [contexts[t][1] EXCEPT !.chunks = @ \cup {c}]
<1>3. C \in In!Context /\ C.chunks = contexts[t][1].chunks \cup {c}
  BY <1>2, SameData DEF In!Context
<1>4. contexts' = [contexts EXCEPT ![t] = [contexts[t] EXCEPT ![1] = C]]
  BY <1>1
<1> HIDE DEF C
<1>5. /\ [contexts[t] EXCEPT ![1] = C] \in Seq(In!Context)
      /\ Len([contexts[t] EXCEPT ![1] = C]) = 1
      /\ [contexts[t] EXCEPT ![1] = C][1] = C
  BY <1>2, <1>3
<1> QED
  BY <1>1, <1>3, <1>4, <1>5

\* A step that leaves the contexts' chunks alone and starts no handler; a
\* handler it ends brought no payload, or had brought it.
LEMMA ReceiverFrame ==
  ASSUME ReceiverInv, InTyped', OneContext', UNCHANGED payloads,
         \A t \in Transfers : Len(contexts'[t]) = Len(contexts[t]),
         \A t \in Transfers :
           Len(contexts[t]) = 1 => contexts'[t][1].chunks = contexts[t][1].chunks,
         receiving' \subseteq receiving,
         \A t \in Transfers : \A c \in confirmed'[t] :
           \/ c \in confirmed[t]
           \/ Len(contexts[t]) = 1 /\ c \in contexts[t][1].chunks,
         \A h \in receiving \ receiving' :
           ~ StoreMayFail => ~ h.complete \/ payloads[h.t] = 1
  PROVE  ReceiverInv'
<1>1. InTyped /\ \A h \in receiving : h.t \in Transfers
  BY HandlerTyped DEF ReceiverInv
<1>2. \A t \in Transfers : Whole(t)' <=> Whole(t)
  BY DEF Whole
<1>3. Handled'
  BY <1>1, <1>2 DEF ReceiverInv, Handled
<1>4. OneBringer'
  BY <1>1, <1>2 DEF ReceiverInv, OneBringer
<1>5. ConfirmedKept'
  BY DEF ReceiverInv, ConfirmedKept
<1>6. WholeIsBrought'
  <2> SUFFICES ASSUME ~ StoreMayFail, NEW t \in Transfers, Whole(t)'
               PROVE  In!Delivering(t)'
    BY DEF WholeIsBrought
  <2>1. In!Delivering(t)
    BY <1>2 DEF ReceiverInv, WholeIsBrought
  <2>2. CASE payloads[t] > 0
    BY <2>2 DEF In!Delivering
  <2>3. ASSUME NEW h \in receiving, h.t = t, h.complete, payloads[t] \leq 0
        PROVE  In!Delivering(t)'
    <3>1. h \in receiving'
      BY <2>3, <1>1 DEF InTyped
    <3> QED
      BY <2>3, <3>1 DEF In!Delivering
  <2>4. payloads[t] \in {0, 1}
    BY <1>1 DEF InTyped
  <2> QED
    BY <2>1, <2>2, <2>3, <2>4 DEF In!Delivering
<1> QED
  BY <1>3, <1>4, <1>5, <1>6 DEF ReceiverInv

\* What a handler works on.
LEMMA HandlerContext ==
  ASSUME ReceiverInv, NEW h \in receiving
  PROVE  /\ h.t \in Transfers /\ h.x = 1 /\ Len(contexts[h.t]) = 1
         /\ record[h.t] # "none"
BY HandlerTyped DEF ReceiverInv, Handled, OneContext

\* The handler that put a chunk in the context.
LEMMA NewHandler ==
  ASSUME MaxContexts \in Nat \ {0}, NEW t \in Transfers, NEW c \in Chunks, NEW got,
         NEW h, h = In!Handler(t, 1, c, got)
  PROVE  /\ h \in In!Receiving /\ h.t = t /\ h.x = 1 /\ h.c = c /\ h.step = "record"
         /\ h.complete <=> got = Chunks
<1> DEFINE last == got = Chunks
<1>1. h = [t |-> t, x |-> 1, c |-> c, complete |-> last, step |-> "record"]
  BY SameData DEF In!Handler
<1>2. last \in BOOLEAN /\ (last <=> got = Chunks)
  OBVIOUS
<1> HIDE DEF last
<1>3. h \in In!Receiving
  BY <1>1, <1>2, SameData DEF In!Receiving
<1>4. h.complete <=> got = Chunks
  BY <1>1, <1>2
<1> QED
  BY <1>1, <1>3, <1>4

LEMMA CreatedStep ==
  ASSUME ReceiverInv, UniqueRecords, NEW n \in creating, In!Created(n)
  PROVE  ReceiverInv'
<1>1. /\ n.t \in Transfers /\ n.c \in Chunks /\ InTyped
      /\ contexts \in [Transfers -> Seq(In!Context)] /\ MaxContexts \in Nat \ {0}
  BY ReceiverAssumption DEF ReceiverInv, InTyped
<1>2. record[n.t] = "none" /\ contexts[n.t] = <<>> /\ Len(contexts[n.t]) = 0
  BY <1>1 DEF ReceiverInv, OneContext, In!Created
<1> DEFINE ctx == [chunks |-> {n.c}, state |-> "reassembling"]
           new == In!Handler(n.t, 1, n.c, {n.c})
<1>3. ctx \in In!Context /\ ctx.chunks = {n.c}
  BY <1>1, SameData DEF In!Context, TransferState, Transferring
<1>4. /\ new \in In!Receiving /\ new.t = n.t /\ new.x = 1 /\ new.c = n.c
      /\ new.step = "record"
      /\ new.complete <=> {n.c} = Chunks
  <2> HIDE DEF new
  <2> DEFINE one == {n.c}
  <2>1. new = In!Handler(n.t, 1, n.c, one)
    BY DEF new
  <2>2. MaxContexts \in Nat \ {0} /\ n.t \in Transfers /\ n.c \in Chunks
    BY <1>1
  <2> HIDE DEF one
  <2>3. /\ new \in In!Receiving /\ new.t = n.t /\ new.x = 1 /\ new.c = n.c
        /\ new.step = "record"
        /\ new.complete <=> one = Chunks
    BY <2>1, <2>2, NewHandler
  <2> QED
    BY <2>3 DEF one
<1>5. /\ contexts' = [contexts EXCEPT ![n.t] = Append(contexts[n.t], ctx)]
      /\ current' = [current EXCEPT ![n.t] = 1]
      /\ receiving' = receiving \cup {new}
      /\ record' = [record EXCEPT ![n.t] = "reassembling"]
      /\ creating' = creating \ {n}
      /\ UNCHANGED <<payloads, confirmed>>
  BY <1>1, <1>2 DEF In!Created
<1> HIDE DEF ctx, new
<1>6. contexts' = [contexts EXCEPT ![n.t] = <<ctx>>]
  BY <1>2, <1>3, <1>5
<1>7. /\ contexts' \in [Transfers -> Seq(In!Context)]
      /\ contexts'[n.t] = <<ctx>>
      /\ \A x \in Transfers : x # n.t => contexts'[x] = contexts[x]
  BY <1>1, <1>3, <1>6
<1>8. Len(contexts'[n.t]) = 1 /\ contexts'[n.t][1].chunks = {n.c}
  BY <1>3, <1>7
<1>9. \A h \in receiving : h.t # n.t /\ h.t \in Transfers
  BY <1>2, HandlerContext
<1>10. \A x \in Transfers : x # n.t => (Whole(x)' <=> Whole(x))
  BY <1>7 DEF Whole
<1>11. InTyped'
  BY <1>1, <1>4, <1>5, <1>7 DEF InTyped, TransferState, Transferring
<1>12. OneContext'
  <2> SUFFICES ASSUME NEW t \in Transfers
               PROVE  \/ record'[t] = "none" /\ contexts'[t] = <<>> /\ current'[t] = 0
                      \/ record'[t] # "none" /\ Len(contexts'[t]) = 1
    BY DEF OneContext
  <2>1. CASE t = n.t
    BY <1>1, <1>5, <1>8, <2>1 DEF InTyped
  <2>2. CASE t # n.t
    BY <1>1, <1>5, <1>7, <2>2 DEF InTyped, ReceiverInv, OneContext
  <2> QED
    BY <2>1, <2>2
<1>13. payloads[n.t] = 0 /\ confirmed[n.t] = {}
  BY <1>1, <1>2 DEF ReceiverInv, InTyped, OneBringer, ConfirmedKept, Whole
<1>14. new.complete => Whole(n.t)'
  BY <1>4, <1>8 DEF Whole
<1>15. Handled'
  <2> SUFFICES ASSUME NEW h \in receiving'
               PROVE  /\ Len(contexts'[h.t]) = 1 /\ h.x = 1
                      /\ h.c \in contexts'[h.t][1].chunks
                      /\ h.step # "record" => h.complete
                      /\ h.complete => Whole(h.t)'
                      /\ h.step = "close" => payloads'[h.t] = 1
    BY DEF Handled
  <2>1. CASE h = new
    BY <1>4, <1>8, <1>14, <2>1
  <2>2. CASE h \in receiving
    BY <1>5, <1>7, <1>9, <1>10, <2>2 DEF ReceiverInv, Handled
  <2> QED
    BY <1>5, <2>1, <2>2
<1>16. OneBringer'
  <2>1. \A g, h \in receiving' : g.t = h.t /\ g.complete /\ h.complete => g = h
    BY <1>4, <1>5, <1>9 DEF ReceiverInv, OneBringer
  <2>2. ASSUME NEW t \in Transfers, payloads'[t] = 1
        PROVE  Whole(t)' /\ \A h \in receiving' : h.t = t /\ h.complete => h.step = "close"
    BY <1>4, <1>5, <1>9, <1>10, <1>13, <2>2 DEF ReceiverInv, OneBringer
  <2> QED
    BY <2>1, <2>2 DEF OneBringer
<1>17. ConfirmedKept'
  BY <1>5, <1>7, <1>13 DEF ReceiverInv, ConfirmedKept
<1>18. WholeIsBrought'
  <2> SUFFICES ASSUME ~ StoreMayFail, NEW t \in Transfers, Whole(t)'
               PROVE  In!Delivering(t)'
    BY DEF WholeIsBrought
  <2>1. CASE t = n.t
    BY <1>4, <1>5, <1>8, <2>1 DEF Whole, In!Delivering
  <2>2. CASE t # n.t
    <3>1. In!Delivering(t)
      BY <1>10, <2>2 DEF ReceiverInv, WholeIsBrought
    <3> QED
      BY <1>5, <3>1 DEF In!Delivering
  <2> QED
    BY <2>1, <2>2
<1> QED
  BY <1>11, <1>12, <1>15, <1>16, <1>17, <1>18 DEF ReceiverInv

LEMMA AcceptStep ==
  ASSUME ReceiverInv, NEW t \in Transfers, NEW c \in Chunks, In!AcceptChunk(t, c)
  PROVE  ReceiverInv'
<1>1. /\ InTyped /\ MaxContexts \in Nat \ {0}
      /\ current[t] = 1 /\ Len(contexts[t]) = 1 /\ record[t] # "none"
  BY ReceiverAssumption DEF ReceiverInv, InTyped, OneContext, In!AcceptChunk
<1>2. c \notin contexts[t][1].chunks
  BY <1>1 DEF In!AcceptChunk, In!Here
<1> DEFINE got == contexts[t][1].chunks \cup {c}
           new == In!Handler(t, 1, c, got)
<1>3. /\ new \in In!Receiving /\ new.t = t /\ new.x = 1 /\ new.c = c
      /\ new.step = "record"
      /\ new.complete <=> got = Chunks
  <2> HIDE DEF new, got
  <2>1. new = In!Handler(t, 1, c, got)
    BY DEF new
  <2> QED
    BY <1>1, <2>1, NewHandler
<1>4. /\ contexts' = [contexts EXCEPT ![t][1].chunks = @ \cup {c}]
      /\ receiving' = receiving \cup {new}
      /\ UNCHANGED <<current, record, creating, payloads, confirmed>>
  BY <1>1 DEF In!AcceptChunk, In!Here
<1>5. /\ contexts' \in [Transfers -> Seq(In!Context)]
      /\ \A x \in Transfers : Len(contexts'[x]) = Len(contexts[x])
      /\ \A x \in Transfers : x # t => contexts'[x] = contexts[x]
      /\ contexts'[t][1].chunks = got
  BY <1>1, <1>4, ContextTakes
<1> HIDE DEF new
<1>6. ~ Whole(t) /\ payloads[t] = 0 /\ \A h \in receiving : h.t = t => ~ h.complete
  BY <1>1, <1>2 DEF ReceiverInv, InTyped, OneBringer, Handled, Whole
<1>7. \A x \in Transfers : x # t => (Whole(x)' <=> Whole(x))
  BY <1>5 DEF Whole
<1>8. new.complete <=> Whole(t)'
  BY <1>1, <1>3, <1>5 DEF Whole
<1>9. InTyped'
  BY <1>1, <1>3, <1>4, <1>5 DEF InTyped
<1>10. OneContext'
  <2>1. \A x \in Transfers : contexts[x] = <<>> => contexts'[x] = <<>>
    BY <1>1, <1>5
  <2> QED
    BY <1>4, <1>5, <2>1 DEF ReceiverInv, OneContext
<1>11. Handled'
  <2> SUFFICES ASSUME NEW h \in receiving'
               PROVE  /\ Len(contexts'[h.t]) = 1 /\ h.x = 1
                      /\ h.c \in contexts'[h.t][1].chunks
                      /\ h.step # "record" => h.complete
                      /\ h.complete => Whole(h.t)'
                      /\ h.step = "close" => payloads'[h.t] = 1
    BY DEF Handled
  <2>1. CASE h = new
    BY <1>1, <1>3, <1>5, <1>8, <2>1
  <2>2. CASE h \in receiving
    <3>1. h.t \in Transfers
      BY <2>2, HandlerContext
    <3>2. CASE h.t = t
      BY <1>4, <1>5, <1>6, <2>2, <3>1, <3>2 DEF ReceiverInv, Handled
    <3>3. CASE h.t # t
      BY <1>4, <1>5, <1>7, <2>2, <3>1, <3>3 DEF ReceiverInv, Handled
    <3> QED
      BY <3>2, <3>3
  <2> QED
    BY <1>4, <2>1, <2>2
<1>12. OneBringer'
  <2>1. \A g, h \in receiving' : g.t = h.t /\ g.complete /\ h.complete => g = h
    BY <1>3, <1>4, <1>6 DEF ReceiverInv, OneBringer
  <2>2. ASSUME NEW x \in Transfers, payloads'[x] = 1
        PROVE  Whole(x)' /\ \A h \in receiving' : h.t = x /\ h.complete => h.step = "close"
    BY <1>3, <1>4, <1>6, <1>7, <2>2 DEF ReceiverInv, OneBringer
  <2> QED
    BY <2>1, <2>2 DEF OneBringer
<1>13. ConfirmedKept'
  BY <1>4, <1>5 DEF ReceiverInv, ConfirmedKept
<1>14. WholeIsBrought'
  <2> SUFFICES ASSUME ~ StoreMayFail, NEW x \in Transfers, Whole(x)'
               PROVE  In!Delivering(x)'
    BY DEF WholeIsBrought
  <2>1. CASE x = t
    BY <1>3, <1>4, <1>8, <2>1 DEF In!Delivering
  <2>2. CASE x # t
    <3>1. In!Delivering(x)
      BY <1>7, <2>2 DEF ReceiverInv, WholeIsBrought
    <3> QED
      BY <1>4, <3>1 DEF In!Delivering
  <2> QED
    BY <2>1, <2>2
<1> QED
  BY <1>9, <1>10, <1>11, <1>12, <1>13, <1>14 DEF ReceiverInv

\* A context whose state alone changed has one record as before.
LEMMA StillOne ==
  ASSUME ReceiverInv, InTyped', NEW t \in Transfers, record[t] # "none",
         \A x \in Transfers : Len(contexts'[x]) = Len(contexts[x]),
         \A x \in Transfers : x # t => record'[x] = record[x] /\ current'[x] = current[x],
         record'[t] # "none"
  PROVE  OneContext'
<1> SUFFICES ASSUME NEW x \in Transfers
             PROVE  \/ record'[x] = "none" /\ contexts'[x] = <<>> /\ current'[x] = 0
                    \/ record'[x] # "none" /\ Len(contexts'[x]) = 1
  BY DEF OneContext
<1>1. \/ record[x] = "none" /\ contexts[x] = <<>> /\ current[x] = 0
      \/ record[x] # "none" /\ Len(contexts[x]) = 1
  BY DEF ReceiverInv, OneContext
<1>2. contexts'[x] \in Seq(In!Context')
  BY DEF InTyped
<1>3. Len(contexts'[x]) = 0 => contexts'[x] = <<>>
  BY <1>2
<1> QED
  BY <1>1, <1>3

LEMMA RecordedStep ==
  ASSUME ReceiverInv, NEW h \in receiving, In!Recorded(h)
  PROVE  ReceiverInv'
<1>1. /\ InTyped /\ h.t \in Transfers /\ h.c \in Chunks /\ h.complete \in BOOLEAN
      /\ h.x = 1 /\ Len(contexts[h.t]) = 1 /\ record[h.t] # "none"
      /\ h.c \in contexts[h.t][1].chunks /\ h.step = "record"
  BY HandlerTyped, HandlerContext DEF ReceiverInv, Handled, In!Recorded
<1> DEFINE next == [h EXCEPT !.step = "deliver"]
<1>2. /\ next \in In!Receiving /\ next.t = h.t /\ next.x = h.x /\ next.c = h.c
      /\ next.complete = h.complete /\ next.step = "deliver"
  BY SameData DEF ReceiverInv, InTyped, In!Receiving
<1>3. /\ record' = [record EXCEPT ![h.t] = "reassembling"]
      /\ contexts' = [contexts EXCEPT ![h.t][1].state = "reassembling"]
      /\ confirmed' = [confirmed EXCEPT ![h.t] = @ \cup {h.c}]
      /\ receiving' = (receiving \ {h}) \cup (IF h.complete THEN {next} ELSE {})
      /\ UNCHANGED <<current, creating, payloads>>
  BY <1>1 DEF In!Recorded, In!Confirm
<1> HIDE DEF next
<1>4. /\ contexts' \in [Transfers -> Seq(In!Context)]
      /\ \A x \in Transfers : Len(contexts'[x]) = Len(contexts[x])
      /\ \A x \in Transfers :
           Len(contexts[x]) = 1 => contexts'[x][1].chunks = contexts[x][1].chunks
  BY <1>1, <1>3, ContextState DEF TransferState, Transferring
<1>5. \A x \in Transfers : Whole(x)' <=> Whole(x)
  BY <1>4 DEF Whole
<1>6. InTyped'
  BY <1>1, <1>2, <1>3, <1>4 DEF InTyped, TransferState, Transferring
<1>7. OneContext'
  BY <1>1, <1>3, <1>4, <1>6, StillOne DEF InTyped
<1>8. \A g \in receiving' :
        \/ g \in receiving
        \/ g = next /\ h.complete
  BY <1>3
<1>9. \A g \in receiving : g.t \in Transfers
  BY HandlerContext
<1>10. Handled'
  <2> SUFFICES ASSUME NEW g \in receiving'
               PROVE  /\ Len(contexts'[g.t]) = 1 /\ g.x = 1
                      /\ g.c \in contexts'[g.t][1].chunks
                      /\ g.step # "record" => g.complete
                      /\ g.complete => Whole(g.t)'
                      /\ g.step = "close" => payloads'[g.t] = 1
    BY DEF Handled
  <2>1. CASE g \in receiving
    BY <1>3, <1>4, <1>5, <1>9, <2>1 DEF ReceiverInv, Handled
  <2>2. CASE g = next /\ h.complete
    BY <1>1, <1>2, <1>4, <1>5, <2>2 DEF ReceiverInv, Handled
  <2> QED
    BY <1>8, <2>1, <2>2
<1>11. OneBringer'
  <2>1. h.complete => \A g \in receiving : g.t = h.t /\ g.complete => g = h
    BY DEF ReceiverInv, OneBringer
  <2>2. ASSUME NEW f \in receiving', NEW g \in receiving',
               f.t = g.t, f.complete, g.complete
        PROVE  f = g
    <3>1. CASE f \in receiving /\ g \in receiving
      BY <2>2, <3>1 DEF ReceiverInv, OneBringer
    <3>2. CASE f = next /\ h.complete
      BY <1>2, <1>3, <2>1, <2>2, <3>2
    <3>3. CASE g = next /\ h.complete
      BY <1>2, <1>3, <2>1, <2>2, <3>3
    <3> QED
      BY <1>8, <3>1, <3>2, <3>3
  <2>3. h.complete => payloads[h.t] # 1
    BY <1>1 DEF ReceiverInv, OneBringer
  <2>4. ASSUME NEW x \in Transfers, payloads'[x] = 1
        PROVE  Whole(x)' /\ \A g \in receiving' : g.t = x /\ g.complete => g.step = "close"
    BY <1>2, <1>3, <1>5, <1>8, <2>3, <2>4 DEF ReceiverInv, OneBringer
  <2> QED
    BY <2>2, <2>4 DEF OneBringer
<1>12. ConfirmedKept'
  <2>1. \A x \in Transfers : \A d \in confirmed'[x] :
          d \in confirmed[x] \/ (x = h.t /\ d = h.c)
    BY <1>1, <1>3 DEF InTyped
  <2> QED
    BY <1>1, <1>4, <2>1 DEF ReceiverInv, ConfirmedKept
<1>13. WholeIsBrought'
  <2> SUFFICES ASSUME ~ StoreMayFail, NEW x \in Transfers, Whole(x)'
               PROVE  In!Delivering(x)'
    BY DEF WholeIsBrought
  <2>1. In!Delivering(x)
    BY <1>5 DEF ReceiverInv, WholeIsBrought
  <2>2. CASE payloads[x] > 0
    BY <1>3, <2>2 DEF In!Delivering
  <2>3. ASSUME NEW g \in receiving, g.t = x, g.complete
        PROVE  In!Delivering(x)'
    <3>1. CASE g = h
      BY <1>2, <1>3, <2>3, <3>1 DEF In!Delivering
    <3>2. CASE g # h
      BY <1>3, <2>3, <3>2 DEF In!Delivering
    <3> QED
      BY <3>1, <3>2
  <2> QED
    BY <2>1, <2>2, <2>3 DEF In!Delivering
<1> QED
  BY <1>6, <1>7, <1>10, <1>11, <1>12, <1>13 DEF ReceiverInv

LEMMA HandOverStep ==
  ASSUME ReceiverInv, NEW h \in receiving, In!HandOver(h)
  PROVE  ReceiverInv'
<1>1. /\ InTyped /\ h.t \in Transfers /\ h.complete \in BOOLEAN
      /\ h.x = 1 /\ Len(contexts[h.t]) = 1
      /\ h.c \in contexts[h.t][1].chunks /\ h.step = "deliver"
      /\ h.complete /\ Whole(h.t)
  BY HandlerTyped, HandlerContext DEF ReceiverInv, Handled, In!HandOver
<1>2. payloads[h.t] = 0 /\ payloads \in [Transfers -> {0, 1}]
  BY <1>1 DEF ReceiverInv, OneBringer, InTyped
<1> DEFINE next == [h EXCEPT !.step = "close"]
<1>3. /\ next \in In!Receiving /\ next.t = h.t /\ next.x = h.x /\ next.c = h.c
      /\ next.complete = h.complete /\ next.step = "close"
  BY SameData DEF ReceiverInv, InTyped, In!Receiving
<1>4. /\ payloads' = [payloads EXCEPT ![h.t] = 1]
      /\ \A g \in receiving' : g \in receiving \ {h} \/ g = next
      /\ receiving \ {h} \subseteq receiving'
      /\ UNCHANGED <<contexts, current, record, creating, confirmed>>
  BY <1>2 DEF In!HandOver
<1> HIDE DEF next
<1>5. payloads' \in [Transfers -> {0, 1}] /\ payloads'[h.t] = 1
      /\ \A x \in Transfers : x # h.t => payloads'[x] = payloads[x]
  BY <1>1, <1>2, <1>4
<1>6. \A x \in Transfers : Whole(x)' <=> Whole(x)
  BY <1>4 DEF Whole
<1>7. InTyped' /\ OneContext' /\ ConfirmedKept'
  BY <1>1, <1>3, <1>4, <1>5 DEF ReceiverInv, InTyped, OneContext, ConfirmedKept
<1>8. \A g \in receiving : g.t \in Transfers
  BY HandlerContext
<1>9. Handled'
  <2> SUFFICES ASSUME NEW g \in receiving'
               PROVE  /\ Len(contexts'[g.t]) = 1 /\ g.x = 1
                      /\ g.c \in contexts'[g.t][1].chunks
                      /\ g.step # "record" => g.complete
                      /\ g.complete => Whole(g.t)'
                      /\ g.step = "close" => payloads'[g.t] = 1
    BY DEF Handled
  <2>1. CASE g \in receiving \ {h}
    BY <1>4, <1>5, <1>6, <1>8, <2>1 DEF ReceiverInv, Handled
  <2>2. CASE g = next
    BY <1>1, <1>3, <1>4, <1>5, <1>6, <2>2
  <2> QED
    BY <1>4, <2>1, <2>2
<1>10. \A g \in receiving : g.t = h.t /\ g.complete => g = h
  BY <1>1 DEF ReceiverInv, OneBringer
<1>11. OneBringer'
  <2>1. \A f, g \in receiving' : f.t = g.t /\ f.complete /\ g.complete => f = g
    BY <1>3, <1>4, <1>10 DEF ReceiverInv, OneBringer
  <2>2. ASSUME NEW x \in Transfers, payloads'[x] = 1
        PROVE  Whole(x)' /\ \A g \in receiving' : g.t = x /\ g.complete => g.step = "close"
    <3>1. CASE x = h.t
      BY <1>1, <1>3, <1>4, <1>6, <1>10, <3>1
    <3>2. CASE x # h.t
      BY <1>3, <1>4, <1>5, <1>6, <2>2, <3>2 DEF ReceiverInv, OneBringer
    <3> QED
      BY <3>1, <3>2
  <2> QED
    BY <2>1, <2>2 DEF OneBringer
<1>12. WholeIsBrought'
  <2> SUFFICES ASSUME ~ StoreMayFail, NEW x \in Transfers, Whole(x)'
               PROVE  In!Delivering(x)'
    BY DEF WholeIsBrought
  <2>1. CASE x = h.t
    BY <1>5, <2>1 DEF In!Delivering
  <2>2. CASE x # h.t
    <3>1. In!Delivering(x)
      BY <1>6 DEF ReceiverInv, WholeIsBrought
    <3> QED
      BY <1>4, <1>5, <2>2, <3>1 DEF In!Delivering
  <2> QED
    BY <2>1, <2>2
<1> QED
  BY <1>7, <1>9, <1>11, <1>12 DEF ReceiverInv

LEMMA ReceiverStep_ ==
  ASSUME UniqueRecords, ReceiverInv,
         \/ In!Next
         \/ UNCHANGED In!vars
         \/ \E t \in Transfers : In!CancelInbound(t)
  PROVE  ReceiverInv'
<1>1. InTyped /\ MaxContexts \in Nat \ {0}
  BY ReceiverAssumption DEF ReceiverInv
<1>2. ASSUME UNCHANGED <<contexts, current, record, payloads, confirmed>>,
             creating' \subseteq [t : Transfers, c : Chunks],
             receiving' \subseteq receiving,
             \A h \in receiving \ receiving' :
               ~ StoreMayFail => ~ h.complete \/ payloads[h.t] = 1
      PROVE  ReceiverInv'
  <2>1. InTyped' /\ OneContext'
    BY <1>1, <1>2 DEF InTyped, OneContext, ReceiverInv
  <2> QED
    BY <1>2, <2>1, ReceiverFrame
<1>3. CASE UNCHANGED In!vars
  BY <1>1, <1>2, <1>3 DEF In!vars, InTyped
<1>4. ASSUME NEW n \in creating, In!Created(n) \/ In!CreateRefused(n)
      PROVE  ReceiverInv'
  <2>1. CASE In!Created(n)
    BY <2>1, CreatedStep
  <2>2. CASE In!CreateRefused(n)
    BY <1>1, <1>2, <2>2 DEF In!CreateRefused, InTyped
  <2> QED
    BY <1>4, <2>1, <2>2
<1>5. ASSUME NEW h \in receiving, In!RecordFails(h) PROVE ReceiverInv'
  BY <1>1, <1>2, <1>5 DEF In!RecordFails, InTyped
<1>6. ASSUME NEW h \in receiving, In!CloseInbound(h) PROVE ReceiverInv'
  <2>1. h.t \in Transfers /\ record[h.t] # "none" /\ payloads[h.t] = 1
    BY <1>6, HandlerContext DEF ReceiverInv, Handled, In!CloseInbound
  <2>2. /\ record' = [record EXCEPT ![h.t] = "completed"]
        /\ current' = [current EXCEPT ![h.t] = 0]
        /\ receiving' = receiving \ {h}
        /\ UNCHANGED <<contexts, creating, payloads, confirmed>>
    BY <1>6 DEF In!CloseInbound
  <2>3. InTyped'
    BY <1>1, <2>1, <2>2, StatesWritten DEF InTyped
  <2>4. OneContext'
    BY <1>1, <2>1, <2>2, <2>3, StillOne DEF InTyped
  <2> QED
    BY <2>1, <2>2, <2>3, <2>4, ReceiverFrame
<1>7. ASSUME NEW t \in Transfers, In!CancelInbound(t) PROVE ReceiverInv'
  <2>1. current[t] = 1 /\ Len(contexts[t]) = 1 /\ record[t] # "none"
    BY <1>1, <1>7 DEF InTyped, ReceiverInv, OneContext, In!CancelInbound
  <2>2. /\ record' = [record EXCEPT ![t] = "cancelled"]
        /\ contexts' = [contexts EXCEPT ![t][1].state = "cancelled"]
        /\ current' = [current EXCEPT ![t] = 0]
        /\ UNCHANGED <<creating, receiving, payloads, confirmed>>
    BY <1>7, <2>1 DEF In!CancelInbound
  <2>3. /\ contexts' \in [Transfers -> Seq(In!Context)]
        /\ \A x \in Transfers : Len(contexts'[x]) = Len(contexts[x])
        /\ \A x \in Transfers :
             Len(contexts[x]) = 1 => contexts'[x][1].chunks = contexts[x][1].chunks
    BY <1>1, <2>1, <2>2, ContextState, StatesWritten
  <2>4. InTyped'
    BY <1>1, <2>2, <2>3, StatesWritten DEF InTyped
  <2>5. OneContext'
    BY <1>1, <2>1, <2>2, <2>3, <2>4, StillOne DEF InTyped
  <2> QED
    BY <2>2, <2>3, <2>4, <2>5, ReceiverFrame
<1>8. ASSUME NEW t \in Transfers, In!ExpireInbound(t) PROVE ReceiverInv'
  <2>1. record[t] # "none"
    BY <1>1, <1>8 DEF InTyped, ReceiverInv, OneContext, In!ExpireInbound
  <2>2. /\ record' = [record EXCEPT ![t] = "expired"]
        /\ current' = [current EXCEPT ![t] = 0]
        /\ UNCHANGED <<contexts, creating, receiving, payloads, confirmed>>
    BY <1>8 DEF In!ExpireInbound
  <2>3. InTyped'
    BY <1>1, <2>2, StatesWritten DEF InTyped
  <2>4. OneContext'
    BY <1>1, <2>1, <2>2, <2>3, StillOne DEF InTyped
  <2> QED
    BY <2>2, <2>3, <2>4, ReceiverFrame
<1>9. ASSUME NEW t \in Transfers, NEW c \in Chunks, In!ReceiveChunk(t, c)
      PROVE  ReceiverInv'
  <2>1. CASE In!ChunkOpens(t, c)
    BY <1>1, <1>2, <2>1 DEF In!ChunkOpens, InTyped
  <2>2. CASE In!AcceptChunk(t, c)
    BY <2>2, AcceptStep
  <2>3. CASE In!RepeatChunk(t, c)
    <3>1. Len(contexts[t]) = 1 /\ c \in contexts[t][1].chunks
      BY <1>1, <2>3 DEF InTyped, ReceiverInv, OneContext, In!RepeatChunk, In!Here
    <3>2. /\ confirmed' = [confirmed EXCEPT ![t] = @ \cup {c}]
          /\ UNCHANGED <<contexts, current, record, creating, receiving, payloads>>
      BY <2>3 DEF In!RepeatChunk, In!Confirm
    <3>3. InTyped' /\ OneContext'
      BY <1>1, <3>2 DEF InTyped, OneContext, ReceiverInv
    <3>4. \A x \in Transfers : \A d \in confirmed'[x] :
            d \in confirmed[x] \/ (x = t /\ d = c)
      BY <1>1, <3>2 DEF InTyped
    <3> QED
      BY <3>1, <3>2, <3>3, <3>4, ReceiverFrame
  <2> QED
    BY <1>9, <2>1, <2>2, <2>3 DEF In!ReceiveChunk
<1> QED
  BY <1>3, <1>4, <1>5, <1>6, <1>7, <1>8, <1>9, RecordedStep, HandOverStep, SameData
     DEF In!Next, In!LocalNext, In!Work

LEMMA InitReceiver == In!Init => ReceiverInv
<1> SUFFICES ASSUME In!Init PROVE ReceiverInv
  OBVIOUS
<1>1. InTyped
  BY DEF In!Init, InTyped
<1>2. \A t \in Transfers : Len(contexts[t]) = 0
  BY DEF In!Init
<1>3. OneContext /\ Handled /\ OneBringer /\ ConfirmedKept /\ WholeIsBrought
  BY <1>2 DEF In!Init, OneContext, Handled, OneBringer, ConfirmedKept,
     WholeIsBrought, Whole
<1> QED
  BY <1>1, <1>3 DEF ReceiverInv

LEMMA ReceiverInvMeans ==
  ASSUME ReceiverInv
  PROVE  In!TypeOK /\ In!PayloadOnce /\ In!ConfirmedIsHeld
<1>1. /\ InTyped /\ MaxContexts \in Nat \ {0}
      /\ {0, 1} \subseteq 0..MaxContexts
  BY ReceiverAssumption DEF ReceiverInv
<1>2. In!TypeOK
  <2>1. ASSUME NEW t \in Transfers
        PROVE  Len(contexts[t]) <= MaxContexts /\ current[t] \in 0..Len(contexts[t])
    <3>1. current[t] \in {0, 1}
      BY <1>1 DEF InTyped
    <3>2. CASE contexts[t] = <<>> /\ current[t] = 0
      BY <1>1, <3>2
    <3>3. CASE Len(contexts[t]) = 1
      BY <1>1, <3>1, <3>3
    <3> QED
      BY <3>2, <3>3 DEF ReceiverInv, OneContext
  <2>2. payloads \in [Transfers -> 0..MaxContexts]
    BY <1>1 DEF InTyped
  <2> QED
    BY <1>1, <2>1, <2>2, SameData DEF InTyped, In!TypeOK
<1>3. In!PayloadOnce
  <2>1. \A n \in {0, 1} : n <= 1
    OBVIOUS
  <2> QED
    BY <1>1, <2>1 DEF InTyped, In!PayloadOnce
<1>4. In!ConfirmedIsHeld
  BY <1>1 DEF InTyped, ReceiverInv, OneContext, ConfirmedKept, In!ConfirmedIsHeld,
     In!Here
<1> QED
  BY <1>2, <1>3, <1>4

(***************************************************************************)
(* Both ends together.                                                     *)
(***************************************************************************)
\* A step of the whole is a step of the sender or leaves it alone.
LEMMA StepOfSender ==
  ASSUME [Next]_vars
  PROVE  Out!Next \/ UNCHANGED Out!vars
<1>1. ASSUME UNCHANGED sender PROVE UNCHANGED Out!vars
  BY <1>1 DEF sender, Out!vars, Out!context, Out!clocks, Out!history
<1>2. ASSUME NEW t \in Transfers, NEW c \in Chunks, AckArrives(t, c)
      PROVE  Out!Next
  BY <1>2, AdvertisedAssumption, SameData DEF AckArrives, Out!Next
<1> QED
  BY <1>1, <1>2 DEF Next, SenderStep, ReceiverStep, ChunkArrives, CancelArrives,
     Out!Next, vars

\* And so for the receiver, but for a CANCEL, which this side may not allow
\* itself.
LEMMA StepOfReceiver ==
  ASSUME [Next]_vars
  PROVE  \/ In!Next
         \/ UNCHANGED In!vars
         \/ \E t \in Transfers : In!CancelInbound(t)
<1>1. ASSUME UNCHANGED receiver PROVE UNCHANGED In!vars
  BY <1>1 DEF receiver, In!vars
<1>2. ASSUME NEW t \in Transfers, NEW c \in Chunks, ChunkArrives(t, c)
      PROVE  In!Next
  BY <1>2, SameData DEF ChunkArrives, In!Next
<1> QED
  BY <1>1, <1>2 DEF Next, SenderStep, ReceiverStep, AckArrives, CancelArrives,
     In!Next, vars

LEMMA SenderInvariant == Spec => []SenderInv
<1>1. Init => SenderInv
  BY InitSender DEF Init
<1>2. SenderInv /\ [Next]_vars => SenderInv'
  BY StepOfSender, SenderStep_
<1> QED
  BY <1>1, <1>2, PTL DEF Spec

LEMMA ReceiverInvariant ==
  ASSUME UniqueRecords
  PROVE  Spec => []ReceiverInv
<1>1. Init => ReceiverInv
  BY InitReceiver DEF Init
<1>2. ReceiverInv /\ [Next]_vars => ReceiverInv'
  BY StepOfReceiver, ReceiverStep_
<1> QED
  BY <1>1, <1>2, PTL DEF Spec

\* Both ends keep to their types, whatever the transport does: the reserved
\* bytes stay within the memory guard's bound, a counter of ACKs passes the number
\* of chunks by those that were queued again at most, and a transfer has one
\* record and one context at most.
THEOREM TypeCorrect ==
  ASSUME UniqueRecords
  PROVE  Spec => []TypeOK
<1>1. SenderInv /\ ReceiverInv => TypeOK
  BY SenderInvMeans, ReceiverInvMeans DEF TypeOK
<1> QED
  BY <1>1, SenderInvariant, ReceiverInvariant, PTL

\* No chunk of a registered transfer is lost or in two places, and the memory
\* guard has reserved just what is in flight, for any number of pumps, timers
\* and sweeps at once, except that each send that fails after the ACK of its
\* chunk has one chunk counted once more and lets the guard count less than what
\* is in flight (_sendChunk, _handleChunkAck).
THEOREM AllChunksAccounted == Spec => []ChunksAccounted
<1>1. SenderInv => ChunksAccounted
  BY SenderInvMeans DEF ChunksAccounted
<1> QED
  BY <1>1, SenderInvariant, PTL

\* A transfer whose chunks were all acknowledged is completed or about to be,
\* unless it was paused meanwhile (_handleChunkAck, _completeTransfer).
THEOREM AcknowledgedEnds == Spec => []EndsWhenAcked
<1>1. SenderInv => EndsWhenAcked
  BY SenderInvMeans DEF EndsWhenAcked
<1> QED
  BY <1>1, SenderInvariant, PTL

\* With a transferId recorded once only, the application gets a payload once,
\* however often the transport brings its chunks (_handleChunk).
THEOREM PayloadHandedOverOnce ==
  ASSUME UniqueRecords
  PROVE  Spec => []PayloadOnce
<1>1. ReceiverInv => PayloadOnce
  BY ReceiverInvMeans DEF PayloadOnce
<1> QED
  BY <1>1, ReceiverInvariant, PTL

\* A chunk that was acknowledged stays with the context that collects it.
THEOREM ConfirmedKeptHere ==
  ASSUME UniqueRecords
  PROVE  Spec => []ConfirmedIsHeld
<1>1. ReceiverInv => ConfirmedIsHeld
  BY ReceiverInvMeans DEF ConfirmedIsHeld
<1> QED
  BY <1>1, ReceiverInvariant, PTL

\* What the sender counts as acknowledged, the receiver confirmed.
LEMMA HeardOfStep ==
  ASSUME ReceiverInv, SenderInv, HeardOf, [Next]_vars
  PROVE  HeardOf'
<1>1. /\ acked \in [Transfers -> SUBSET Chunks]
      /\ confirmed \in [Transfers -> SUBSET Chunks]
  BY DEF ReceiverInv, InTyped, SenderInv, ChunksInv, OutTyped
<1>2. ASSUME Out!LocalNext PROVE UNCHANGED acked
  <2> USE DEF Out!context, Out!clocks, Out!history
  <2>1. ASSUME NEW t \in Transfers, Out!Start(t) \/ Out!PumpChunk(t)
               \/ Out!SweepTransfer(t) \/ Out!Expire(t) \/ Out!Pause(t)
               \/ Out!Resume(t) \/ Out!Cancel(t)
        PROVE  UNCHANGED acked
    BY <2>1 DEF Out!Start, Out!PumpChunk, Out!SweepTransfer, Out!Expire, Out!Pause,
       Out!Resume, Out!Cancel
  <2>2. ASSUME NEW t \in Transfers, NEW c \in Chunks, Out!TimerLapses(t, c)
        PROVE  UNCHANGED acked
    BY <2>2 DEF Out!TimerLapses
  <2>3. ASSUME NEW s \in sending, Out!SendDone(s) \/ Out!SendFails(s)
        PROVE  UNCHANGED acked
    BY <2>3 DEF Out!SendDone, Out!SendFails
  <2>4. ASSUME NEW a \in acking, Out!AckStored(a) \/ Out!Complete(a) \/ Out!Close(a)
        PROVE  UNCHANGED acked
    BY <2>4 DEF Out!AckStored, Out!Complete, Out!Close
  <2>5. CASE Out!Sweep
    BY <2>5 DEF Out!Sweep, Out!SweepSkips, Out!SweepRetries, Out!SweepGivesUp,
       Out!SweepFails, Out!SweepEnds
  <2>6. ASSUME NEW k \in controls, Out!ControlStored(k) PROVE UNCHANGED acked
    BY <2>6 DEF Out!ControlStored
  <2> QED
    BY <1>2, <2>1, <2>2, <2>3, <2>4, <2>5, <2>6, SameData DEF Out!LocalNext
<1>3. \A t \in Transfers : confirmed[t] \subseteq confirmed'[t]
  <2>1. ASSUME In!Next PROVE \A t \in Transfers : confirmed[t] \subseteq confirmed'[t]
    <3>1. ASSUME NEW n \in creating, In!Created(n) \/ In!CreateRefused(n)
          PROVE  UNCHANGED confirmed
      BY <3>1 DEF In!Created, In!CreateRefused
    <3>2. ASSUME NEW h \in receiving, In!RecordFails(h) \/ In!HandOver(h)
                 \/ In!CloseInbound(h)
          PROVE  UNCHANGED confirmed
      BY <3>2 DEF In!RecordFails, In!HandOver, In!CloseInbound
    <3>3. ASSUME NEW h \in receiving, In!Recorded(h)
          PROVE  confirmed' = [confirmed EXCEPT ![h.t] = @ \cup {h.c}]
      BY <3>3 DEF In!Recorded, In!Confirm
    <3>4. ASSUME NEW t \in Transfers, In!CancelInbound(t) \/ In!ExpireInbound(t)
          PROVE  UNCHANGED confirmed
      BY <3>4 DEF In!CancelInbound, In!ExpireInbound
    <3>5. ASSUME NEW t \in Transfers, NEW c \in Chunks, In!ReceiveChunk(t, c)
          PROVE  \/ UNCHANGED confirmed
                 \/ confirmed' = [confirmed EXCEPT ![t] = @ \cup {c}]
      BY <3>5 DEF In!ReceiveChunk, In!ChunkOpens, In!AcceptChunk, In!RepeatChunk,
         In!Confirm
    <3> QED
      BY <1>1, <2>1, <3>1, <3>2, <3>3, <3>4, <3>5, SameData
         DEF In!Next, In!LocalNext, In!Work
  <2>2. ASSUME NEW t \in Transfers, In!CancelInbound(t)
        PROVE  UNCHANGED confirmed
    BY <2>2 DEF In!CancelInbound
  <2> QED
    BY <2>1, <2>2, StepOfReceiver DEF In!vars
<1>4. ASSUME UNCHANGED acked PROVE HeardOf'
  BY <1>3, <1>4 DEF HeardOf
<1>5. ASSUME NEW t \in Transfers, NEW c \in Chunks, AckArrives(t, c)
      PROVE  HeardOf'
  <2>1. PICK w \in AdvertisedWindows : Out!Ack(t, c, w)
    BY <1>5 DEF AckArrives
  <2>2. c \in confirmed[t] /\ UNCHANGED confirmed
    BY <1>5 DEF AckArrives, receiver
  <2>3. \/ UNCHANGED acked
        \/ acked' = [acked EXCEPT ![t] = @ \cup {c}]
    BY <2>1 DEF Out!Ack, Out!AckChunk, Out!AckAgain, Out!history
  <2> QED
    BY <1>1, <2>2, <2>3 DEF HeardOf
<1> QED
  BY <1>2, <1>4, <1>5 DEF Next, SenderStep, ReceiverStep, ChunkArrives, CancelArrives,
     vars, sender

\* "COMPLETED: all chunks delivered + payload reconstructed": where transfers
\* are recorded once and recording does not fail, a transfer the sender has
\* completed without counting a chunk twice is whole at the receiver, which has
\* handed over its payload or has a handler about to.
THEOREM CompletedReachesReceiver ==
  ASSUME UniqueRecords, ~ StoreMayFail
  PROVE  Spec => [](CompletedHasArrived /\ CompletedIsDelivered /\ HeardOf)
<1>1. Init => HeardOf
  BY DEF Init, Out!Init, HeardOf
<1>2. ReceiverInv /\ SenderInv /\ HeardOf /\ [Next]_vars => HeardOf'
  BY HeardOfStep
<1>3. ASSUME ReceiverInv, SenderInv, HeardOf
      PROVE  CompletedHasArrived /\ CompletedIsDelivered
  <2>1. \A t \in Transfers : Completed(t) => acked[t] = Chunks
    BY <1>3, SenderInvMeans
  <2>2. ASSUME NEW t \in Transfers, Completed(t)
        PROVE  In!Delivering(t)
    <3>1. Chunks \subseteq confirmed[t]
      BY <1>3, <2>1, <2>2 DEF HeardOf
    <3>2. 1 \in Chunks
      BY SenderConstants DEF Chunks
    <3>3. Len(contexts[t]) = 1 /\ Chunks \subseteq contexts[t][1].chunks
      BY <1>3, <3>1, <3>2 DEF ReceiverInv, ConfirmedKept
    <3>4. contexts[t][1].chunks \subseteq Chunks
      BY <1>3, <3>3, ContextTyped DEF ReceiverInv
    <3>5. Whole(t)
      BY <3>3, <3>4 DEF Whole
    <3> QED
      BY <1>3, <3>5 DEF ReceiverInv, WholeIsBrought
  <2> QED
    BY <2>1, <2>2 DEF CompletedIsDelivered, CompletedHasArrived
<1>4. Init => HeardOf /\ SenderInv /\ ReceiverInv
  BY <1>1, InitSender, InitReceiver DEF Init
<1> QED
  BY <1>1, <1>2, <1>3, SenderInvariant, ReceiverInvariant, PTL DEF Spec
=============================================================================
