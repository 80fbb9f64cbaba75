----------------------------- MODULE Fabric_proofs -----------------------------
(***************************************************************************)
(* Proofs about the networking fabric, for any number of requests,         *)
(* messages, chunks, attempts and restarts: what comes through the relay   *)
(* is shown once and acknowledged only when it was (MessageRelay); a       *)
(* payload left there is complete only when it was collected, and kept     *)
(* until then (ChunkRelay); the slots of a bulkhead are those held         *)
(* (ReliableOperations); a peer is searched once (PeerDiscovery); a        *)
(* transfer resumes where it was and is not abandoned while it is said to  *)
(* be repaired (TransferReliability); a cached negotiation fits the sets   *)
(* it is found for (CapabilityNegotiation); the history of a session has   *)
(* all its generations (SessionEvolution).                                 *)
(***************************************************************************)
EXTENDS MessageRelay, SequenceTheorems, FiniteSetTheorems, NaturalsInduction,
  WellFoundedInduction, TLAPS

CONSTANTS
  Transfers, ChunkCount, Controls, PullsMayFail,
  Operators, MaxConcurrent, MaxQueue, MaxAttempts, MaxResumes, FailureThreshold,
  SuccessThreshold, MaxCrashes,
  Callers, Sessions, MaxVersions, MaxRestarts, Requests, Chunks, MaxVersion,
  MaxGeneration
VARIABLES
  stored, sender, receiver, control, relayed, handedOver,
  breaker, active, queue, ops, record, failing, swept, crashes,
  device, cache, sessions, lookups, inflight, request, answer, restarts,
  calls, set

Relayed == INSTANCE ChunkRelay WITH MayFail <- PullsMayFail
Operations == INSTANCE ReliableOperations WITH Callers <- Operators
Discovery == INSTANCE PeerDiscovery
Transfer == INSTANCE TransferReliability
Capabilities == INSTANCE CapabilityNegotiation
Evolution == INSTANCE SessionEvolution

-----------------------------------------------------------------------------
(* Messages left at the relay (MessageRelay). *)

Delivered == {"delivered", "acknowledged"}
PollRecords ==
  [at : Steps, todo : Seq(Messages), out : Seq(Messages), gone : BOOLEAN]

PollsTyped ==
  /\ state \in [Messages -> {"none", "sent"} \cup Delivered]
  /\ polls \in [Polls -> PollRecords]
  /\ seen \subseteq Messages /\ reloads \in 0..MaxReloads
  /\ shown \in [Messages -> Nat]
  /\ \A p \in Polls :
       /\ At(p) \notin {"idle", "inbox"} => Todo(p) # <<>>
       /\ At(p) \in {"loop", "decrypt"} => ~ polls[p].gone

\* The messages a sequence holds.
Among(m, s) == \E i \in 1..Len(s) : s[i] = m

\* What a poll may still bring to the application.
Brings(p, m) == ~ polls[p].gone /\ (Among(m, Todo(p)) \/ Among(m, polls[p].out))

\* What a poll has in hand was delivered before, unless the relay still lists
\* it; a message that came to the application is seen, or no poll brings it.
RelayInv ==
  /\ PollsTyped
  /\ \A p \in Polls : \A m \in Messages :
       /\ Among(m, polls[p].out) => state[m] \in Delivered
       /\ Among(m, Todo(p)) =>
            state[m] \in Delivered \/ (At(p) = "inbox" /\ state[m] # "none")
  /\ \A p \in Polls :
       /\ At(p) = "decrypt" => Current(p) \in seen /\ shown[Current(p)] = 0
       /\ At(p) \in {"ack", "mark"} => shown[Current(p)] > 0
       /\ \A q \in Polls : At(p) = "decrypt" /\ At(q) = "decrypt"
                             /\ Current(p) = Current(q) => p = q
  /\ \A m \in Messages :
       /\ shown[m] <= 1
       /\ shown[m] > 0 => /\ state[m] \in Delivered
                          /\ m \in seen \/ \A p \in Polls : ~ Brings(p, m)
       /\ state[m] = "acknowledged" => shown[m] > 0

\* The first of a sequence and the rest of it.
LEMMA FirstAndRest ==
  ASSUME NEW S, NEW s \in Seq(S), s # <<>>
  PROVE  /\ Head(s) \in S /\ Among(Head(s), s) /\ Tail(s) \in Seq(S)
         /\ \A m : Among(m, Tail(s)) => Among(m, s)
<1>1. Len(s) \in Nat /\ Len(s) >= 1 /\ Head(s) = s[1] /\ \A i \in 1..Len(s) : s[i] \in S
  OBVIOUS
<1>2. Tail(s) \in Seq(S) /\ Len(Tail(s)) = Len(s) - 1
      /\ \A i \in 1..Len(Tail(s)) : Tail(s)[i] = s[i + 1]
  BY HeadTailProperties
<1>3. \A m : Among(m, Tail(s)) => Among(m, s)
  BY <1>1, <1>2 DEF Among
<1>4. Head(s) \in S /\ Among(Head(s), s)
  BY <1>1 DEF Among
<1> QED
  BY <1>2, <1>3, <1>4

\* One more at the end.
LEMMA AmongAppended ==
  ASSUME NEW S, NEW s \in Seq(S), NEW x \in S
  PROVE  /\ Append(s, x) \in Seq(S)
         /\ \A m : Among(m, Append(s, x)) => Among(m, s) \/ m = x
BY DEF Among

\* Nothing is among nothing.
LEMMA NoneAmong == \A m : ~ Among(m, <<>>)
BY DEF Among

\* What the relay lists.
LEMMA Listed ==
  ASSUME MessageRelayAssumption, NEW S \in SUBSET Messages, NEW s \in SetToSeqs(S)
  PROVE  s \in Seq(Messages) /\ \A m : Among(m, s) => m \in S
<1>1. IsFiniteSet(Messages)
  BY FS_Interval DEF MessageRelayAssumption, Messages
<1>2. Cardinality(S) \in Nat
  BY <1>1, FS_Subset, FS_CardinalityType
<1>3. s \in [1..Cardinality(S) -> S]
  BY DEF SetToSeqs
<1>4. s \in Seq(S) /\ \A i \in 1..Len(s) : s[i] \in S
  BY <1>2, <1>3
<1>5. \A m : Among(m, s) => m \in S
  BY <1>4 DEF Among
<1>6. s \in Seq(Messages)
  BY <1>2, <1>3
<1> QED
  BY <1>5, <1>6

\* A poll goes on, the others stay where they are.
LEMMA PollGoes ==
  ASSUME PollsTyped, NEW p \in Polls, NEW poll \in PollRecords, Set(p, poll)
  PROVE  /\ polls' \in [Polls -> PollRecords] /\ polls'[p] = poll
         /\ \A q \in Polls : q # p => polls'[q] = polls[q]
BY DEF PollsTyped, Set

\* Records go on to be delivered and acknowledged, and never back.
Onward ==
  /\ state' \in [Messages -> {"none", "sent"} \cup Delivered]
  /\ \A m \in Messages :
       /\ state[m] \in Delivered => state'[m] \in Delivered
       /\ state[m] # "none" => state'[m] # "none"
       /\ state'[m] = "acknowledged" => state[m] = "acknowledged" \/ shown[m] > 0

\* A step of a poll that brings nothing more than it had.
LEMMA PollKeeps ==
  ASSUME RelayInv, NEW p \in Polls, NEW poll \in PollRecords, Set(p, poll), Onward,
         UNCHANGED <<seen, shown, reloads>>,
         poll.at \notin {"idle", "inbox"} => poll.todo # <<>>,
         poll.at = "loop" => ~ poll.gone, poll.at # "decrypt",
         poll.at \in {"ack", "mark"} => shown[Head(poll.todo)] > 0,
         \A m \in Messages :
           /\ Among(m, poll.out) => state'[m] \in Delivered
           /\ Among(m, poll.todo) =>
                state'[m] \in Delivered \/ (poll.at = "inbox" /\ state'[m] # "none")
           /\ ~ poll.gone /\ (Among(m, poll.todo) \/ Among(m, poll.out)) =>
                Brings(p, m) \/ state[m] = "sent"
  PROVE  RelayInv'
<1>1. /\ polls' \in [Polls -> PollRecords] /\ polls'[p] = poll
      /\ \A q \in Polls : q # p => polls'[q] = polls[q]
  BY PollGoes DEF RelayInv
<1>2. PollsTyped'
  BY <1>1 DEF RelayInv, PollsTyped, Onward, At, Todo
<1>3. ASSUME NEW q \in Polls, NEW m \in Messages
      PROVE  /\ Among(m, polls'[q].out) => state'[m] \in Delivered
             /\ Among(m, Todo(q)') =>
                  state'[m] \in Delivered \/ (At(q)' = "inbox" /\ state'[m] # "none")
  BY <1>1 DEF RelayInv, Onward, At, Todo
<1>4. /\ \A q \in Polls : At(q)' = "decrypt" => q # p /\ At(q) = "decrypt"
      /\ \A q \in Polls : q # p => At(q)' = At(q) /\ Current(q)' = Current(q)
      /\ At(p)' = poll.at /\ Current(p)' = Head(poll.todo)
  BY <1>1 DEF At, Current, Todo
<1>5. ASSUME NEW q \in Polls
      PROVE  /\ At(q)' = "decrypt" => Current(q)' \in seen' /\ shown'[Current(q)'] = 0
             /\ At(q)' \in {"ack", "mark"} => shown'[Current(q)'] > 0
             /\ \A r \in Polls : At(q)' = "decrypt" /\ At(r)' = "decrypt"
                                   /\ Current(q)' = Current(r)' => q = r
  BY <1>4 DEF RelayInv
<1>6. ASSUME NEW m \in Messages, shown[m] > 0, m \notin seen, NEW q \in Polls
      PROVE  ~ Brings(q, m)'
  <2>1. state[m] \in Delivered /\ ~ Brings(p, m) /\ ~ Brings(q, m)
    BY <1>6 DEF RelayInv
  <2> QED
    BY <1>1, <2>1 DEF Brings, Todo, Delivered
<1>7. ASSUME NEW m \in Messages
      PROVE  /\ shown'[m] <= 1
             /\ shown'[m] > 0 => /\ state'[m] \in Delivered
                                 /\ m \in seen' \/ \A q \in Polls : ~ Brings(q, m)'
             /\ state'[m] = "acknowledged" => shown'[m] > 0
  BY <1>6 DEF RelayInv, Onward
<1> QED
  BY <1>2, <1>3, <1>5, <1>7 DEF RelayInv

\* Where a poll is while it has a message in hand.
LEMMA InHand ==
  ASSUME RelayInv, NEW p \in Polls, At(p) \notin {"idle", "inbox"} \/ Todo(p) # <<>>
  PROVE  /\ polls[p] \in PollRecords /\ Todo(p) \in Seq(Messages) /\ Todo(p) # <<>>
         /\ Current(p) \in Messages /\ Among(Current(p), Todo(p))
         /\ Tail(Todo(p)) \in Seq(Messages)
         /\ \A m : Among(m, Tail(Todo(p))) => Among(m, Todo(p))
         /\ At(p) # "inbox" => \A m \in Messages : Among(m, Todo(p)) =>
              state[m] \in Delivered
<1>1. polls[p] \in PollRecords /\ Todo(p) \in Seq(Messages) /\ Todo(p) # <<>>
  BY DEF RelayInv, PollsTyped, PollRecords, Todo, At
<1> QED
  BY <1>1, FirstAndRest DEF Current, RelayInv

\* Nothing changes at the relay.
LEMMA StateStays == ASSUME PollsTyped, state' = state PROVE Onward
BY DEF PollsTyped, Onward

LEMMA IdleIs ==
     Idle \in PollRecords /\ Idle.at = "idle" /\ Idle.todo = <<>> /\ Idle.out = <<>>
BY DEF Idle, PollRecords, Steps

\* A poll that starts on a list.
Starting(at, todo) == [Idle EXCEPT !.at = at, !.todo = todo]

LEMMA Starts ==
  ASSUME NEW at \in Steps, NEW todo \in Seq(Messages)
  PROVE  /\ Starting(at, todo) \in PollRecords
         /\ Starting(at, todo).at = at /\ Starting(at, todo).todo = todo
         /\ Starting(at, todo).out = <<>> /\ Starting(at, todo).gone = FALSE
<1> DEFINE r == [at |-> at, todo |-> todo, out |-> <<>>, gone |-> FALSE]
<1>1. <<>> \in Seq(Messages)
  BY EmptySeq
<1>2. r \in PollRecords
  BY ONLY <1>1, at \in Steps, todo \in Seq(Messages) DEF PollRecords
<1>3. r.at = at /\ r.todo = todo /\ r.out = <<>> /\ r.gone = FALSE
  BY ONLY TRUE
<1>4. ASSUME NEW poll, poll = Starting(at, todo) PROVE poll = r
  BY <1>4 DEF Starting, Idle
<1> HIDE DEF r
<1> QED
  BY <1>2, <1>3, <1>4

\* On to the next message of the response.
LEMMA RestKeeps ==
  ASSUME RelayInv, NEW p \in Polls, At(p) \notin {"idle", "inbox", "decrypt"},
         Set(p, Rest(p)), UNCHANGED <<state, seen, shown, reloads>>
  PROVE  RelayInv'
<1> PICK poll : poll = Rest(p)
  OBVIOUS
<1>1. Onward
  BY StateStays DEF RelayInv
<1>2. CASE poll = Idle
  BY <1>1, <1>2, IdleIs, NoneAmong, PollKeeps
<1>3. CASE poll # Idle
  <2>1. /\ poll = Starting("loop", Tail(Todo(p)))
        /\ Tail(Todo(p)) # <<>> /\ ~ polls[p].gone
    BY <1>3 DEF Rest, Starting
  <2>2. /\ poll \in PollRecords /\ poll.at = "loop" /\ poll.todo = Tail(Todo(p))
        /\ poll.out = <<>> /\ ~ poll.gone
    <3>1. "loop" \in Steps /\ Tail(Todo(p)) \in Seq(Messages)
      BY InHand DEF Steps
    <3>2. poll = Starting("loop", Tail(Todo(p)))
      BY <2>1
    <3>3. /\ Starting("loop", Tail(Todo(p))) \in PollRecords
          /\ Starting("loop", Tail(Todo(p))).at = "loop"
          /\ Starting("loop", Tail(Todo(p))).todo = Tail(Todo(p))
          /\ Starting("loop", Tail(Todo(p))).out = <<>>
          /\ Starting("loop", Tail(Todo(p))).gone = FALSE
      BY <3>1, Starts, ZenonT(30)
    <3> QED
      BY <3>2, <3>3, ZenonT(30)
  <2>3. \A m \in Messages : Among(m, poll.todo) =>
             Among(m, Todo(p)) /\ state[m] \in Delivered
    BY <2>2, InHand
  <2>4. \A m \in Messages : Among(m, poll.todo) => Brings(p, m)
    BY <2>1, <2>3 DEF Brings
  <2> QED
    BY <1>1, <2>1, <2>2, <2>3, <2>4, NoneAmong, PollKeeps
<1> QED
  BY <1>2, <1>3

LEMMA RelayKeeps ==
  ASSUME RelayInv, NEW m \in Messages, Relay(m) PROVE RelayInv'
<1>1. /\ state[m] = "none" /\ state' = [state EXCEPT ![m] = "sent"]
      /\ UNCHANGED <<polls, seen, shown, reloads>>
  BY DEF Relay
<1>2. /\ state' \in [Messages -> {"none", "sent"} \cup Delivered] /\ state'[m] = "sent"
      /\ \A n \in Messages : n # m => state'[n] = state[n]
  BY <1>1 DEF RelayInv, PollsTyped
<1>3. PollsTyped'
  BY <1>1, <1>2 DEF RelayInv, PollsTyped, At, Todo
<1>4. \A n \in Messages : /\ state[n] \in Delivered => state'[n] \in Delivered
                          /\ state[n] # "none" => state'[n] # "none"
                          /\ state'[n] = "acknowledged" => state[n] = "acknowledged"
  BY <1>1, <1>2 DEF Delivered
<1>5. /\ \A p \in Polls : At(p)' = At(p) /\ Todo(p)' = Todo(p) /\ Current(p)' = Current(p)
      /\ \A p \in Polls : \A n : Brings(p, n)' <=> Brings(p, n)
  BY <1>1 DEF At, Todo, Current, Brings
<1> QED
  BY <1>1, <1>3, <1>4, <1>5 DEF RelayInv

LEMMA ListKeeps ==
  ASSUME MessageRelayAssumption, RelayInv, NEW p \in Polls, List(p) PROVE RelayInv'
<1>1. PICK todo \in SetToSeqs({m \in Messages : state[m] = "sent"}) :
        Set(p, [Idle EXCEPT !.at = "inbox", !.todo = todo])
  BY DEF List
<1>2. UNCHANGED <<state, seen, shown, reloads>> /\ Onward
  BY StateStays DEF List, RelayInv
<1>3. todo \in Seq(Messages) /\ \A m : Among(m, todo) => state[m] = "sent"
  BY Listed
<1> PICK poll : poll = Starting("inbox", todo)
  OBVIOUS
<1>6. Set(p, poll)
  BY <1>1 DEF Starting
<1>4. /\ poll \in PollRecords /\ poll.at = "inbox" /\ poll.todo = todo /\ poll.out = <<>>
  <2>1. "inbox" \in Steps
    BY DEF Steps
  <2>2. todo \in Seq(Messages)
    BY <1>3
  <2> QED
    BY <2>1, <2>2, Starts, ZenonT(30)
<1>5. \A m \in Messages : Among(m, poll.todo) => state'[m] # "none" /\ state[m] = "sent"
  BY <1>2, <1>3, <1>4
<1> QED
  BY <1>2, <1>4, <1>5, <1>6, NoneAmong, PollKeeps

LEMMA DeliverKeeps ==
  ASSUME RelayInv, NEW p \in Polls, Deliver(p) PROVE RelayInv'
<1> PICK m, poll :
      /\ m = Current(p)
      /\ poll = [polls[p] EXCEPT !.todo = Tail(@), !.out = Append(@, Current(p))]
  OBVIOUS
<1>1. /\ At(p) = "inbox" /\ Todo(p) # <<>> /\ state' = [state EXCEPT ![m] = "delivered"]
      /\ Set(p, poll) /\ UNCHANGED <<seen, shown, reloads>>
  BY DEF Deliver
<1>2. m \in Messages /\ polls[p] \in PollRecords /\ Among(m, Todo(p))
  BY <1>1, InHand
<1>3. /\ state' \in [Messages -> {"none", "sent"} \cup Delivered] /\ state'[m] = "delivered"
      /\ \A n \in Messages : n # m => state'[n] = state[n]
  BY <1>1, <1>2 DEF RelayInv, PollsTyped, Delivered
<1>4. Onward
  BY <1>3 DEF Onward, Delivered
<1>5. polls[p].out \in Seq(Messages) /\ Tail(Todo(p)) \in Seq(Messages)
  BY <1>1, <1>2, InHand DEF PollRecords
<1>6. /\ poll.at = "inbox" /\ poll.todo = Tail(Todo(p)) /\ poll.out = Append(polls[p].out, m)
      /\ poll.gone = polls[p].gone /\ poll \in PollRecords
  BY <1>1, <1>2, <1>5, AmongAppended DEF PollRecords, Todo, At
<1>7. \A n : /\ Among(n, poll.out) => Among(n, polls[p].out) \/ n = m
             /\ Among(n, poll.todo) => Among(n, Todo(p))
  <2>1. \A n : Among(n, Append(polls[p].out, m)) => Among(n, polls[p].out) \/ n = m
    BY <1>2, <1>5, AmongAppended
  <2>2. \A n : Among(n, Tail(Todo(p))) => Among(n, Todo(p))
    BY <1>1, InHand
  <2> QED
    BY <1>6, <2>1, <2>2
<1>8. ASSUME NEW n \in Messages
      PROVE  /\ Among(n, poll.out) => state'[n] \in Delivered
             /\ Among(n, poll.todo) => state'[n] \in Delivered \/ state'[n] # "none"
             /\ ~ poll.gone /\ (Among(n, poll.todo) \/ Among(n, poll.out)) => Brings(p, n)
  <2>1. Among(n, poll.out) => state'[n] \in Delivered
    BY <1>3, <1>4, <1>7 DEF RelayInv, Onward, Delivered
  <2>2. Among(n, poll.todo) => state'[n] # "none"
    BY <1>4, <1>7 DEF RelayInv, Onward, Delivered
  <2>3. ~ poll.gone /\ (Among(n, poll.todo) \/ Among(n, poll.out)) => Brings(p, n)
    BY <1>2, <1>6, <1>7 DEF Brings
  <2> QED
    BY <2>1, <2>2, <2>3
<1> QED
  BY <1>1, <1>4, <1>6, <1>8, PollKeeps

\* The steps of a poll that keep what it has in hand.
LEMMA StaysKeeps ==
  ASSUME RelayInv, NEW p \in Polls, NEW poll \in PollRecords, Set(p, poll), Onward,
         UNCHANGED <<seen, shown, reloads>>,
         poll.todo = Todo(p), poll.out = polls[p].out, polls[p].gone => poll.gone,
         At(p) \in {"inbox", "ack", "mark", "answered"},
         poll.at \in {"inbox", "ack", "mark", "answered"},
         At(p) = "inbox" <=> poll.at = "inbox",
         poll.at \in {"ack", "mark"} => shown[Current(p)] > 0
  PROVE  RelayInv'
<1>1. poll.at \notin {"idle", "inbox"} => poll.todo # <<>>
  BY DEF RelayInv, PollsTyped
<1>2. ASSUME NEW m \in Messages
      PROVE  /\ Among(m, poll.out) => state'[m] \in Delivered
             /\ Among(m, poll.todo) =>
                  state'[m] \in Delivered \/ (poll.at = "inbox" /\ state'[m] # "none")
             /\ ~ poll.gone /\ (Among(m, poll.todo) \/ Among(m, poll.out)) => Brings(p, m)
  BY DEF RelayInv, Onward, Brings
<1>3. poll.at \in {"ack", "mark"} => shown[Head(poll.todo)] > 0
  BY DEF Current
<1> QED
  BY <1>1, <1>2, <1>3, PollKeeps

LEMMA ReadForAckKeeps ==
  ASSUME RelayInv, NEW p \in Polls, ReadForAck(p) PROVE RelayInv'
<1> PICK at, poll :
      /\ at = IF state[Current(p)] = "acknowledged" THEN "answered" ELSE "mark"
      /\ poll = [polls[p] EXCEPT !.at = at]
  OBVIOUS
<1>1. At(p) = "ack" /\ Set(p, poll) /\ UNCHANGED <<state, seen, shown, reloads>>
  BY DEF ReadForAck
<1>2. polls[p] \in PollRecords /\ shown[Current(p)] > 0 /\ Onward
  BY <1>1, InHand, StateStays DEF RelayInv
<1>3. at \in {"answered", "mark"}
  OBVIOUS
<1>4. /\ poll \in PollRecords /\ poll.at = at /\ poll.todo = Todo(p)
      /\ poll.out = polls[p].out /\ poll.gone = polls[p].gone
  BY <1>2, <1>3 DEF PollRecords, Todo, Steps
<1> QED
  BY <1>1, <1>2, <1>3, <1>4, StaysKeeps

LEMMA MarkKeeps ==
  ASSUME RelayInv, NEW p \in Polls, MarkAcknowledged(p) PROVE RelayInv'
<1> PICK m, poll : m = Current(p) /\ poll = [polls[p] EXCEPT !.at = "answered"]
  OBVIOUS
<1>1. /\ At(p) = "mark" /\ Set(p, poll) /\ state' = [state EXCEPT ![m] = "acknowledged"]
      /\ UNCHANGED <<seen, shown, reloads>>
  BY DEF MarkAcknowledged
<1>2. polls[p] \in PollRecords /\ m \in Messages /\ shown[m] > 0
  BY <1>1, InHand DEF RelayInv
<1>3. /\ state' \in [Messages -> {"none", "sent"} \cup Delivered] /\ state'[m] = "acknowledged"
      /\ \A n \in Messages : n # m => state'[n] = state[n]
  BY <1>1, <1>2 DEF RelayInv, PollsTyped, Delivered
<1>4. Onward
  BY <1>2, <1>3 DEF Onward, Delivered
<1>5. /\ poll \in PollRecords /\ poll.at = "answered" /\ poll.todo = Todo(p)
      /\ poll.out = polls[p].out /\ poll.gone = polls[p].gone
  BY <1>2 DEF PollRecords, Todo, Steps
<1> QED
  BY <1>1, <1>4, <1>5, StaysKeeps

LEMMA LoseKeeps ==
  ASSUME RelayInv, NEW p \in Polls, Lose(p) PROVE RelayInv'
<1> PICK poll : poll = [polls[p] EXCEPT !.gone = TRUE]
  OBVIOUS
<1>1. AtRelay(p) /\ Set(p, poll) /\ UNCHANGED <<state, seen, shown, reloads>> /\ Onward
  BY StateStays DEF Lose, RelayInv
<1>2. polls[p] \in PollRecords
  BY DEF RelayInv, PollsTyped
<1>3. /\ poll \in PollRecords /\ poll.at = At(p) /\ poll.todo = Todo(p)
      /\ poll.out = polls[p].out /\ poll.gone = TRUE
  BY <1>2 DEF PollRecords, Todo, At
<1> QED
  BY <1>1, <1>3, StaysKeeps DEF AtRelay, RelayInv

LEMMA FailKeeps ==
  ASSUME RelayInv, NEW p \in Polls, Fail(p) PROVE RelayInv'
<1>1. Set(p, Idle) /\ UNCHANGED <<state, seen, shown, reloads>> /\ Onward
  BY StateStays DEF Fail, RelayInv
<1> QED
  BY <1>1, IdleIs, NoneAmong, PollKeeps

LEMMA ReceiveKeeps ==
  ASSUME RelayInv, NEW p \in Polls, Receive(p) PROVE RelayInv'
<1>1. /\ At(p) = "inbox" /\ UNCHANGED <<state, seen, shown, reloads>> /\ Onward
      /\ Set(p, IF polls[p].out = <<>> \/ polls[p].gone THEN Idle
                ELSE [Idle EXCEPT !.at = "loop", !.todo = polls[p].out])
  BY StateStays DEF Receive, RelayInv
<1>2. CASE polls[p].out = <<>> \/ polls[p].gone
  <2>1. Set(p, Idle)
    BY <1>1, <1>2
  <2> QED
    BY <1>1, <2>1, IdleIs, NoneAmong, PollKeeps
<1>3. CASE ~ (polls[p].out = <<>> \/ polls[p].gone)
  <2> PICK poll : poll = Starting("loop", polls[p].out)
    OBVIOUS
  <2>1. Set(p, poll) /\ polls[p].out # <<>> /\ ~ polls[p].gone
    BY <1>1, <1>3 DEF Starting
  <2>2. polls[p] \in PollRecords
    BY DEF RelayInv, PollsTyped
  <2>3. polls[p].out \in Seq(Messages)
    BY <2>2 DEF PollRecords
  <2>4. /\ poll \in PollRecords /\ poll.at = "loop" /\ poll.todo = polls[p].out
        /\ poll.out = <<>> /\ ~ poll.gone
    <3>1. "loop" \in Steps
      BY DEF Steps
    <3> QED
      BY <2>3, <3>1, Starts, ZenonT(30)
  <2>5. \A m \in Messages : Among(m, poll.todo) => state'[m] \in Delivered /\ Brings(p, m)
    BY <1>1, <2>1, <2>4 DEF RelayInv, Brings
  <2> QED
    BY <1>1, <2>1, <2>4, <2>5, NoneAmong, PollKeeps
<1> QED
  BY <1>2, <1>3

\* A message that was not seen before is seen now, and not shown yet.
LEMMA TakeKeeps ==
  ASSUME RelayInv, NEW p \in Polls, Take(p) PROVE RelayInv'
<1>1. At(p) = "loop" /\ UNCHANGED <<state, shown, reloads>>
  BY DEF Take
<1>2. CASE Current(p) \in seen
  <2>1. Set(p, Rest(p)) /\ seen' = seen
    BY <1>2 DEF Take
  <2> QED
    BY <1>1, <2>1, RestKeeps
<1>3. CASE Current(p) \notin seen
  <2> PICK m, poll : m = Current(p) /\ poll = [polls[p] EXCEPT !.at = "decrypt"]
    OBVIOUS
  <2>1. Set(p, poll) /\ seen' = seen \cup {m}
    BY <1>3 DEF Take, Marked
  <2>2. polls[p] \in PollRecords /\ m \in Messages /\ Among(m, Todo(p)) /\ Todo(p) # <<>>
    BY <1>1, InHand
  <2>3. /\ poll \in PollRecords /\ poll.at = "decrypt" /\ poll.todo = Todo(p)
        /\ poll.out = polls[p].out /\ poll.gone = polls[p].gone
    BY <2>2 DEF PollRecords, Todo, Steps
  <2>4. ~ polls[p].gone /\ shown[m] = 0
    <3>1. ~ polls[p].gone /\ Brings(p, m)
      BY <1>1, <2>2 DEF RelayInv, PollsTyped, Brings
    <3>2. shown[m] \in Nat
      BY <2>2 DEF RelayInv, PollsTyped
    <3> QED
      BY <1>3, <2>2, <3>1, <3>2 DEF RelayInv
  <2>5. /\ polls' \in [Polls -> PollRecords] /\ polls'[p] = poll
        /\ \A q \in Polls : q # p => polls'[q] = polls[q]
    BY <2>1, <2>3, PollGoes DEF RelayInv
  <2>6. /\ At(p)' = "decrypt" /\ Current(p)' = m
        /\ \A q \in Polls : q # p => At(q)' = At(q) /\ Current(q)' = Current(q)
        /\ \A q \in Polls : Todo(q)' = Todo(q) /\ polls'[q].out = polls[q].out
                            /\ polls'[q].gone = polls[q].gone
    BY <2>3, <2>5 DEF At, Current, Todo
  <2>7. PollsTyped'
    BY <1>1, <2>1, <2>2, <2>4, <2>5, <2>6 DEF RelayInv, PollsTyped
  <2>8. \A q \in Polls : \A n : Brings(q, n)' <=> Brings(q, n)
    BY <2>6 DEF Brings
  <2>9. \A q \in Polls : \A n \in Messages :
          /\ Among(n, polls'[q].out) => state'[n] \in Delivered
          /\ Among(n, Todo(q)') =>
               state'[n] \in Delivered \/ (At(q)' = "inbox" /\ state'[n] # "none")
    BY <1>1, <2>6 DEF RelayInv
  <2>10. \A q \in Polls :
           /\ At(q)' = "decrypt" => Current(q)' \in seen' /\ shown'[Current(q)'] = 0
           /\ At(q)' \in {"ack", "mark"} => shown'[Current(q)'] > 0
           /\ \A r \in Polls : At(q)' = "decrypt" /\ At(r)' = "decrypt"
                                 /\ Current(q)' = Current(r)' => q = r
    BY <1>1, <1>3, <2>1, <2>4, <2>6 DEF RelayInv
  <2> QED
    BY <1>1, <2>1, <2>7, <2>8, <2>9, <2>10 DEF RelayInv
<1> QED
  BY <1>2, <1>3

\* It is shown once, and then to be acknowledged.
LEMMA ShowKeeps ==
  ASSUME RelayInv, NEW p \in Polls, Show(p) PROVE RelayInv'
<1> PICK m, poll : m = Current(p) /\ poll = [polls[p] EXCEPT !.at = "ack"]
  OBVIOUS
<1>1. /\ At(p) = "decrypt" /\ shown' = [shown EXCEPT ![m] = @ + 1] /\ Set(p, poll)
      /\ UNCHANGED <<state, seen, reloads>>
  BY DEF Show
<1>2. /\ polls[p] \in PollRecords /\ m \in Messages /\ Todo(p) # <<>>
      /\ state[m] \in Delivered
  BY <1>1, InHand
<1>3. m \in seen /\ shown[m] = 0
  BY <1>1 DEF RelayInv
<1>4. /\ poll \in PollRecords /\ poll.at = "ack" /\ poll.todo = Todo(p)
      /\ poll.out = polls[p].out /\ poll.gone = polls[p].gone
  BY <1>2 DEF PollRecords, Todo, Steps
<1>5. /\ polls' \in [Polls -> PollRecords] /\ polls'[p] = poll
      /\ \A q \in Polls : q # p => polls'[q] = polls[q]
  BY <1>1, <1>4, PollGoes DEF RelayInv
<1>6. /\ At(p)' = "ack" /\ Current(p)' = m
      /\ \A q \in Polls : q # p => At(q)' = At(q) /\ Current(q)' = Current(q)
      /\ \A q \in Polls : Todo(q)' = Todo(q) /\ polls'[q].out = polls[q].out
                          /\ polls'[q].gone = polls[q].gone
  BY <1>4, <1>5 DEF At, Current, Todo
<1>7. /\ shown' \in [Messages -> Nat] /\ shown'[m] = 1
      /\ \A n \in Messages : n # m => shown'[n] = shown[n]
  BY <1>1, <1>2, <1>3 DEF RelayInv, PollsTyped
<1>8. PollsTyped'
  BY <1>1, <1>2, <1>5, <1>6, <1>7 DEF RelayInv, PollsTyped
<1>9. \A q \in Polls : \A n : Brings(q, n)' <=> Brings(q, n)
  BY <1>6 DEF Brings
<1>10. \A q \in Polls : \A n \in Messages :
         /\ Among(n, polls'[q].out) => state'[n] \in Delivered
         /\ Among(n, Todo(q)') =>
              state'[n] \in Delivered \/ (At(q)' = "inbox" /\ state'[n] # "none")
  BY <1>1, <1>6 DEF RelayInv
<1>11. ASSUME NEW q \in Polls
       PROVE  /\ At(q)' = "decrypt" => Current(q)' \in seen' /\ shown'[Current(q)'] = 0
              /\ At(q)' \in {"ack", "mark"} => shown'[Current(q)'] > 0
              /\ \A r \in Polls : At(q)' = "decrypt" /\ At(r)' = "decrypt"
                                    /\ Current(q)' = Current(r)' => q = r
  <2>1. CASE q = p
    BY <1>6, <1>7, <2>1
  <2>2. CASE q # p
    <3>1. At(q)' = At(q) /\ Current(q)' = Current(q)
      BY <1>6, <2>2
    <3>2. At(q) \in {"decrypt", "ack", "mark"} => Current(q) \in Messages
      BY InHand
    <3>3. At(q) = "decrypt" => Current(q) # m
      BY <1>1, <2>2 DEF RelayInv
    <3> QED
      BY <1>1, <1>6, <1>7, <3>1, <3>2, <3>3 DEF RelayInv
  <2> QED
    BY <2>1, <2>2
<1>12. ASSUME NEW n \in Messages
       PROVE  /\ shown'[n] <= 1
              /\ shown'[n] > 0 => /\ state'[n] \in Delivered
                                  /\ n \in seen' \/ \A q \in Polls : ~ Brings(q, n)'
              /\ state'[n] = "acknowledged" => shown'[n] > 0
  BY <1>1, <1>2, <1>3, <1>7, <1>9 DEF RelayInv
<1> QED
  BY <1>8, <1>10, <1>11, <1>12 DEF RelayInv

\* What the polls brought before the page was loaded again gets lost.
LEMMA ReloadKeeps ==
  ASSUME MessageRelayAssumption, RelayInv, Reload PROVE RelayInv'
<1>1. /\ seen' = {} /\ UNCHANGED <<state, shown>> /\ reloads' \in 0..MaxReloads
      /\ polls' = [p \in Polls |-> IF AtRelay(p) THEN [polls[p] EXCEPT !.gone = TRUE]
                                   ELSE Idle]
  BY DEF Reload, RelayInv, PollsTyped, MessageRelayAssumption
<1>2. ASSUME NEW p \in Polls
      PROVE  /\ polls'[p] \in PollRecords
             /\ \/ /\ AtRelay(p) /\ At(p)' = At(p) /\ Todo(p)' = Todo(p)
                   /\ polls'[p].out = polls[p].out /\ polls'[p].gone
                \/ polls'[p] = Idle
  <2>1. polls[p] \in PollRecords
    BY DEF RelayInv, PollsTyped
  <2>2. CASE AtRelay(p)
    <3> PICK poll : poll = [polls[p] EXCEPT !.gone = TRUE]
      OBVIOUS
    <3>1. polls'[p] = poll
      BY <1>1, <2>2
    <3>2. /\ poll \in PollRecords /\ poll.at = polls[p].at /\ poll.todo = polls[p].todo
          /\ poll.out = polls[p].out /\ poll.gone = TRUE
      BY <2>1 DEF PollRecords
    <3> QED
      BY <2>2, <3>1, <3>2 DEF At, Todo
  <2>3. CASE ~ AtRelay(p)
    BY <1>1, <2>3, IdleIs
  <2> QED
    BY <2>2, <2>3
<1>3. PollsTyped'
  <2>1. polls' \in [Polls -> PollRecords]
    BY <1>1, <1>2
  <2>2. ASSUME NEW p \in Polls
        PROVE  /\ At(p)' \notin {"idle", "inbox"} => Todo(p)' # <<>>
               /\ At(p)' \in {"loop", "decrypt"} => ~ polls'[p].gone
    BY <1>2, IdleIs DEF RelayInv, PollsTyped, At, Todo, AtRelay
  <2> QED
    BY <1>1, <2>1, <2>2 DEF RelayInv, PollsTyped
<1>4. \A p \in Polls : \A m : ~ Brings(p, m)'
  BY <1>2, IdleIs, NoneAmong DEF Brings, Todo
<1>5. ASSUME NEW p \in Polls, NEW m \in Messages
      PROVE  /\ Among(m, polls'[p].out) => state'[m] \in Delivered
             /\ Among(m, Todo(p)') =>
                  state'[m] \in Delivered \/ (At(p)' = "inbox" /\ state'[m] # "none")
  BY <1>1, <1>2, IdleIs, NoneAmong DEF RelayInv, At, Todo
<1>6. ASSUME NEW p \in Polls
      PROVE  /\ At(p)' # "decrypt"
             /\ At(p)' \in {"ack", "mark"} => shown'[Current(p)'] > 0
  BY <1>1, <1>2, IdleIs DEF RelayInv, AtRelay, At, Current
<1> QED
  BY <1>1, <1>3, <1>4, <1>5, <1>6 DEF RelayInv

\* Nothing is relayed at first.
LEMMA InitRelay == ASSUME MessageRelayAssumption, Init PROVE RelayInv
<1>1. \A p \in Polls : polls[p] = Idle /\ At(p) = "idle" /\ Todo(p) = <<>>
  BY IdleIs DEF Init, At, Todo
<1>2. PollsTyped
  BY <1>1, IdleIs DEF Init, PollsTyped, MessageRelayAssumption
<1>3. \A p \in Polls : \A m :
           ~ Brings(p, m) /\ ~ Among(m, Todo(p)) /\ ~ Among(m, polls[p].out)
  BY <1>1, IdleIs, NoneAmong DEF Brings
<1>4. \A m \in Messages : shown[m] = 0 /\ state[m] = "none"
  BY DEF Init
<1> QED
  BY <1>1, <1>2, <1>3, <1>4 DEF RelayInv

\* Every step keeps the invariant of the relay.
LEMMA RelayStep ==
  ASSUME MessageRelayAssumption, RelayInv, [Next]_vars PROVE RelayInv'
<1>1. CASE UNCHANGED vars
  BY <1>1 DEF vars, RelayInv, PollsTyped, Brings, At, Todo, Current
<1>2. CASE \E m \in Messages : Relay(m)
  BY <1>2, RelayKeeps
<1>3. CASE Reload
  BY <1>3, ReloadKeeps
<1>4. ASSUME NEW p \in Polls, List(p) \/ Work(p) \/ Fail(p) \/ Lose(p) PROVE RelayInv'
  <2>1. CASE Work(p)
    <3>1. CASE Acknowledged(p)
      BY <3>1, RestKeeps DEF Acknowledged
    <3> QED
      BY <2>1, <3>1, DeliverKeeps, ReadForAckKeeps, MarkKeeps, ReceiveKeeps, TakeKeeps,
         ShowKeeps DEF Work
  <2> QED
    BY <1>4, <2>1, ListKeeps, FailKeeps, LoseKeeps
<1> QED
  BY <1>1, <1>2, <1>3, <1>4 DEF Next

\* What the invariant says of the messages.
LEMMA RelayMeans == RelayInv => ShownOnce /\ AcknowledgedIsShown /\ TypeOK
<1> SUFFICES ASSUME RelayInv PROVE ShownOnce /\ AcknowledgedIsShown /\ TypeOK
  OBVIOUS
<1>1. ASSUME NEW p \in Polls PROVE At(p) \in Steps /\ ToSet(Todo(p)) \subseteq Messages
  <2>1. polls[p] \in PollRecords
    BY DEF RelayInv, PollsTyped
  <2>2. At(p) \in Steps /\ Todo(p) \in Seq(Messages)
    BY <2>1 DEF PollRecords, At, Todo
  <2> QED
    BY <2>2 DEF ToSet
<1>2. TypeOK
  BY <1>1 DEF RelayInv, PollsTyped, TypeOK, Delivered
<1> QED
  BY <1>2 DEF RelayInv, ShownOnce, AcknowledgedIsShown

\* A message comes to the application once (ShownOnce), though polls overlap and
\* the page may be loaded again.
THEOREM MessagesShowOnce ==
  ASSUME MessageRelayAssumption PROVE Spec => []ShownOnce
BY InitRelay, RelayStep, RelayMeans, PTL DEF Spec

\* What the sender sees as acknowledged, the application has
\* (AcknowledgedIsShown).
THEOREM AcknowledgedMeansShown ==
  ASSUME MessageRelayAssumption PROVE Spec => []AcknowledgedIsShown
BY InitRelay, RelayStep, RelayMeans, PTL DEF Spec

-----------------------------------------------------------------------------
\* One payload on its way at a time, and requests of the receiver that arrive.
OnePayload == (\A t, u \in Transfers : t = u) /\ ~PullsMayFail

RelayAssumed == Relayed!ChunkRelayAssumption /\ ChunkCount \in Nat \ {0}

ChunkRecords == [of : Transfers \cup {"nobody"}, state : {"none", "received", "acked"}]
SenderAts == {"open", "relay", "store", "answered", "stopped"}
ReceiverAts == {"idle", "pull", "collect", "ack", "mark", "update", "complete", "loop"}

ChunkRelayTyped ==
  /\ state \in [Transfers -> Relayed!TransferState \cup {"none"}]
  /\ stored \in [Relayed!Chunks -> ChunkRecords]
  /\ sender \in [Transfers -> [at : SenderAts, chunk : Relayed!Chunks]]
  /\ receiver \in [Transfers -> [at : ReceiverAts, collected : SUBSET Relayed!Chunks,
                                 todo : SUBSET Relayed!Chunks]]
  /\ control = Relayed!NoChunk \/ control \in [of : Transfers, state : Controls]
  /\ relayed \in [Transfers -> SUBSET Relayed!Chunks]
  /\ handedOver \subseteq Transfers
  /\ \A i \in Relayed!Chunks : stored[i].state # "none" => stored[i].of \in Transfers

\* Chunks behind the one the sender is at are not at the relay yet, and chunks
\* it was told are relayed are.
SentInOrder(t) ==
         /\ \A i \in Relayed!Chunks :
              \/ sender[t].at \in {"open", "relay", "store"} /\ i >= sender[t].chunk
              \/ sender[t].at = "answered" /\ i > sender[t].chunk
              => stored[i].state = "none"
         /\ sender[t].at = "answered" => stored[sender[t].chunk].state # "none"
         /\ \A i \in relayed[t] : stored[i].state # "none"
         /\ sender[t].at = "open" => sender[t].chunk = 1

ReceiverIs(t, S) == receiver[t].at \in S

\* The relay has refused to complete a paused transfer, when all of its chunks
\* were acknowledged already: the receiver will not see them again.
Refused(t) ==
  /\ "paused" \in Controls
  /\ \A i \in Relayed!Chunks : stored[i].state = "acked"
  /\ receiver[t].collected = {} /\ receiver[t].todo = {}
  /\ ReceiverIs(t, {"idle", "pull", "collect", "loop"})
  /\ state[t] # "completed"

\* What is acknowledged the receiver has, unless it was refused.
Receives(t) ==
  /\ ReceiverIs(t, {"idle"}) => receiver[t] = Relayed!NotReceiving
  /\ ~ ReceiverIs(t, {"idle"}) => t \notin handedOver /\ state[t] # "none"
  /\ ReceiverIs(t, {"collect", "ack", "mark"}) =>
               \A i \in receiver[t].todo : stored[i].state # "none"
  /\ ReceiverIs(t, {"ack", "mark"}) => receiver[t].todo \subseteq receiver[t].collected
  /\ ReceiverIs(t, {"mark"}) => receiver[t].todo # {}
  /\ ReceiverIs(t, {"update", "complete"}) =>
       \A i \in Relayed!Chunks : stored[i].state = "acked"
  /\ \A i \in Relayed!Chunks : stored[i].state = "acked" =>
       i \in receiver[t].collected \/ t \in handedOver \/ Refused(t)
  /\ "paused" \notin Controls => state[t] # "paused"

ChunkRelayInv ==
  /\ ChunkRelayTyped
  /\ \A t \in Transfers : SentInOrder(t) /\ Receives(t)
  /\ Relayed!CompletedIsCollected

LEMMA LeastChunk ==
  ASSUME RelayAssumed, NEW S \in SUBSET Relayed!Chunks, S # {}
  PROVE  Relayed!Min(S) \in S
<1> DEFINE R == OpToRel(<, Nat)
<1>1. IsWellFoundedOn(R, Nat)
  BY NatLessThanWellFounded
<1>2. \A x, y \in Nat : x < y => <<x, y>> \in R
  BY DEF OpToRel
<1>3. S \subseteq Nat
  BY DEF RelayAssumed, Relayed!Chunks
<1> HIDE DEF R
<1>4. PICK m \in S : \A n \in S : ~ (<<n, m>> \in R)
  BY <1>1, <1>3, WFMin
<1>5. \A n \in S : ~ (n < m)
  BY <1>2, <1>3, <1>4
<1>6. \A n \in S : m <= n
  BY <1>3, <1>5
<1> QED
  BY <1>6 DEF Relayed!Min

LEMMA SameCount ==
  /\ \A S : Relayed!Cardinality(S) = Cardinality(S)
  /\ \A S : Operations!Cardinality(S) = Cardinality(S)
BY DEF Relayed!Cardinality, Relayed!IsFiniteSet, Operations!Cardinality,
   Operations!IsFiniteSet, Cardinality, IsFiniteSet

\* All chunks are counted only if there is none that is not acknowledged.
LEMMA AllCounted ==
  ASSUME RelayAssumed, NEW t, Relayed!Counted(t) >= ChunkCount
  PROVE  \A i \in Relayed!Chunks : stored[i].state = "acked"
<1>1. IsFiniteSet(Relayed!Chunks) /\ Cardinality(Relayed!Chunks) = ChunkCount
  BY FS_Interval DEF RelayAssumed, Relayed!Chunks
<1>2. Relayed!AckedChunks(t) \subseteq Relayed!Chunks
  BY DEF Relayed!AckedChunks
<1>3. /\ Cardinality(Relayed!AckedChunks(t)) \in Nat
      /\ Cardinality(Relayed!AckedChunks(t)) <= Cardinality(Relayed!Chunks)
      /\ Cardinality(Relayed!AckedChunks(t)) = Cardinality(Relayed!Chunks) =>
           Relayed!AckedChunks(t) = Relayed!Chunks
  BY <1>1, <1>2, FS_Subset, FS_CardinalityType
<1>4. Relayed!AckedChunks(t) = Relayed!Chunks
  BY <1>1, <1>3, SameCount DEF RelayAssumed, Relayed!Counted
<1> QED
  BY <1>4 DEF Relayed!AckedChunks

Receivers == [at : ReceiverAts, collected : SUBSET Relayed!Chunks, todo :
     SUBSET Relayed!Chunks]

LEMMA InitChunkRelay ==
  ASSUME RelayAssumed, Relayed!Init PROVE ChunkRelayInv
<1>1. ChunkCount \in Nat \ {0} /\ 1 \in Relayed!Chunks
  BY DEF RelayAssumed, Relayed!Chunks
<1>2. Relayed!NotReceiving \in Receivers
  BY DEF Relayed!NotReceiving, Receivers, ReceiverAts
<1>3. [at |-> "open", chunk |-> 1] \in [at : SenderAts, chunk : Relayed!Chunks]
  BY <1>1 DEF SenderAts
<1>4. ChunkRelayTyped
  BY <1>2, <1>3 DEF Relayed!Init, ChunkRelayTyped, ChunkRecords, Relayed!NoChunk,
     Receivers
<1> QED
  BY <1>4 DEF Relayed!Init, ChunkRelayInv, Relayed!CompletedIsCollected, SentInOrder,
     Receives, ReceiverIs, Relayed!NotReceiving, Relayed!NoChunk, Relayed!Collected

\* A step of the receiver that touches nothing else.
LEMMA ReceiverMoves ==
  ASSUME ChunkRelayInv, OnePayload, NEW t \in Transfers, NEW r \in Receivers,
         receiver' = [receiver EXCEPT ![t] = r], handedOver' \in SUBSET Transfers,
         UNCHANGED <<state, stored, sender, control, relayed>>,
         Receives(t)',
         state[t] = "completed" => t \in handedOver' \/ r.collected = Relayed!Chunks
  PROVE  ChunkRelayInv'
<1>1. receiver' \in [Transfers -> Receivers] /\ receiver'[t] = r
  BY DEF ChunkRelayInv, ChunkRelayTyped, Receivers
<1>2. ChunkRelayTyped'
  BY <1>1 DEF ChunkRelayInv, ChunkRelayTyped, Receivers
<1>3. \A u \in Transfers : SentInOrder(u)'
  BY DEF ChunkRelayInv, SentInOrder
<1>4. Relayed!CompletedIsCollected'
  BY <1>1 DEF Relayed!CompletedIsCollected, Relayed!Collected, OnePayload
<1> QED
  BY <1>2, <1>3, <1>4 DEF ChunkRelayInv, OnePayload

LEMMA SenderGoesTo ==
  ASSUME NEW s \in [at : SenderAts, chunk : Relayed!Chunks], NEW a \in SenderAts
  PROVE  /\ [s EXCEPT !.at = a] \in [at : SenderAts, chunk : Relayed!Chunks]
         /\ [s EXCEPT !.at = a].at = a /\ [s EXCEPT !.at = a].chunk = s.chunk
OBVIOUS

LEMMA SenderSteps ==
  ASSUME RelayAssumed, ChunkRelayInv, OnePayload, NEW t \in Transfers, Relayed!Send(t)
  PROVE  ChunkRelayInv'
<1> DEFINE Senders == [at : SenderAts, chunk : Relayed!Chunks]
<1>0. /\ ChunkCount \in Nat \ {0} /\ Relayed!Chunks \subseteq Nat /\ 1 \in Relayed!Chunks
      /\ sender[t] \in Senders /\ sender \in [Transfers -> Senders]
  BY DEF RelayAssumed, Relayed!Chunks, ChunkRelayInv, ChunkRelayTyped
<1>1. CASE Relayed!Open(t)
  <2>1. [at |-> "relay", chunk |-> 1] \in Senders
    BY <1>0 DEF SenderAts
  <2>2. sender' \in [Transfers -> Senders] /\ sender'[t] = [at |-> "relay", chunk |-> 1]
    BY <1>0, <1>1, <2>1 DEF Relayed!Open, Relayed!SetSender
  <2>3. ChunkRelayTyped'
    BY <1>1, <2>2 DEF Relayed!Open, ChunkRelayInv, ChunkRelayTyped,
       Relayed!TransferState, Relayed!Transferring
  <2>4. \A i \in Relayed!Chunks : stored[i].state = "none"
    BY <1>0, <1>1 DEF Relayed!Open, ChunkRelayInv, SentInOrder, Relayed!Chunks
  <2>5. SentInOrder(t)'
    BY <1>1, <2>2, <2>4 DEF Relayed!Open, ChunkRelayInv, SentInOrder
  <2>6. Receives(t)'
    BY <1>1 DEF Relayed!Open, ChunkRelayInv, ChunkRelayTyped, Receives, ReceiverIs,
       Refused
  <2> QED
    BY <1>1, <2>3, <2>5, <2>6 DEF Relayed!Open, ChunkRelayInv, ChunkRelayTyped,
       OnePayload, Relayed!CompletedIsCollected, Relayed!Collected
<1>2. CASE Relayed!Relay(t)
  <2>1. PICK s \in Senders : /\ sender' = [sender EXCEPT ![t] = s]
                            /\ s.chunk = sender[t].chunk
                            /\ s.at \in {"store", "stopped"}
    <3>1. PICK a \in SenderAts :
            /\ a = IF state[t] \in Relayed!Transferring THEN "store" ELSE "stopped"
            /\ a \in {"store", "stopped"}
      BY DEF SenderAts
    <3>2. sender' = [sender EXCEPT ![t] = [sender[t] EXCEPT !.at = a]]
      BY <1>2, <3>1 DEF Relayed!Relay, Relayed!SetSender
    <3>3. PICK s : s = [sender[t] EXCEPT !.at = a]
      OBVIOUS
    <3>4. s \in Senders /\ s.at = a /\ s.chunk = sender[t].chunk
      BY <1>0, <3>3, SenderGoesTo
    <3> QED
      BY <3>1, <3>2, <3>3, <3>4
  <2>2. sender' \in [Transfers -> Senders] /\ sender'[t] = s
    BY <1>0, <2>1
  <2>3. ChunkRelayTyped'
    BY <1>2, <2>2 DEF Relayed!Relay, ChunkRelayInv, ChunkRelayTyped
  <2>4. SentInOrder(t)'
    BY <1>2, <2>2, <2>1, <1>0 DEF Relayed!Relay, ChunkRelayInv, SentInOrder
  <2>5. Receives(t)'
    BY <1>2 DEF Relayed!Relay, ChunkRelayInv, ChunkRelayTyped, Receives, ReceiverIs,
       Refused
  <2> QED
    BY <1>2, <2>3, <2>4, <2>5 DEF Relayed!Relay, ChunkRelayInv, ChunkRelayTyped,
       OnePayload, Relayed!CompletedIsCollected, Relayed!Collected
<1>3. CASE Relayed!Store(t)
  <2>1. PICK i \in Relayed!Chunks : i = sender[t].chunk
    BY <1>0
  <2>2. PICK s \in Senders : /\ sender' = [sender EXCEPT ![t] = s]
                            /\ s.chunk = i /\ s.at = "answered"
    BY <1>0, <1>3, <2>1, SenderGoesTo DEF Relayed!Store, Relayed!SetSender, SenderAts
  <2>3. sender' \in [Transfers -> Senders] /\ sender'[t] = s
    BY <1>0, <2>2
  <2>4. PICK c \in ChunkRecords : c = [of |-> t, state |-> "received"]
    BY DEF ChunkRecords
  <2>5. /\ stored' \in [Relayed!Chunks -> ChunkRecords] /\ stored'[i] = c
        /\ \A j \in Relayed!Chunks \ {i} : stored'[j] = stored[j]
    BY <1>3, <2>1, <2>4 DEF Relayed!Store, ChunkRelayInv, ChunkRelayTyped
  <2>6. stored[i].state = "none"
    BY <1>0, <1>3, <2>1 DEF Relayed!Store, ChunkRelayInv, SentInOrder
  <2>7. /\ \A j \in Relayed!Chunks : (stored[j].state # "none" => stored'[j] = stored[j])
        /\ \A j \in Relayed!Chunks :
             (stored'[j].state = "acked" <=> stored[j].state = "acked")
        /\ stored'[i].state # "none" /\ stored'[i].of = t
    BY <2>4, <2>5, <2>6
  <2>8. ChunkRelayTyped'
    BY <1>3, <2>3, <2>5, <2>7 DEF Relayed!Store, ChunkRelayInv, ChunkRelayTyped
  <2>9. SentInOrder(t)'
    BY <1>0, <1>3, <2>1, <2>2, <2>3, <2>5, <2>7 DEF Relayed!Store, ChunkRelayInv,
       ChunkRelayTyped, SentInOrder
  <2>10. Receives(t)'
    BY <1>3, <2>6, <2>7 DEF Relayed!Store, ChunkRelayInv, ChunkRelayTyped, Receives,
       ReceiverIs, Refused
  <2> QED
    BY <1>3, <2>8, <2>9, <2>10 DEF Relayed!Store, ChunkRelayInv, OnePayload,
       Relayed!CompletedIsCollected, Relayed!Collected
<1>4. CASE Relayed!Relayed(t)
  <2>1. PICK i \in Relayed!Chunks : i = sender[t].chunk
    BY <1>0
  <2>2. i # ChunkCount => i + 1 \in Relayed!Chunks
    BY <1>0 DEF Relayed!Chunks
  <2>3. PICK s \in Senders : /\ sender' = [sender EXCEPT ![t] = s]
                            /\ \/ s.at = "stopped"
                               \/ s.at = "relay" /\ s.chunk = i + 1
    <3>1. CASE i = ChunkCount
      <4>1. [at |-> "stopped", chunk |-> i] \in Senders
        BY <1>0 DEF SenderAts
      <4> QED
        BY <1>4, <2>1, <3>1, <4>1 DEF Relayed!Relayed, Relayed!SetSender
    <3>2. CASE i # ChunkCount
      <4>1. [at |-> "relay", chunk |-> i + 1] \in Senders
        BY <2>2, <3>2 DEF SenderAts
      <4> QED
        BY <1>4, <2>1, <3>2, <4>1 DEF Relayed!Relayed, Relayed!SetSender
    <3> QED
      BY <3>1, <3>2
  <2>4. sender' \in [Transfers -> Senders] /\ sender'[t] = s
    BY <1>0, <2>3
  <2>5. relayed' = [relayed EXCEPT ![t] = @ \cup {i}]
    BY <1>4, <2>1 DEF Relayed!Relayed
  <2>6. /\ relayed' \in [Transfers -> SUBSET Relayed!Chunks] /\ relayed'[t] = relayed[t] \cup {i}
    BY <2>5 DEF ChunkRelayInv, ChunkRelayTyped
  <2>7. ChunkRelayTyped'
    BY <1>4, <2>4, <2>6 DEF Relayed!Relayed, ChunkRelayInv, ChunkRelayTyped
  <2>8. stored[i].state # "none" /\ (\A j \in Relayed!Chunks :
             j > i => stored[j].state = "none")
    BY <1>4, <2>1 DEF Relayed!Relayed, ChunkRelayInv, SentInOrder
  <2>9. \A j \in Relayed!Chunks : j >= i + 1 => j > i
    BY <1>0
  <2>10. SentInOrder(t)'
    BY <1>4, <2>3, <2>4, <2>6, <2>8, <2>9 DEF Relayed!Relayed, ChunkRelayInv,
       SentInOrder
  <2>11. Receives(t)'
    BY <1>4 DEF Relayed!Relayed, ChunkRelayInv, ChunkRelayTyped, Receives, ReceiverIs,
       Refused
  <2> QED
    BY <1>4, <2>7, <2>10, <2>11 DEF Relayed!Relayed, ChunkRelayInv, OnePayload,
       Relayed!CompletedIsCollected, Relayed!Collected
<1> QED
  BY <1>1, <1>2, <1>3, <1>4 DEF Relayed!Send

LEMMA ReceiverAt ==
  ASSUME NEW s \in Receivers, NEW a \in ReceiverAts
  PROVE  /\ [s EXCEPT !.at = a] = [at |-> a, collected |-> s.collected, todo |-> s.todo]
         /\ [s EXCEPT !.at = a] \in Receivers
<1>1. \A r \in Receivers : r = [at |-> r.at, collected |-> r.collected, todo |-> r.todo]
  BY DEF Receivers
<1>2. LET r == [s EXCEPT !.at = a]
      IN  r \in Receivers /\ r.at = a /\ r.collected = s.collected /\ r.todo = s.todo
  BY DEF Receivers
<1> QED
  BY <1>1, <1>2

LEMMA ReceiverTodo ==
  ASSUME NEW s \in Receivers, NEW T \in SUBSET Relayed!Chunks
  PROVE  /\ [s EXCEPT !.todo = T] = [at |-> s.at, collected |-> s.collected, todo |-> T]
         /\ [s EXCEPT !.todo = T] \in Receivers
<1>1. \A r \in Receivers : r = [at |-> r.at, collected |-> r.collected, todo |-> r.todo]
  BY DEF Receivers
<1>2. LET r == [s EXCEPT !.todo = T]
      IN  r \in Receivers /\ r.at = s.at /\ r.collected = s.collected /\ r.todo = T
  BY DEF Receivers
<1> QED
  BY <1>1, <1>2

LEMMA ReceiverAtTodo ==
  ASSUME NEW s \in Receivers, NEW a \in ReceiverAts, NEW T \in SUBSET Relayed!Chunks
  PROVE  /\ [s EXCEPT !.at = a, !.todo = T] = [at |-> a, collected |-> s.collected, todo |-> T]
         /\ [s EXCEPT !.at = a, !.todo = T] \in Receivers
<1>1. \A r \in Receivers : r = [at |-> r.at, collected |-> r.collected, todo |-> r.todo]
  BY DEF Receivers
<1>2. LET r == [s EXCEPT !.at = a, !.todo = T]
      IN  r \in Receivers /\ r.at = a /\ r.collected = s.collected /\ r.todo = T
  BY DEF Receivers
<1> QED
  BY <1>1, <1>2

LEMMA ReceiverCollectedAt ==
  ASSUME NEW s \in Receivers, NEW C \in SUBSET Relayed!Chunks, NEW a \in ReceiverAts
  PROVE  /\ [s EXCEPT !.collected = C, !.at = a] = [at |-> a, collected |-> C, todo |-> s.todo]
         /\ [s EXCEPT !.collected = C, !.at = a] \in Receivers
<1>1. \A r \in Receivers : r = [at |-> r.at, collected |-> r.collected, todo |-> r.todo]
  BY DEF Receivers
<1>2. LET r == [s EXCEPT !.collected = C, !.at = a]
      IN  r \in Receivers /\ r.at = a /\ r.collected = C /\ r.todo = s.todo
  BY DEF Receivers
<1> QED
  BY <1>1, <1>2

LEMMA QuietReceiverSteps ==
  ASSUME RelayAssumed, ChunkRelayInv, OnePayload, NEW t \in Transfers,
         Relayed!Receive(t) \/ Relayed!Pull(t) \/ Relayed!Collect(t) \/ Relayed!FindForAck(t) \/ Relayed!Count(t)
  PROVE  ChunkRelayInv'
<1>0. /\ receiver[t] \in Receivers /\ receiver \in [Transfers -> Receivers]
      /\ Receives(t) /\ handedOver \subseteq Transfers
      /\ state[t] = "completed" =>
           t \in handedOver \/ receiver[t].collected = Relayed!Chunks
  BY DEF ChunkRelayInv, ChunkRelayTyped, Receivers, Relayed!CompletedIsCollected,
     Relayed!Collected
<1> DEFINE Goal(r) ==
      /\ r \in Receivers
      /\ receiver' = [receiver EXCEPT ![t] = r]
      /\ UNCHANGED <<state, stored, sender, control, relayed, handedOver>>
<1>1. ASSUME NEW r, Goal(r) PROVE receiver'[t] = r
  BY <1>0, <1>1
<1>2. CASE Relayed!Receive(t)
  <2>1. PICK r : r = [at |-> "pull", collected |-> {}, todo |-> {}]
    OBVIOUS
  <2>2. Goal(r)
    <3>1. Relayed!NotReceiving \in Receivers /\ Relayed!NotReceiving.collected = {} /\ Relayed!NotReceiving.todo = {}
      BY DEF Relayed!NotReceiving, Receivers, ReceiverAts
    <3>2. "pull" \in ReceiverAts
      BY DEF ReceiverAts
    <3>3. r = [at |-> "pull", collected |-> Relayed!NotReceiving.collected,
               todo |-> Relayed!NotReceiving.todo]
      BY <2>1, <3>1
    <3>4. r = [Relayed!NotReceiving EXCEPT !.at = "pull"] /\ r \in Receivers
      BY <3>1, <3>2, <3>3, ReceiverAt
    <3> QED
      BY <1>2, <3>4 DEF Relayed!Receive, Relayed!SetReceiver
  <2>3. Receives(t)'
    BY <1>0, <1>1, <1>2, <2>1, <2>2 DEF Relayed!Receive, Receives, ReceiverIs,
       Refused, Relayed!NotReceiving
  <2>4. state[t] = "completed" => r.collected = Relayed!Chunks
    BY <1>0, <1>2, <2>1 DEF Relayed!Receive, Receives, ReceiverIs, Relayed!NotReceiving
  <2> QED
    BY <1>0, <2>2, <2>3, <2>4, ReceiverMoves
<1>3. CASE Relayed!Pull(t)
  <2>1. PICK T \in SUBSET Relayed!Chunks :
          T = {i \in Relayed!Chunks : stored[i] = [of |-> t, state |-> "received"]}
    OBVIOUS
  <2>2. PICK r : r = [at |-> "collect", collected |-> receiver[t].collected, todo |-> T]
    OBVIOUS
  <2>3. Goal(r)
    <3>1. r = [receiver[t] EXCEPT !.at = "collect", !.todo = T] /\ r \in Receivers
      BY <1>0, <2>2, ReceiverAtTodo DEF ReceiverAts
    <3> QED
      BY <1>3, <2>1, <3>1 DEF Relayed!Pull, Relayed!SetReceiver
  <2>4. \A i \in T : stored[i].state = "received"
    BY <2>1
  <2>5. (\A i \in Relayed!Chunks : stored[i].state = "acked") => T = {}
    BY <2>1
  <2>6. Receives(t)'
    BY <1>0, <1>1, <1>3, <2>2, <2>3, <2>4, <2>5 DEF Relayed!Pull, Receives,
       ReceiverIs, Refused
  <2> QED
    BY <1>0, <2>2, <2>3, <2>6, ReceiverMoves
<1>4. CASE Relayed!Collect(t)
  <2>1. PICK a \in {"loop", "ack"} :
          a = IF receiver[t].todo = {} THEN "loop" ELSE "ack"
    OBVIOUS
  <2>2. PICK r : r = [at |-> a, collected |-> receiver[t].collected \cup receiver[t].todo,
                      todo |-> receiver[t].todo]
    OBVIOUS
  <2>3. Goal(r)
    <3>1. receiver[t].collected \cup receiver[t].todo \in SUBSET Relayed!Chunks
      BY <1>0 DEF Receivers
    <3>2. /\ r = [receiver[t] EXCEPT
                   !.collected = receiver[t].collected \cup receiver[t].todo, !.at = a]
          /\ r \in Receivers
      <4>1. a \in ReceiverAts
        BY <2>1 DEF ReceiverAts
      <4> QED
        BY <1>0, <2>2, <3>1, <4>1, ReceiverCollectedAt
    <3> QED
      BY <1>4, <2>1, <3>2 DEF Relayed!Collect, Relayed!SetReceiver
  <2>4. Receives(t)'
    BY <1>0, <1>1, <1>4, <2>1, <2>2, <2>3 DEF Relayed!Collect, Receives, ReceiverIs,
       Refused
  <2> QED
    BY <1>0, <2>2, <2>3, <2>4, ReceiverMoves DEF Receivers
<1>5. CASE Relayed!FindForAck(t)
  <2>1. PICK i \in Relayed!Chunks :
             i = Relayed!Min(receiver[t].todo) /\ i \in receiver[t].todo
    BY <1>0, <1>5, LeastChunk DEF Relayed!FindForAck, Receivers
  <2>2. PICK r \in Receivers :
          /\ receiver' = [receiver EXCEPT ![t] = r]
          /\ r.collected = receiver[t].collected
          /\ \/ r.at = "mark" /\ r.todo = receiver[t].todo
             \/ r.at = "ack" /\ r.todo = receiver[t].todo \ {i}
    <3>1. CASE Relayed!Chunk(t, i) /\ stored[i].state # "acked"
      <4>1. PICK r : r = [at |-> "mark", collected |-> receiver[t].collected,
                          todo |-> receiver[t].todo]
        OBVIOUS
      <4>2. r \in Receivers /\ receiver' = [receiver EXCEPT ![t] = r]
        <5>1. r = [receiver[t] EXCEPT !.at = "mark"] /\ r \in Receivers
          BY <1>0, <4>1, ReceiverAt DEF ReceiverAts
        <5> QED
          BY <1>5, <2>1, <3>1, <5>1 DEF Relayed!FindForAck, Relayed!SetReceiver
      <4> QED
        BY <4>1, <4>2
    <3>2. CASE ~ (Relayed!Chunk(t, i) /\ stored[i].state # "acked")
      <4>1. PICK r : r = [at |-> "ack", collected |-> receiver[t].collected,
                          todo |-> receiver[t].todo \ {i}]
        OBVIOUS
      <4>2. r \in Receivers /\ receiver' = [receiver EXCEPT ![t] = r]
        <5>1. receiver[t].todo \ {i} \in SUBSET Relayed!Chunks /\ receiver[t].at = "ack"
          BY <1>0, <1>5 DEF Relayed!FindForAck, Receivers
        <5>2. PICK T \in SUBSET Relayed!Chunks : T = receiver[t].todo \ {i}
          BY <5>1
        <5>3. r = [at |-> receiver[t].at, collected |-> receiver[t].collected, todo |-> T]
          BY <4>1, <5>1, <5>2
        <5>4. r = [receiver[t] EXCEPT !.todo = T] /\ r \in Receivers
          BY <1>0, <5>3, ReceiverTodo
        <5>5. receiver' = [receiver EXCEPT ![t] = [receiver[t] EXCEPT !.todo = T]]
          BY <1>5, <2>1, <3>2, <5>2 DEF Relayed!FindForAck, Relayed!SetReceiver
        <5> QED
          BY <5>4, <5>5
      <4> QED
        BY <4>1, <4>2
    <3> QED
      BY <3>1, <3>2
  <2>3. Goal(r)
    BY <1>5, <2>2 DEF Relayed!FindForAck
  <2>4. receiver[t].at = "ack"
    BY <1>5 DEF Relayed!FindForAck
  <2>5. Receives(t)'
    BY <1>0, <1>1, <2>1, <2>2, <2>3, <2>4 DEF Receives, ReceiverIs, Refused
  <2> QED
    BY <1>0, <2>2, <2>3, <2>5, ReceiverMoves
<1>6. CASE Relayed!Count(t)
  <2>1. PICK a \in {"update", "loop"} :
          a = IF Relayed!Counted(t) >= ChunkCount THEN "update" ELSE "loop"
    OBVIOUS
  <2>2. PICK r : r = [at |-> a, collected |-> receiver[t].collected,
                      todo |-> receiver[t].todo]
    OBVIOUS
  <2>3. Goal(r)
    <3>1. r = [receiver[t] EXCEPT !.at = a] /\ r \in Receivers
      <4>1. a \in ReceiverAts
        BY DEF ReceiverAts
      <4> QED
        BY <1>0, <2>2, <4>1, ReceiverAt
    <3> QED
      BY <1>6, <2>1, <3>1 DEF Relayed!Count, Relayed!SetReceiver
  <2>4. a = "update" => \A i \in Relayed!Chunks : stored[i].state = "acked"
    BY <2>1, AllCounted
  <2>5. receiver[t].at = "ack"
    BY <1>6 DEF Relayed!Count
  <2>6. Receives(t)'
    BY <1>0, <1>1, <2>2, <2>3, <2>4, <2>5 DEF Receives, ReceiverIs, Refused
  <2> QED
    BY <1>0, <2>2, <2>3, <2>6, ReceiverMoves
<1> QED
  BY <1>2, <1>3, <1>4, <1>5, <1>6

LEMMA WritingReceiverSteps ==
  ASSUME RelayAssumed, ChunkRelayInv, OnePayload, NEW t \in Transfers,
         Relayed!MarkAcked(t) \/ Relayed!Update(t) \/ Relayed!Complete(t) \/ Relayed!Loop(t)
  PROVE  ChunkRelayInv'
<1>0. /\ receiver[t] \in Receivers /\ receiver \in [Transfers -> Receivers]
      /\ Receives(t) /\ SentInOrder(t) /\ ChunkRelayTyped
      /\ state[t] = "completed" =>
           t \in handedOver \/ receiver[t].collected = Relayed!Chunks
      /\ t \in handedOver => ~ ReceiverIs(t, {"mark", "update", "complete", "loop"})
  BY DEF ChunkRelayInv, ChunkRelayTyped, Receivers, Relayed!CompletedIsCollected,
     Relayed!Collected, Receives, ReceiverIs
<1>1. ASSUME NEW r \in Receivers, receiver' = [receiver EXCEPT ![t] = r]
      PROVE receiver'[t] = r /\ receiver' \in [Transfers -> Receivers]
  BY <1>0, <1>1
<1>2. (\A i \in Relayed!Chunks :
           stored[i].state = "acked") /\ ReceiverIs(t, {"update", "complete"})
      => receiver[t].collected = Relayed!Chunks
  BY <1>0 DEF Receives, ReceiverIs, Refused, Receivers
<1>3. CASE Relayed!MarkAcked(t)
  <2>1. PICK i \in Relayed!Chunks :
             i = Relayed!Min(receiver[t].todo) /\ i \in receiver[t].todo
    BY <1>0, <1>3, LeastChunk DEF Relayed!MarkAcked, Receivers, Receives, ReceiverIs
  <2>2. PICK r : r = [at |-> "ack", collected |-> receiver[t].collected,
                      todo |-> receiver[t].todo \ {i}]
    OBVIOUS
  <2>3. r \in Receivers /\ receiver' = [receiver EXCEPT ![t] = r]
    <3>1. receiver[t].todo \ {i} \in SUBSET Relayed!Chunks
      BY <1>0 DEF Receivers
    <3>2. r = [receiver[t] EXCEPT !.at = "ack", !.todo = receiver[t].todo \ {i}]
          /\ r \in Receivers
      BY <1>0, <2>2, <3>1, ReceiverAtTodo DEF ReceiverAts
    <3> QED
      BY <1>3, <2>1, <3>2 DEF Relayed!MarkAcked, Relayed!SetReceiver
  <2>4. /\ stored' = [stored EXCEPT ![i].state = "acked"]
        /\ UNCHANGED <<state, sender, control, relayed, handedOver>>
        /\ receiver[t].at = "mark"
    BY <1>3, <2>1 DEF Relayed!MarkAcked
  <2>5. /\ stored[i].state # "none" /\ i \in receiver[t].collected
        /\ receiver[t].todo \subseteq receiver[t].collected
        /\ \A j \in receiver[t].todo : stored[j].state # "none"
    BY <1>0, <2>1, <2>4 DEF Receives, ReceiverIs
  <2>6. stored' \in [Relayed!Chunks -> ChunkRecords]
    BY <1>0, <2>4 DEF ChunkRelayTyped, ChunkRecords
  <2>7. /\ stored'[i].state = "acked" /\ stored'[i].of = stored[i].of
        /\ \A j \in Relayed!Chunks \ {i} : stored'[j] = stored[j]
    BY <1>0, <2>4 DEF ChunkRelayTyped, ChunkRecords
  <2>8. \A j \in Relayed!Chunks : /\ stored'[j].of = stored[j].of
                                  /\ stored'[j].state = "none" <=> stored[j].state = "none"
                                  /\ stored[j].state = "acked" => stored'[j].state = "acked"
    BY <2>5, <2>7
  <2>9. ChunkRelayTyped'
    BY <1>0, <1>1, <2>3, <2>4, <2>6, <2>8 DEF ChunkRelayTyped, Receivers
  <2>10. SentInOrder(t)'
    BY <1>0, <2>4, <2>8 DEF ChunkRelayTyped, SentInOrder
  <2>11. Receives(t)'
    BY <1>0, <1>1, <2>2, <2>3, <2>4, <2>5, <2>7, <2>8 DEF Receives, ReceiverIs,
       Refused, Receivers
  <2>12. Relayed!CompletedIsCollected'
    BY <1>0, <1>1, <2>2, <2>3, <2>4 DEF Relayed!CompletedIsCollected,
       Relayed!Collected, OnePayload
  <2> QED
    BY <2>9, <2>10, <2>11, <2>12 DEF ChunkRelayInv, OnePayload
<1>4. CASE Relayed!Update(t)
  <2>1. /\ UNCHANGED <<state, stored, sender, control, relayed, handedOver>>
        /\ receiver[t].at = "update"
    BY <1>4 DEF Relayed!Update
  <2>2. CASE state[t] \in Relayed!Ended \/ Relayed!CanMove(state[t], "completed")
    <3>1. PICK a \in {"loop", "complete"} :
            a = IF state[t] \in Relayed!Ended THEN "loop" ELSE "complete"
      OBVIOUS
    <3>2. PICK r : r = [at |-> a, collected |-> receiver[t].collected,
                        todo |-> receiver[t].todo]
      OBVIOUS
    <3>3. r \in Receivers /\ receiver' = [receiver EXCEPT ![t] = r]
      <4>1. r = [receiver[t] EXCEPT !.at = a] /\ r \in Receivers
        <5>1. a \in ReceiverAts
          BY DEF ReceiverAts
        <5> QED
          BY <1>0, <3>2, <5>1, ReceiverAt
      <4> QED
        BY <1>4, <2>2, <3>1, <4>1 DEF Relayed!Update, Relayed!SetReceiver
    <3>4. Receives(t)'
      BY <1>0, <1>1, <2>1, <3>2, <3>3 DEF Receives, ReceiverIs, Refused
    <3> QED
      BY <1>0, <2>1, <3>2, <3>3, <3>4, ReceiverMoves DEF ChunkRelayTyped
  <2>3. CASE ~ (state[t] \in Relayed!Ended \/ Relayed!CanMove(state[t], "completed"))
    <3>1. PICK r : r = Relayed!NotReceiving
      OBVIOUS
    <3>2. r \in Receivers /\ receiver' = [receiver EXCEPT ![t] = r]
      BY <1>4, <2>3, <3>1 DEF Relayed!Update, Relayed!SetReceiver, Receivers,
         ReceiverAts, Relayed!NotReceiving
    <3>3. state[t] # "completed" /\ state[t] \notin {"active", "reassembling"}
      BY <2>3 DEF Relayed!Ended, Relayed!CanMove, Relayed!Successors
    <3>4. "paused" \in Controls
      BY <1>0, <2>1, <2>3, <3>3 DEF Receives, ReceiverIs, ChunkRelayTyped,
         Relayed!TransferState, Relayed!Transferring
    <3>5. Receives(t)'
      BY <1>0, <1>1, <2>1, <3>1, <3>2, <3>3, <3>4 DEF Receives, ReceiverIs, Refused,
         Relayed!NotReceiving
    <3> QED
      BY <1>0, <2>1, <3>1, <3>2, <3>3, <3>5, ReceiverMoves DEF ChunkRelayTyped
  <2> QED
    BY <2>2, <2>3
<1>5. CASE Relayed!Complete(t)
  <2>1. PICK r : r = [at |-> "loop", collected |-> receiver[t].collected,
                      todo |-> receiver[t].todo]
    OBVIOUS
  <2>2. r \in Receivers /\ receiver' = [receiver EXCEPT ![t] = r]
    <3>1. r = [receiver[t] EXCEPT !.at = "loop"] /\ r \in Receivers
      BY <1>0, <2>1, ReceiverAt DEF ReceiverAts
    <3> QED
      BY <1>5, <3>1 DEF Relayed!Complete, Relayed!SetReceiver
  <2>3. /\ state' = [state EXCEPT ![t] = "completed"] /\ receiver[t].at = "complete"
        /\ UNCHANGED <<stored, sender, control, relayed, handedOver>>
    BY <1>5 DEF Relayed!Complete
  <2>4. state' \in [Transfers -> Relayed!TransferState \cup {"none"}] /\ state'[t] = "completed"
    BY <1>0, <2>3 DEF ChunkRelayTyped, Relayed!TransferState, Relayed!Ended
  <2>5. receiver[t].collected = Relayed!Chunks
    BY <1>0, <1>2, <2>3 DEF Receives, ReceiverIs
  <2>6. ChunkRelayTyped'
    BY <1>0, <1>1, <2>2, <2>3, <2>4 DEF ChunkRelayTyped, Receivers
  <2>7. SentInOrder(t)'
    BY <1>0, <2>3 DEF SentInOrder
  <2>8. Receives(t)'
    BY <1>0, <1>1, <2>1, <2>2, <2>3, <2>4, <2>5 DEF Receives, ReceiverIs
  <2>9. Relayed!CompletedIsCollected'
    BY <1>1, <2>1, <2>2, <2>5 DEF Relayed!CompletedIsCollected, Relayed!Collected,
       OnePayload
  <2> QED
    BY <2>6, <2>7, <2>8, <2>9 DEF ChunkRelayInv, OnePayload
<1>6. CASE Relayed!Loop(t)
  <2>1. CASE Relayed!Collected(t) = Relayed!Chunks
    <3>1. PICK r : r = Relayed!NotReceiving
      OBVIOUS
    <3>2. /\ r \in Receivers /\ receiver' = [receiver EXCEPT ![t] = r]
          /\ handedOver' = handedOver \cup {t} /\ handedOver' \in SUBSET Transfers
      BY <1>0, <1>6, <2>1, <3>1 DEF Relayed!Loop, Relayed!SetReceiver, Receivers,
         ReceiverAts, Relayed!NotReceiving, ChunkRelayTyped
    <3>3. Receives(t)'
      BY <1>0, <1>1, <1>6, <3>1, <3>2 DEF Relayed!Loop, Receives, ReceiverIs,
         Relayed!NotReceiving
    <3> QED
      BY <1>6, <3>2, <3>3, ReceiverMoves DEF Relayed!Loop
  <2>2. CASE Relayed!Collected(t) # Relayed!Chunks
    <3>1. PICK r : r = [at |-> "pull", collected |-> receiver[t].collected,
                        todo |-> receiver[t].todo]
      OBVIOUS
    <3>2. /\ r \in Receivers /\ receiver' = [receiver EXCEPT ![t] = r]
          /\ handedOver' = handedOver /\ handedOver' \in SUBSET Transfers
      BY <1>0, <1>6, <2>2, <3>1 DEF Relayed!Loop, Relayed!SetReceiver, Receivers,
         ReceiverAts, ChunkRelayTyped
    <3>3. Receives(t)'
      BY <1>0, <1>1, <1>6, <3>1, <3>2 DEF Relayed!Loop, Receives, ReceiverIs, Refused
    <3> QED
      BY <1>0, <1>6, <3>1, <3>2, <3>3, ReceiverMoves DEF Relayed!Loop
  <2> QED
    BY <2>1, <2>2
<1> QED
  BY <1>3, <1>4, <1>5, <1>6

LEMMA ControlSteps ==
  ASSUME RelayAssumed, ChunkRelayInv, OnePayload, Relayed!Answer \/ \E t \in Transfers,
         to \in Controls : Relayed!Ask(t, to)
  PROVE  ChunkRelayInv'
<1>1. ASSUME NEW t \in Transfers, NEW to \in Controls, Relayed!Ask(t, to)
      PROVE ChunkRelayInv'
  <2>1. /\ control' \in [of : Transfers, state : Controls]
        /\ UNCHANGED <<state, stored, sender, receiver, relayed, handedOver>>
    BY <1>1 DEF Relayed!Ask
  <2> QED
    BY <2>1 DEF ChunkRelayInv, ChunkRelayTyped, SentInOrder, Receives, ReceiverIs,
       Refused, Relayed!CompletedIsCollected, Relayed!Collected
<1>2. ASSUME Relayed!Answer PROVE ChunkRelayInv'
  <2>1. control \in [of : Transfers, state : Controls]
    BY <1>2 DEF Relayed!Answer, ChunkRelayInv, ChunkRelayTyped
  <2>2. PICK t \in Transfers, to \in Controls : control.of = t /\ control.state = to
    BY <2>1
  <2>3. /\ state' = [state EXCEPT ![t] = to] /\ control' = Relayed!NoChunk
        /\ UNCHANGED <<stored, sender, receiver, relayed, handedOver>>
    BY <1>2, <2>2 DEF Relayed!Answer
  <2>4. to \in {"paused", "active", "cancelled"}
    BY DEF RelayAssumed, Relayed!ChunkRelayAssumption
  <2>5. state' \in [Transfers -> Relayed!TransferState \cup {"none"}] /\ state'[t] = to
    BY <2>3, <2>4 DEF ChunkRelayInv, ChunkRelayTyped, Relayed!TransferState,
       Relayed!Transferring, Relayed!Ended
  <2>6. ChunkRelayTyped'
    BY <2>3, <2>5 DEF ChunkRelayInv, ChunkRelayTyped
  <2>7. SentInOrder(t)'
    BY <2>3 DEF ChunkRelayInv, SentInOrder
  <2>8. Receives(t)'
    BY <2>2, <2>3, <2>4, <2>5 DEF ChunkRelayInv, Receives, ReceiverIs, Refused
  <2>9. Relayed!CompletedIsCollected'
    BY <2>4, <2>5 DEF Relayed!CompletedIsCollected, OnePayload
  <2> QED
    BY <2>6, <2>7, <2>8, <2>9 DEF ChunkRelayInv, OnePayload
<1> QED
  BY <1>1, <1>2

LEMMA ChunkRelayStep ==
  ASSUME RelayAssumed, ChunkRelayInv, OnePayload, [Relayed!Next]_Relayed!vars
  PROVE  ChunkRelayInv'
<1>1. CASE UNCHANGED Relayed!vars
  BY <1>1 DEF Relayed!vars, ChunkRelayInv, ChunkRelayTyped, SentInOrder, Receives,
     ReceiverIs, Refused, Relayed!CompletedIsCollected, Relayed!Collected
<1>2. ASSUME NEW t \in Transfers, Relayed!Send(t) \/ Relayed!Take(t) \/ Relayed!Fail(t)
      PROVE  ChunkRelayInv'
  BY <1>2, SenderSteps, QuietReceiverSteps, WritingReceiverSteps DEF Relayed!Take,
     Relayed!Fail, OnePayload
<1>3. CASE Relayed!Answer \/ \E t \in Transfers, to \in Controls : Relayed!Ask(t, to)
  BY <1>3, ControlSteps
<1> QED
  BY <1>1, <1>2, <1>3 DEF Relayed!Next

LEMMA ChunkRelayMeans ==
  ASSUME ChunkRelayInv, OnePayload
  PROVE  /\ Relayed!CompletedIsCollected /\ Relayed!TypeOK
         /\ "paused" \notin Controls => Relayed!RelayedIsKept
<1>1. Relayed!TypeOK
  BY DEF ChunkRelayInv, ChunkRelayTyped, Relayed!TypeOK, ChunkRecords, SenderAts,
     ReceiverAts, Relayed!Collected
<1>2. ASSUME "paused" \notin Controls PROVE Relayed!RelayedIsKept
  <2> SUFFICES ASSUME NEW t \in Transfers, NEW i \in relayed[t],
                      i \notin Relayed!Collected(t), t \notin handedOver
               PROVE stored[i] = [of |-> t, state |-> "received"]
    BY DEF Relayed!RelayedIsKept
  <2>1. i \in Relayed!Chunks /\ stored[i] \in ChunkRecords
    BY DEF ChunkRelayInv, ChunkRelayTyped
  <2>2. stored[i].state # "none" /\ stored[i].state # "acked"
    BY <1>2, <2>1 DEF ChunkRelayInv, SentInOrder, Receives, Refused, Relayed!Collected
  <2>3. stored[i].of \in Transfers
    BY <2>1, <2>2 DEF ChunkRelayInv, ChunkRelayTyped
  <2>4. stored[i].of = t
    BY <2>3 DEF OnePayload
  <2> QED
    BY <2>1, <2>2, <2>4 DEF ChunkRecords
<1> QED
  BY <1>1, <1>2 DEF ChunkRelayInv

\* A transfer that the relay calls completed was collected to the last chunk.
THEOREM CompletedWasCollected ==
  ASSUME RelayAssumed, OnePayload PROVE Relayed!Spec => []Relayed!CompletedIsCollected
BY InitChunkRelay, ChunkRelayStep, ChunkRelayMeans, PTL DEF Relayed!Spec

\* What the relay has accepted can be pulled until the receiver has it.
THEOREM AcceptedIsKept ==
  ASSUME RelayAssumed, OnePayload, "paused" \notin Controls
  PROVE  Relayed!Spec => []Relayed!RelayedIsKept
BY InitChunkRelay, ChunkRelayStep, ChunkRelayMeans, PTL DEF Relayed!Spec

-----------------------------------------------------------------------------
OpAts == {"idle", "begin", "queued", "run", "complete", "recover", "refused",
          "resume", "resumed", "failed"}
OpRecords == [at : OpAts, attempt : Nat]
Breakers == [state : {"closed", "open", "half-open"}, failures : 0..FailureThreshold,
             trials : 0..SuccessThreshold, ripe : BOOLEAN]

OperationsTyped ==
  /\ breaker \in Breakers
  /\ active \in 0..MaxConcurrent /\ queue \in Seq(Operators)
  /\ ops \in [Operators -> OpRecords]
  /\ record \in [Operators -> Operations!Closed \cup {"running", "recovering"}]
  /\ failing \in BOOLEAN /\ swept \subseteq Operators /\ crashes \in 0..MaxCrashes

\* Everybody who waits is in the queue once, everybody with a slot is counted.
Once(q) == \A i, j \in DOMAIN q : q[i] = q[j] => i = j
Waiting(q) == {q[i] : i \in DOMAIN q}
SlotsHeld ==
  /\ IsFiniteSet(Operations!Holding) /\ active = Cardinality(Operations!Holding)
  /\ queue # <<>> => active = MaxConcurrent
  /\ Len(queue) <= MaxQueue
  /\ Once(queue)
  /\ \A c \in Operators : c \in Waiting(queue) <=> Operations!At(c) = "queued"

OperationsInv == OperationsTyped /\ SlotsHeld

LEMMA InitOperations ==
  ASSUME Operations!ReliableOperationsAssumption, Operations!Init PROVE OperationsInv
<1>1. Operations!Fresh \in Breakers
  BY DEF Operations!Fresh, Breakers, Operations!ReliableOperationsAssumption
<1>2. Operations!Idle \in OpRecords /\ Operations!Idle.at = "idle"
  BY DEF Operations!Idle, OpRecords, OpAts
<1>3. OperationsTyped
  BY <1>1, <1>2 DEF Operations!Init, OperationsTyped, Operations!Closed,
     Operations!ReliableOperationsAssumption
<1>4. Operations!Holding = {}
  BY <1>2 DEF Operations!Init, Operations!Holding, Operations!At
<1>5. IsFiniteSet({}) /\ Cardinality({}) = 0
  BY FS_EmptySet, ZenonT(20)
<1>6. Len(<<>>) = 0 /\ DOMAIN <<>> = {}
  OBVIOUS
<1>7. Waiting(queue) = {} /\ Once(queue)
  BY <1>6 DEF Operations!Init, Waiting, Once
<1> QED
  BY <1>2, <1>3, <1>4, <1>5, <1>6, <1>7 DEF Operations!Init, OperationsInv, SlotsHeld,
     Operations!At, Operations!ReliableOperationsAssumption

LEMMA BreakerTyped ==
  ASSUME Operations!ReliableOperationsAssumption, breaker \in Breakers
  PROVE  /\ Operations!AfterSuccess(breaker) \in Breakers
         /\ \A class : Operations!AfterFailure(breaker, class) \in Breakers
<1>1. Operations!Fresh \in Breakers
  BY DEF Operations!Fresh, Breakers, Operations!ReliableOperationsAssumption
<1>2. \A b \in Breakers : Operations!Tripped(b) \in Breakers
  BY DEF Operations!Tripped, Breakers
<1>3. Operations!AfterSuccess(breaker) \in Breakers
  BY <1>1 DEF Operations!AfterSuccess, Breakers, Operations!ReliableOperationsAssumption
<1>4. ASSUME NEW class PROVE Operations!AfterFailure(breaker, class) \in Breakers
  <2>1. [breaker EXCEPT !.failures = FailureThreshold] \in Breakers
    BY DEF Breakers, Operations!ReliableOperationsAssumption
  <2>2. breaker.failures + 1 < FailureThreshold =>
          [breaker EXCEPT !.failures = @ + 1] \in Breakers
    BY DEF Breakers, Operations!ReliableOperationsAssumption
  <2>3. breaker.failures + 1 >= FailureThreshold \/ breaker.failures + 1 < FailureThreshold
    BY DEF Breakers, Operations!ReliableOperationsAssumption
  <2> QED
    BY <1>2, <2>1, <2>2, <2>3 DEF Operations!AfterFailure
<1> QED
  BY <1>3, <1>4

LEMMA WaitingMore ==
  ASSUME NEW q \in Seq(Operators), Once(q), NEW c \in Operators, c \notin Waiting(q)
  PROVE  /\ Append(q, c) \in Seq(Operators) /\ Len(Append(q, c)) = Len(q) + 1
         /\ Once(Append(q, c))
         /\ Waiting(Append(q, c)) = Waiting(q) \cup {c}
<1>1. /\ Append(q, c) \in Seq(Operators) /\ Len(Append(q, c)) = Len(q) + 1 /\ Len(q) \in Nat
      /\ DOMAIN q = 1..Len(q) /\ DOMAIN Append(q, c) = 1..(Len(q) + 1)
      /\ \A i \in 1..Len(q) : Append(q, c)[i] = q[i]
      /\ Append(q, c)[Len(q) + 1] = c
  BY AppendProperties
<1>2. PICK p : p = Append(q, c)
  OBVIOUS
<1>3. \A i \in 1..Len(q) : q[i] # c
  BY <1>1 DEF Waiting
<1>4. 1..(Len(q) + 1) = 1..Len(q) \cup {Len(q) + 1} /\ Len(q) + 1 \notin 1..Len(q)
  BY <1>1
<1>5. Once(p)
  BY <1>1, <1>2, <1>3, <1>4 DEF Once
<1>6. Waiting(p) = Waiting(q) \cup {c}
  BY <1>1, <1>2, <1>4 DEF Waiting
<1> QED
  BY <1>1, <1>2, <1>5, <1>6

LEMMA WaitingLess ==
  ASSUME NEW q \in Seq(Operators), Once(q), q # <<>>
  PROVE  /\ Head(q) \in Operators /\ Head(q) \in Waiting(q)
         /\ Tail(q) \in Seq(Operators) /\ Len(Tail(q)) = Len(q) - 1 /\ Len(q) \in Nat \ {0}
         /\ Once(Tail(q))
         /\ Waiting(Tail(q)) = Waiting(q) \ {Head(q)}
<1>1. /\ Head(q) \in Operators /\ Tail(q) \in Seq(Operators)
      /\ Len(q) \in Nat \ {0} /\ Len(Tail(q)) = Len(q) - 1
      /\ DOMAIN q = 1..Len(q) /\ DOMAIN Tail(q) = 1..(Len(q) - 1)
      /\ Head(q) = q[1]
      /\ \A i \in 1..(Len(q) - 1) : Tail(q)[i] = q[i + 1]
  BY HeadTailProperties
<1>2. PICK p, h : p = Tail(q) /\ h = q[1]
  OBVIOUS
<1>3. \A i \in 1..(Len(q) - 1) : i + 1 \in 1..Len(q) /\ i + 1 # 1
  BY <1>1
<1>4. \A i \in 1..Len(q) : i # 1 => i - 1 \in 1..(Len(q) - 1) /\ (i - 1) + 1 = i
  BY <1>1
<1>5. 1 \in 1..Len(q)
  BY <1>1
<1>6. Once(p)
  <2> SUFFICES ASSUME NEW i \in 1..(Len(q) - 1), NEW j \in 1..(Len(q) - 1), p[i] = p[j]
               PROVE i = j
    BY <1>1, <1>2 DEF Once
  <2>1. q[i + 1] = q[j + 1]
    BY <1>1, <1>2
  <2>2. i + 1 = j + 1
    BY <1>1, <1>3, <2>1 DEF Once
  <2> QED
    BY <2>2
<1>7. ASSUME NEW x \in Waiting(p) PROVE x \in Waiting(q) /\ x # h
  <2>1. PICK i \in 1..(Len(q) - 1) : x = q[i + 1]
    BY <1>1, <1>2, <1>7 DEF Waiting
  <2> QED
    BY <1>1, <1>2, <1>3, <1>5, <2>1 DEF Waiting, Once
<1>8. ASSUME NEW x \in Waiting(q), x # h PROVE x \in Waiting(p)
  <2>1. PICK i \in 1..Len(q) : x = q[i]
    BY <1>1, <1>8 DEF Waiting
  <2>2. i # 1
    BY <1>2, <1>8, <2>1
  <2>3. i - 1 \in 1..(Len(q) - 1) /\ p[i - 1] = x
    BY <1>1, <1>2, <1>4, <2>1, <2>2
  <2> QED
    BY <1>1, <1>2, <2>3 DEF Waiting
<1>9. Waiting(p) = Waiting(q) \ {h}
  BY <1>7, <1>8
<1>10. Head(q) = h /\ h \in Waiting(q)
  BY <1>1, <1>2, <1>5 DEF Waiting
<1> QED
  BY <1>1, <1>2, <1>6, <1>9, <1>10

\* A step at which nobody gets or leaves a slot or a place in the queue.
LEMMA SlotsStay ==
  ASSUME OperationsInv, ops' \in [Operators -> OpRecords],
         \A c \in Operators : \/ ops'[c].at = ops[c].at
                              \/ /\ ops[c].at \notin {"run", "queued"}
                                 /\ ops'[c].at \notin {"run", "queued"},
         active' = active, queue' = queue,
         breaker' \in Breakers,
         record' \in [Operators -> Operations!Closed \cup {"running", "recovering"}],
         failing' \in BOOLEAN, swept' \subseteq Operators, crashes' \in 0..MaxCrashes
  PROVE  OperationsInv'
<1>1. Operations!Holding' = Operations!Holding
  BY DEF Operations!Holding, Operations!At, OperationsInv
<1>2. \A c \in Operators : ops'[c].at = "queued" <=> ops[c].at = "queued"
  OBVIOUS
<1>3. Waiting(queue)' = Waiting(queue) /\ (Once(queue)' <=> Once(queue))
  BY DEF Waiting, Once
<1>4. OperationsTyped'
  BY DEF OperationsInv, OperationsTyped
<1>5. (IsFiniteSet(Operations!Holding) /\ active = Cardinality(Operations!Holding))'
  BY <1>1 DEF OperationsInv, SlotsHeld
<1> QED
  BY <1>2, <1>3, <1>4, <1>5 DEF OperationsInv, SlotsHeld, Operations!At

LEMMA GoTyped ==
  ASSUME ops \in [Operators -> OpRecords], NEW c \in Operators, NEW at \in OpAts,
         Operations!Go(c, at)
  PROVE  /\ ops' \in [Operators -> OpRecords] /\ ops'[c].at = at
         /\ \A d \in Operators \ {c} : ops'[d] = ops[d]
<1>1. PICK r \in OpRecords : r = [at |-> at, attempt |-> 1]
  BY DEF OpRecords
<1>2. ops' = [ops EXCEPT ![c] = r] /\ r.at = at
  BY <1>1 DEF Operations!Go
<1> QED
  BY <1>2

LEMMA LeaveStep ==
  ASSUME Operations!ReliableOperationsAssumption, OperationsInv, NEW c \in Operators,
         ops[c].at = "run",
         NEW at \in OpAts \ {"run", "queued"}, Operations!Leave(c, at),
         breaker' \in Breakers, UNCHANGED <<record, failing, swept, crashes>>
  PROVE  OperationsInv'
<1>0. /\ OperationsTyped /\ SlotsHeld /\ ops \in [Operators -> OpRecords]
      /\ queue \in Seq(Operators) /\ Once(queue)
      /\ c \in Operations!Holding /\ IsFiniteSet(Operations!Holding) /\ active = Cardinality(Operations!Holding)
      /\ active \in 0..MaxConcurrent /\ MaxConcurrent \in Nat
  BY DEF OperationsInv, SlotsHeld, OperationsTyped, Operations!Holding, Operations!At,
     Operations!ReliableOperationsAssumption
<1>1. CASE queue = <<>>
  <2>1. /\ active' = active - 1 /\ queue' = queue /\ Operations!Go(c, at)
    BY <1>1 DEF Operations!Leave
  <2>2. /\ ops' \in [Operators -> OpRecords] /\ ops'[c].at = at
        /\ \A d \in Operators \ {c} : ops'[d] = ops[d]
    BY <1>0, <2>1, GoTyped
  <2>3. Operations!Holding' = Operations!Holding \ {c}
    BY <2>2 DEF Operations!Holding, Operations!At
  <2>4. /\ IsFiniteSet(Operations!Holding \ {c})
        /\ Cardinality(Operations!Holding \ {c}) = Cardinality(Operations!Holding) - 1
        /\ Cardinality(Operations!Holding \ {c}) \in Nat
    BY <1>0, FS_RemoveElement, FS_CardinalityType
  <2>5. (IsFiniteSet(Operations!Holding) /\ active = Cardinality(Operations!Holding))' /\ active' \in 0..MaxConcurrent
    BY <1>0, <2>1, <2>3, <2>4
  <2>6. OperationsTyped'
    BY <1>0, <2>1, <2>2, <2>5 DEF OperationsTyped
  <2>7. \A d \in Operators : ops'[d].at = "queued" <=> ops[d].at = "queued"
    BY <2>2
  <2>8. Waiting(queue)' = Waiting(queue) /\ (Once(queue)' <=> Once(queue))
    BY <2>1 DEF Waiting, Once
  <2> QED
    BY <1>0, <1>1, <2>1, <2>5, <2>6, <2>7, <2>8 DEF OperationsInv, SlotsHeld,
       Operations!At
<1>2. CASE queue # <<>>
  <2>1. PICK h \in Operators : h = Head(queue) /\ h \in Waiting(queue)
    BY <1>0, <1>2, WaitingLess
  <2>2. ops[h].at = "queued" /\ h # c
    BY <1>0, <2>1 DEF SlotsHeld, Operations!At
  <2>3. PICK r \in OpRecords, s \in OpRecords :
          r = [at |-> at, attempt |-> 1] /\ s = [at |-> "run", attempt |-> 1]
    BY DEF OpRecords, OpAts
  <2>4. ops' = [ops EXCEPT ![c] = r, ![h] = s] /\ r.at = at /\ s.at = "run"
    BY <1>2, <2>1, <2>3 DEF Operations!Leave
  <2>5. active' = active /\ queue' = Tail(queue)
    BY <1>2 DEF Operations!Leave
  <2>6. /\ ops' \in [Operators -> OpRecords] /\ ops'[c].at = at /\ ops'[h].at = "run"
        /\ \A d \in Operators \ {c, h} : ops'[d] = ops[d]
    BY <1>0, <2>2, <2>4
  <2>7. Operations!Holding' = (Operations!Holding \ {c}) \cup {h}
    BY <2>6 DEF Operations!Holding, Operations!At
  <2>8. h \notin Operations!Holding
    BY <2>2 DEF Operations!Holding, Operations!At
  <2>9. /\ IsFiniteSet(Operations!Holding \ {c})
        /\ Cardinality(Operations!Holding \ {c}) = Cardinality(Operations!Holding) - 1
        /\ Cardinality(Operations!Holding) \in Nat
    BY <1>0, FS_RemoveElement, FS_CardinalityType
  <2>10. h \notin Operations!Holding \ {c}
    BY <2>8
  <2>11. /\ IsFiniteSet((Operations!Holding \ {c}) \cup {h})
         /\ Cardinality((Operations!Holding \ {c}) \cup {h}) = Cardinality(Operations!Holding \ {c}) + 1
    BY <2>9, <2>10, FS_AddElement
  <2>12. (IsFiniteSet(Operations!Holding) /\ active = Cardinality(Operations!Holding))'
    BY <1>0, <2>5, <2>7, <2>9, <2>11
  <2>13. PICK p : p = Tail(queue)
    OBVIOUS
  <2>14. /\ p \in Seq(Operators) /\ Len(p) = Len(queue) - 1 /\ Once(p)
         /\ Waiting(p) = Waiting(queue) \ {h} /\ Len(queue) \in Nat
    BY <1>0, <1>2, <2>1, <2>13, WaitingLess
  <2>15. queue' = p
    BY <2>5, <2>13
  <2>16. Once(queue)' /\ Waiting(queue)' = Waiting(p)
    BY <2>14, <2>15 DEF Once, Waiting
  <2>17. OperationsTyped'
    BY <1>0, <2>5, <2>6, <2>14, <2>15 DEF OperationsTyped
  <2>18. \A d \in Operators : ops'[d].at = "queued" <=> ops[d].at = "queued" /\ d # h
    BY <2>2, <2>6
  <2>19. \A d \in Operators : d \in Waiting(queue)' <=> ops'[d].at = "queued"
    BY <1>0, <2>14, <2>16, <2>18 DEF SlotsHeld, Operations!At
  <2>20. Len(queue') <= MaxQueue
    BY <1>0, <2>14, <2>15 DEF SlotsHeld, Operations!ReliableOperationsAssumption
  <2> QED
    BY <1>0, <1>2, <2>5, <2>12, <2>16, <2>17, <2>19, <2>20 DEF OperationsInv,
       SlotsHeld, Operations!At
<1> QED
  BY <1>1, <1>2

LEMMA BeginStep ==
  ASSUME Operations!ReliableOperationsAssumption, OperationsInv, NEW c \in Operators,
         Operations!Begin(c)
  PROVE  OperationsInv'
<1>0. /\ OperationsTyped /\ SlotsHeld /\ ops \in [Operators -> OpRecords]
      /\ queue \in Seq(Operators) /\ Once(queue) /\ breaker \in Breakers
      /\ c \notin Operations!Holding /\ IsFiniteSet(Operations!Holding) /\ active = Cardinality(Operations!Holding)
      /\ active \in 0..MaxConcurrent /\ MaxConcurrent \in Nat /\ MaxQueue \in Nat
      /\ ops[c].at = "begin" /\ UNCHANGED <<failing, swept, crashes>>
  BY DEF OperationsInv, SlotsHeld, OperationsTyped, Operations!Holding, Operations!At,
     Operations!ReliableOperationsAssumption, Operations!Begin
<1>1. record' \in [Operators -> Operations!Closed \cup {"running", "recovering"}]
  BY DEF OperationsInv, OperationsTyped, Operations!Begin
<1>2. CASE active < MaxConcurrent /\ active' = active + 1 /\ Operations!Go(c, "run")
           /\ UNCHANGED <<queue, breaker>>
  <2>1. /\ ops' \in [Operators -> OpRecords] /\ ops'[c].at = "run"
        /\ \A d \in Operators \ {c} : ops'[d] = ops[d]
    BY <1>0, <1>2, GoTyped DEF OpAts
  <2>2. Operations!Holding' = Operations!Holding \cup {c}
    BY <2>1 DEF Operations!Holding, Operations!At
  <2>3. /\ IsFiniteSet(Operations!Holding \cup {c})
        /\ Cardinality(Operations!Holding \cup {c}) = Cardinality(Operations!Holding) + 1
    BY <1>0, FS_AddElement
  <2>4. (IsFiniteSet(Operations!Holding) /\ active = Cardinality(Operations!Holding))' /\ active' \in 0..MaxConcurrent
    BY <1>0, <1>2, <2>2, <2>3
  <2>5. OperationsTyped'
    BY <1>0, <1>1, <1>2, <2>1, <2>4 DEF OperationsTyped
  <2>6. queue = <<>>
    BY <1>0, <1>2 DEF SlotsHeld
  <2>7. \A d \in Operators : ops'[d].at = "queued" <=> ops[d].at = "queued"
    BY <1>0, <2>1
  <2>8. Waiting(queue)' = Waiting(queue) /\ (Once(queue)' <=> Once(queue))
    BY <1>2 DEF Waiting, Once
  <2> QED
    BY <1>0, <1>2, <2>4, <2>5, <2>6, <2>7, <2>8 DEF OperationsInv, SlotsHeld,
       Operations!At
<1>3. CASE active >= MaxConcurrent /\ Len(queue) < MaxQueue /\ queue' = Append(queue, c)
           /\ Operations!Go(c, "queued") /\ UNCHANGED <<active, breaker>>
  <2>1. /\ ops' \in [Operators -> OpRecords] /\ ops'[c].at = "queued"
        /\ \A d \in Operators \ {c} : ops'[d] = ops[d]
    BY <1>0, <1>3, GoTyped DEF OpAts
  <2>2. Operations!Holding' = Operations!Holding
    BY <1>0, <2>1 DEF Operations!Holding, Operations!At
  <2>3. c \notin Waiting(queue)
    BY <1>0 DEF SlotsHeld, Operations!At
  <2>4. PICK p : p = Append(queue, c)
    OBVIOUS
  <2>5. /\ p \in Seq(Operators) /\ Len(p) = Len(queue) + 1 /\ Once(p)
        /\ Waiting(p) = Waiting(queue) \cup {c}
    BY <1>0, <2>3, <2>4, WaitingMore
  <2>6. Len(queue) \in Nat /\ queue' = p
    BY <1>0, <1>3, <2>4, LenProperties
  <2>7. Once(queue)' /\ Waiting(queue)' = Waiting(p) /\ Len(queue') <= MaxQueue
    BY <1>0, <1>3, <2>5, <2>6 DEF Once, Waiting
  <2>8. OperationsTyped'
    BY <1>0, <1>1, <1>3, <2>1, <2>5, <2>6 DEF OperationsTyped
  <2>9. \A d \in Operators : d \in Waiting(queue)' <=> ops'[d].at = "queued"
    BY <1>0, <2>1, <2>5, <2>7 DEF SlotsHeld, Operations!At
  <2>10. active' = MaxConcurrent /\ active' = active
    BY <1>0, <1>3
  <2>11. (IsFiniteSet(Operations!Holding) /\ active = Cardinality(Operations!Holding))'
    BY <1>0, <2>2, <2>10
  <2> QED
    BY <2>7, <2>8, <2>9, <2>10, <2>11 DEF OperationsInv, SlotsHeld, Operations!At
<1>4. CASE breaker' = Operations!AfterFailure(breaker, "tripping") /\ Operations!Go(c, "recover")
           /\ UNCHANGED <<active, queue>>
  <2>1. /\ ops' \in [Operators -> OpRecords] /\ ops'[c].at = "recover"
        /\ \A d \in Operators \ {c} : ops'[d] = ops[d]
    BY <1>0, <1>4, GoTyped DEF OpAts
  <2>2. breaker' \in Breakers
    BY <1>0, <1>4, BreakerTyped
  <2> QED
    BY <1>0, <1>1, <1>4, <2>1, <2>2, SlotsStay DEF OperationsTyped
<1> QED
  BY <1>2, <1>3, <1>4 DEF Operations!Begin

LEMMA AttemptTyped ==
  ASSUME ops \in [Operators -> OpRecords], NEW c \in Operators,
         ops' = [ops EXCEPT ![c].attempt = @ + 1]
  PROVE  /\ ops' \in [Operators -> OpRecords]
         /\ \A d \in Operators : ops'[d].at = ops[d].at
<1>1. PICK r : r = [ops[c] EXCEPT !.attempt = ops[c].attempt + 1]
  OBVIOUS
<1>2. r \in OpRecords /\ r.at = ops[c].at
  BY <1>1 DEF OpRecords
<1>3. ops' = [ops EXCEPT ![c] = r]
  BY <1>1
<1> QED
  BY <1>2, <1>3

LEMMA WorkStep ==
  ASSUME Operations!ReliableOperationsAssumption, OperationsInv, NEW c \in Operators,
         Operations!Admit(c) \/ Operations!Work(c)
  PROVE  OperationsInv'
<1>0. /\ OperationsTyped /\ ops \in [Operators -> OpRecords] /\ breaker \in Breakers
      /\ record \in [Operators -> Operations!Closed \cup {"running", "recovering"}]
  BY DEF OperationsInv, OperationsTyped
<1>1. CASE Operations!Admit(c)
  <2>1. /\ ops' \in [Operators -> OpRecords] /\ ops'[c].at = "begin"
        /\ \A d \in Operators \ {c} : ops'[d] = ops[d]
    BY <1>0, <1>1, GoTyped DEF Operations!Admit, OpAts
  <2>2. breaker' \in Breakers
    <3>1. PICK b : b = [breaker EXCEPT !.state = "half-open", !.trials = 0]
      OBVIOUS
    <3>2. 0 \in 0..SuccessThreshold
      BY DEF Operations!ReliableOperationsAssumption
    <3>3. b \in Breakers
      BY <1>0, <3>1, <3>2 DEF Breakers
    <3> QED
      BY <1>0, <1>1, <3>1, <3>3 DEF Operations!Admit
  <2> QED
    BY <1>0, <1>1, <2>1, <2>2, SlotsStay DEF Operations!Admit, Operations!At,
       OperationsTyped
<1>2. CASE Operations!Begin(c)
  BY <1>2, BeginStep
<1>3. CASE Operations!Succeed(c)
  <2>1. breaker' \in Breakers
    BY <1>0, <1>3, BreakerTyped DEF Operations!Succeed
  <2>2. "complete" \in OpAts \ {"run", "queued"}
    BY DEF OpAts
  <2> QED
    BY <1>3, <2>1, <2>2, LeaveStep DEF Operations!Succeed, Operations!At
<1>4. ASSUME NEW class \in {"tripping", "unknown", "caller"}, Operations!Fail(c, class)
      PROVE OperationsInv'
  <2>1. CASE class # "caller" /\ ops[c].attempt < MaxAttempts
    <3>1. /\ ops' = [ops EXCEPT ![c].attempt = @ + 1]
          /\ UNCHANGED <<breaker, active, queue, record, failing, swept, crashes>>
      BY <1>4, <2>1 DEF Operations!Fail
    <3>2. /\ ops' \in [Operators -> OpRecords]
          /\ \A d \in Operators : ops'[d].at = ops[d].at
      BY <1>0, <3>1, AttemptTyped
    <3> QED
      BY <1>0, <3>1, <3>2, SlotsStay DEF OperationsTyped
  <2>2. CASE ~ (class # "caller" /\ ops[c].attempt < MaxAttempts)
    <3>1. PICK at \in {"refused", "recover"} :
            at = IF class = "caller" THEN "refused" ELSE "recover"
      OBVIOUS
    <3>2. /\ Operations!Leave(c, at) /\ ops[c].at = "run"
          /\ breaker' = Operations!AfterFailure(breaker, IF class = "caller" THEN "caller" ELSE "tripping")
          /\ UNCHANGED <<record, failing, swept, crashes>>
      BY <1>4, <2>2, <3>1 DEF Operations!Fail, Operations!At
    <3>3. breaker' \in Breakers
      BY <1>0, <3>2, BreakerTyped
    <3>4. at \in OpAts \ {"run", "queued"}
      BY DEF OpAts
    <3> QED
      BY <3>2, <3>3, <3>4, LeaveStep
  <2> QED
    BY <2>1, <2>2
<1>5. CASE Operations!Recover(c)
  <2>1. PICK at \in {"resume", "failed"} :
          at = IF Operations!At(c) = "recover" /\ MaxResumes > 0 THEN "resume" ELSE "failed"
    OBVIOUS
  <2>2. at \in OpAts
    BY DEF OpAts
  <2>3. /\ ops' \in [Operators -> OpRecords] /\ ops'[c].at = at
        /\ \A d \in Operators \ {c} : ops'[d] = ops[d]
    BY <1>0, <1>5, <2>1, <2>2, GoTyped DEF Operations!Recover
  <2>4. record' \in [Operators -> Operations!Closed \cup {"running", "recovering"}]
    BY <1>0, <1>5 DEF Operations!Recover
  <2> QED
    BY <1>0, <1>5, <2>3, <2>4, SlotsStay DEF Operations!Recover, Operations!At,
       OperationsTyped
<1>6. CASE Operations!Resume(c)
  <2>1. /\ UNCHANGED <<breaker, active, queue, record, failing, swept, crashes>>
        /\ ops[c].at = "resume"
    BY <1>6 DEF Operations!Resume, Operations!At
  <2>2. CASE ops' = [ops EXCEPT ![c].attempt = @ + 1]
    <3>1. /\ ops' \in [Operators -> OpRecords]
          /\ \A d \in Operators : ops'[d].at = ops[d].at
      BY <1>0, <2>2, AttemptTyped
    <3> QED
      BY <1>0, <2>1, <3>1, SlotsStay DEF OperationsTyped
  <2>3. ASSUME NEW at \in {"resumed", "failed"}, Operations!Go(c, at) PROVE OperationsInv'
    <3>1. at \in OpAts
      BY DEF OpAts
    <3>2. /\ ops' \in [Operators -> OpRecords] /\ ops'[c].at = at
          /\ \A d \in Operators \ {c} : ops'[d] = ops[d]
      BY <1>0, <2>3, <3>1, GoTyped
    <3> QED
      BY <1>0, <2>1, <3>2, SlotsStay DEF OperationsTyped
  <2> QED
    BY <1>6, <2>2, <2>3 DEF Operations!Resume
<1>7. CASE Operations!Close(c)
  <2>1. PICK r : r = Operations!Idle /\ r \in OpRecords /\ r.at = "idle"
    <3>1. Operations!Idle \in OpRecords /\ Operations!Idle.at = "idle"
      BY DEF Operations!Idle, OpRecords, OpAts
    <3> QED
      BY <3>1
  <2>2. ops' = [ops EXCEPT ![c] = r]
    BY <1>7, <2>1 DEF Operations!Close
  <2>3. /\ ops' \in [Operators -> OpRecords] /\ ops'[c].at = "idle"
        /\ \A d \in Operators \ {c} : ops'[d] = ops[d]
    BY <1>0, <2>1, <2>2
  <2>4. /\ DOMAIN Operations!Outcome = {"complete", "resumed", "failed"}
        /\ \A at \in DOMAIN Operations!Outcome :
             Operations!Outcome[at] \in Operations!Closed
    <3>1. /\ Operations!Outcome["complete"] = "succeeded" /\ Operations!Outcome["resumed"] = "recovered"
          /\ Operations!Outcome["failed"] = "gracefully-failed"
          /\ DOMAIN Operations!Outcome = {"complete", "resumed", "failed"}
      BY DEF Operations!Outcome
    <3> QED
      BY <3>1 DEF Operations!Closed
  <2>5. record' \in [Operators -> Operations!Closed \cup {"running", "recovering"}]
    BY <1>0, <1>7, <2>4 DEF Operations!Close
  <2>6. ops[c].at \in {"complete", "resumed", "failed"}
    BY <1>7, <2>4 DEF Operations!Close, Operations!At
  <2> QED
    BY <1>0, <1>7, <2>3, <2>5, <2>6, SlotsStay DEF Operations!Close, OperationsTyped
<1> QED
  BY <1>1, <1>2, <1>3, <1>4, <1>5, <1>6, <1>7 DEF Operations!Work

LEMMA OperationsStep ==
  ASSUME Operations!ReliableOperationsAssumption, OperationsInv,
         [Operations!Next]_Operations!vars
  PROVE  OperationsInv'
<1>0. /\ OperationsTyped /\ ops \in [Operators -> OpRecords] /\ breaker \in Breakers
      /\ record \in [Operators -> Operations!Closed \cup {"running", "recovering"}]
  BY DEF OperationsInv, OperationsTyped
<1>1. CASE UNCHANGED Operations!vars
  BY <1>0, <1>1, SlotsStay DEF Operations!vars, OperationsTyped
<1>2. ASSUME NEW c \in Operators, Operations!Admit(c) \/ Operations!Work(c)
      PROVE  OperationsInv'
  BY <1>2, WorkStep
<1>3. CASE Operations!Prune \/ Operations!Elapse
  <2>1. CASE Operations!Prune
    <3>1. PICK b : b = [breaker EXCEPT !.failures = breaker.failures - 1]
      OBVIOUS
    <3>2. breaker.failures - 1 \in 0..FailureThreshold
      BY <1>0, <2>1 DEF Operations!Prune, Breakers,
         Operations!ReliableOperationsAssumption
    <3>3. b \in Breakers /\ breaker' = b
      BY <1>0, <2>1, <3>1, <3>2 DEF Operations!Prune, Breakers
    <3> QED
      BY <1>0, <2>1, <3>3, SlotsStay DEF Operations!Prune, OperationsTyped
  <2>2. CASE Operations!Elapse
    <3>1. breaker' \in Breakers
      BY <1>0, <2>2 DEF Operations!Elapse, Breakers
    <3> QED
      BY <1>0, <2>2, <3>1, SlotsStay DEF Operations!Elapse, OperationsTyped
  <2> QED
    BY <1>3, <2>1, <2>2
<1>4. CASE Operations!List \/ Operations!Heal
  BY <1>0, <1>4, SlotsStay DEF Operations!List, Operations!Heal, OperationsTyped
<1>5. CASE Operations!GiveUp
  <2>1. record' \in [Operators -> Operations!Closed \cup {"running", "recovering"}] /\ swept' \subseteq Operators
    BY <1>0, <1>5 DEF Operations!GiveUp, OperationsTyped, Operations!Closed
  <2> QED
    BY <1>0, <1>5, <2>1, SlotsStay DEF Operations!GiveUp, OperationsTyped
<1>6. CASE Operations!Crash
  <2>1. /\ breaker' = Operations!Fresh /\ active' = 0 /\ queue' = <<>> /\ ops' = [c \in Operators |-> Operations!Idle]
        /\ swept' = {} /\ UNCHANGED <<record, failing>> /\ crashes' \in 0..MaxCrashes
    BY <1>0, <1>6 DEF Operations!Crash, OperationsTyped,
       Operations!ReliableOperationsAssumption
  <2>2. Operations!Fresh \in Breakers
    BY DEF Operations!Fresh, Breakers, Operations!ReliableOperationsAssumption
  <2>3. Operations!Idle \in OpRecords /\ Operations!Idle.at = "idle"
    BY DEF Operations!Idle, OpRecords, OpAts
  <2>4. OperationsTyped'
    BY <1>0, <2>1, <2>2, <2>3 DEF OperationsTyped,
       Operations!ReliableOperationsAssumption
  <2>5. Operations!Holding' = {}
    BY <2>1, <2>3 DEF Operations!Holding, Operations!At
  <2>6. IsFiniteSet({}) /\ Cardinality({}) = 0
    BY FS_EmptySet, ZenonT(20)
  <2>7. Len(<<>>) = 0 /\ DOMAIN <<>> = {}
    OBVIOUS
  <2>8. Waiting(queue)' = {} /\ Once(queue)' /\ Len(queue') <= MaxQueue
    BY <2>1, <2>7 DEF Waiting, Once, Operations!ReliableOperationsAssumption
  <2>9. (IsFiniteSet(Operations!Holding) /\ active = Cardinality(Operations!Holding))'
    BY <2>1, <2>5, <2>6
  <2> QED
    BY <2>1, <2>3, <2>4, <2>8, <2>9 DEF OperationsInv, SlotsHeld, Operations!At
<1> QED
  BY <1>1, <1>2, <1>3, <1>4, <1>5, <1>6 DEF Operations!Next

LEMMA OperationsMeans ==
  ASSUME OperationsInv PROVE Operations!SlotsAccounted /\ Operations!TypeOK
<1>1. Waiting(queue) = {c \in Operators : Operations!At(c) = "queued"}
  <2>1. \A i \in DOMAIN queue : queue[i] \in Operators
    BY DEF OperationsInv, OperationsTyped
  <2>2. Waiting(queue) \subseteq Operators
    BY <2>1 DEF Waiting
  <2> QED
    BY <2>2 DEF OperationsInv, SlotsHeld
<1>2. Operations!SlotsAccounted
  BY <1>1, SameCount DEF Operations!SlotsAccounted, OperationsInv, SlotsHeld, Waiting
<1> QED
  BY <1>2 DEF Operations!TypeOK, OperationsInv, OperationsTyped, OpRecords, OpAts,
     Breakers, Operations!At

\* The count of the bulkhead is that of the operations with a slot.
THEOREM SlotsAreAccounted ==
  ASSUME Operations!ReliableOperationsAssumption
  PROVE  Operations!Spec => []Operations!SlotsAccounted
BY InitOperations, OperationsStep, OperationsMeans, PTL DEF Operations!Spec

-----------------------------------------------------------------------------
SessionStates ==
     Discovery!Active \cup {"none", "failed", "completed", "cancelled", "expired"}
LookupStates == {"idle", "joined", "find", "create", "pend", "search", "probe",
                 "registry", "cache", "resolved", "failed"}
RequestStates == {"none", "created", "pending", "completed", "cancelled", "expired"}

SessionRecords ==
  [state : SessionStates, result : Discovery!Versions, by : {"nobody", "lookup", "request"}]
LookupRecords == [at : LookupStates, of : Sessions \cup {"none"}, found :
     Discovery!Versions]

\* The lookup has a session it goes on writing to.
HasSession(c) == Discovery!At(c) \notin {"idle", "joined", "find", "create"}
\* A session that counts as a search of the lookups.
Searches(s) == Discovery!IsActive(s) /\ sessions[s].by = "lookup"

DeviceTyped ==
  /\ device \in [version : Discovery!Versions, made : Discovery!Versions, writing : BOOLEAN]
  /\ cache \in Discovery!Versions \cup {Discovery!NoEntry}
  /\ answer \in Discovery!Versions
  /\ restarts \in 0..MaxRestarts
SearchTyped ==
  /\ sessions \in [Sessions -> SessionRecords]
  /\ lookups \in [Callers -> LookupRecords]
  /\ \A c \in Callers : HasSession(c) => lookups[c].of \in Sessions
  /\ inflight \subseteq Callers
  /\ request \in [of : Sessions \cup {"none"}, to : RequestStates]
  /\ request.to # "none" => request.of \in Sessions
\* A lookup that does not just wait is the one in flight.
OneInFlight == \A c \in Callers : Discovery!At(c) \notin {"idle", "joined"} =>
     inflight = {c}
\* Who is about to create a session has none beside it; who writes to one of
\* the lookups, which may have been ended since, has no other beside that.
NoOtherSearch ==
  \A c \in Callers :
    /\ Discovery!At(c) = "create" => \A s \in Sessions : ~Searches(s)
    /\ HasSession(c) /\ sessions[lookups[c].of].by = "lookup" =>
         \A s \in Sessions : Searches(s) => s = lookups[c].of
\* The session a request revives is not one of the lookups.
RequestsOwn == request.to = "pending" => sessions[request.of].by = "request"

DiscoveryInv ==
  /\ DeviceTyped /\ SearchTyped
  /\ OneInFlight /\ NoOtherSearch /\ RequestsOwn /\ Discovery!OneSearch

LEMMA InitDiscovery ==
  ASSUME Discovery!PeerDiscoveryAssumption
  PROVE  Discovery!Init => DiscoveryInv
<1> SUFFICES ASSUME Discovery!Init PROVE DiscoveryInv
  OBVIOUS
<1> USE DEF Discovery!Init, Discovery!PeerDiscoveryAssumption
<1>1. DeviceTyped
  BY DEF DeviceTyped, Discovery!Versions, Discovery!Unknown, Discovery!NoEntry
<1>2. SearchTyped
  BY DEF SearchTyped, Discovery!Versions, Discovery!Unknown, Discovery!NewSession,
     SessionStates, Discovery!Idle, Discovery!Nothing, LookupStates, RequestStates,
     HasSession, Discovery!At, SessionRecords, LookupRecords
<1>3. \A s \in Sessions : ~Discovery!IsActive(s)
  BY DEF Discovery!IsActive, Discovery!Active, Discovery!NewSession
<1>4. \A c \in Callers : Discovery!At(c) = "idle"
  BY DEF Discovery!At, Discovery!Idle
<1> QED
  BY <1>1, <1>2, <1>3, <1>4 DEF DiscoveryInv, OneInFlight, NoOtherSearch, RequestsOwn,
     Discovery!OneSearch, Searches, HasSession, Discovery!Nothing

\* Steps of the device and of the cache leave the search alone.
LEMMA DeviceSteps ==
  ASSUME Discovery!PeerDiscoveryAssumption, DiscoveryInv,
         Discovery!Register \/ Discovery!Deregister \/ Discovery!Invalidate \/ Discovery!Forget
  PROVE  DiscoveryInv'
<1>1. UNCHANGED <<sessions, lookups, inflight, request, answer, restarts>>
  BY DEF Discovery!Register, Discovery!Deregister, Discovery!Invalidate,
     Discovery!Forget
<1>2. device' \in [version : Discovery!Versions, made : Discovery!Versions, writing :
           BOOLEAN]
  <2>1. device \in [version : Discovery!Versions, made :
             Discovery!Versions, writing : BOOLEAN]
    BY DEF DiscoveryInv, DeviceTyped
  <2>2. CASE Discovery!Register
    <3>1. device.made + 1 \in Discovery!Versions
      BY <2>1, <2>2 DEF Discovery!Register, Discovery!Versions,
         Discovery!PeerDiscoveryAssumption
    <3> QED
      BY <2>2, <3>1 DEF Discovery!Register
  <2>3. CASE Discovery!Deregister
    <3>1. Discovery!Unknown \in Discovery!Versions
      BY DEF Discovery!Unknown, Discovery!Versions, Discovery!PeerDiscoveryAssumption
    <3> QED
      BY <2>1, <2>3, <3>1 DEF Discovery!Deregister
  <2>4. CASE Discovery!Invalidate \/ Discovery!Forget
    BY <2>1, <2>4 DEF Discovery!Invalidate, Discovery!Forget
  <2> QED
    BY <2>2, <2>3, <2>4
<1>3. cache' \in Discovery!Versions \cup {Discovery!NoEntry}
  BY DEF DiscoveryInv, DeviceTyped, Discovery!Register, Discovery!Deregister,
     Discovery!Invalidate, Discovery!Forget
<1>4. DeviceTyped'
  BY <1>1, <1>2, <1>3 DEF DiscoveryInv, DeviceTyped
<1> QED
  BY <1>1, <1>4 DEF DiscoveryInv, SearchTyped, OneInFlight, NoOtherSearch, RequestsOwn,
     Discovery!OneSearch, Searches, HasSession, Discovery!At, Discovery!IsActive

\* One lookup goes on, with the sessions as they are or with its own one written.
LEMMA LookupKeeps ==
  ASSUME Discovery!PeerDiscoveryAssumption, DiscoveryInv, NEW c \in Callers,
         lookups' \in [Callers -> LookupRecords],
         \A d \in Callers \ {c} :
              lookups'[d] = lookups[d] /\ Discovery!At(d) \in {"idle", "joined"},
         UNCHANGED <<device, request, answer, restarts>>,
         cache' \in Discovery!Versions \cup {Discovery!NoEntry}, inflight' = {c},
         sessions' \in [Sessions -> SessionRecords], RequestsOwn', Discovery!OneSearch',
         Discovery!At(c)' = "create" => \A s \in Sessions : ~Searches(s)',
         HasSession(c)' => lookups'[c].of \in Sessions,
         HasSession(c)' /\ sessions'[lookups'[c].of].by = "lookup" =>
           \A s \in Sessions : Searches(s)' => s = lookups'[c].of
  PROVE  DiscoveryInv'
<1>1. DeviceTyped'
  BY DEF DiscoveryInv, DeviceTyped
<1>2. \A d \in Callers \ {c} : Discovery!At(d)' \in {"idle", "joined"} /\ ~HasSession(d)'
  BY DEF Discovery!At, HasSession
<1>3. SearchTyped'
  BY <1>2 DEF DiscoveryInv, SearchTyped
<1>4. OneInFlight'
  BY <1>2 DEF OneInFlight
<1>5. NoOtherSearch'
  <2> SUFFICES ASSUME NEW d \in Callers
               PROVE  /\ Discovery!At(d)' = "create" => \A s \in Sessions : ~Searches(s)'
                      /\ HasSession(d)' /\ sessions'[lookups'[d].of].by = "lookup" =>
                           \A s \in Sessions : Searches(s)' => s = lookups'[d].of
    BY DEF NoOtherSearch
  <2>1. CASE d = c
    BY <2>1
  <2>2. CASE d # c
    BY <1>2, <2>2
  <2> QED
    BY <2>1, <2>2
<1> QED
  BY <1>1, <1>3, <1>4, <1>5 DEF DiscoveryInv

\* What the lookups are after a step of one of them.
LEMMA Goes ==
  ASSUME DiscoveryInv, NEW c \in Callers, NEW at \in LookupStates, Discovery!Go(c, at)
  PROVE  /\ lookups' \in [Callers -> LookupRecords]
         /\ Discovery!At(c)' = at /\ lookups'[c].of = lookups[c].of
         /\ \A d \in Callers \ {c} : lookups'[d] = lookups[d]
<1>1. lookups[c] \in LookupRecords /\ DOMAIN lookups = Callers
  BY DEF DiscoveryInv, SearchTyped
<1>2. lookups'[c] = [lookups[c] EXCEPT !.at = at]
  BY <1>1 DEF Discovery!Go
<1>3. lookups'[c] \in LookupRecords /\ lookups'[c].at = at /\ lookups'[c].of = lookups[c].of
  BY <1>1, <1>2 DEF LookupRecords
<1> QED
  BY <1>3 DEF Discovery!Go, Discovery!At, DiscoveryInv, SearchTyped

\* The same for a step that takes up a session.
LEMMA TakesUp ==
  ASSUME Discovery!PeerDiscoveryAssumption, DiscoveryInv, NEW c \in Callers,
         NEW at \in LookupStates,
         NEW s \in Sessions,
         lookups' = [lookups EXCEPT ![c] = [Discovery!Idle EXCEPT !.at = at, !.of = s]]
  PROVE  /\ lookups' \in [Callers -> LookupRecords]
         /\ Discovery!At(c)' = at /\ lookups'[c].of = s
         /\ \A d \in Callers \ {c} : lookups'[d] = lookups[d]
<1>1. Discovery!Idle \in LookupRecords
  BY DEF Discovery!Idle, LookupRecords, LookupStates, Discovery!Unknown,
     Discovery!Versions, Discovery!PeerDiscoveryAssumption
<1>2. lookups'[c] = [Discovery!Idle EXCEPT !.at = at, !.of = s]
  BY DEF DiscoveryInv, SearchTyped
<1>3. lookups'[c] \in LookupRecords /\ lookups'[c].at = at /\ lookups'[c].of = s
  <2>1. \A r \in LookupRecords :
          /\ [r EXCEPT !.at = at, !.of = s] \in LookupRecords
          /\ [r EXCEPT !.at = at, !.of = s].at = at /\ [r EXCEPT !.at = at, !.of = s].of = s
    BY DEF LookupRecords
  <2> QED
    BY <1>1, <1>2, <2>1
<1> QED
  BY <1>3 DEF Discovery!At, DiscoveryInv, SearchTyped


\* A lookup is done: those that waited for it are, too, and the sessions have
\* the creators they had.
LEMMA DoneKeeps ==
  ASSUME Discovery!PeerDiscoveryAssumption, DiscoveryInv, NEW c \in Callers,
         Discovery!At(c) \notin {"idle", "joined"},
         NEW found \in Discovery!Versions, Discovery!Finish(c, found),
         UNCHANGED <<device, cache, request, restarts>>,
         sessions' \in [Sessions -> SessionRecords],
         \A s \in Sessions : sessions'[s].by = sessions[s].by,
         Discovery!OneSearch'
  PROVE  DiscoveryInv'
<1>1. Discovery!Idle \in LookupRecords /\ Discovery!Idle.at = "idle"
  BY DEF Discovery!Idle, LookupRecords, LookupStates, Discovery!Unknown,
     Discovery!Versions, Discovery!PeerDiscoveryAssumption
<1>2. \A d \in Callers :
           lookups'[d] \in LookupRecords /\ Discovery!At(d)' = "idle" /\ ~HasSession(d)'
  <2> SUFFICES ASSUME NEW d \in Callers
               PROVE  lookups'[d] \in LookupRecords /\ Discovery!At(d)' = "idle"
    BY DEF HasSession
  <2>1. CASE d = c \/ Discovery!At(d) = "joined"
    BY <1>1, <2>1 DEF Discovery!Finish, Discovery!At
  <2>2. CASE d # c /\ Discovery!At(d) = "idle"
    BY <2>2 DEF Discovery!Finish, Discovery!At, DiscoveryInv, SearchTyped
  <2>3. CASE d # c /\ Discovery!At(d) \notin {"idle", "joined"}
    BY <2>3 DEF DiscoveryInv, OneInFlight
  <2> QED
    BY <2>1, <2>2, <2>3
<1>3. DeviceTyped'
  BY DEF DiscoveryInv, DeviceTyped, Discovery!Finish
<1>4. lookups' \in [Callers -> LookupRecords]
  <2>1. lookups' = [d \in Callers |-> lookups'[d]]
    BY DEF Discovery!Finish
  <2> QED
    BY <2>1, <1>2
<1>5. SearchTyped'
  BY <1>2, <1>4 DEF DiscoveryInv, SearchTyped, Discovery!Finish
<1>6. OneInFlight' /\ NoOtherSearch'
  BY <1>2 DEF OneInFlight, NoOtherSearch, HasSession
<1>7. RequestsOwn'
  BY DEF DiscoveryInv, RequestsOwn, SearchTyped
<1> QED
  BY <1>3, <1>5, <1>6, <1>7 DEF DiscoveryInv


\* What a session written to keeps: it stays the one search it may be.
LEMMA OwnSession ==
  ASSUME DiscoveryInv, NEW c \in Callers, HasSession(c),
         NEW to \in SessionStates, NEW result \in Discovery!Versions,
         sessions' = [sessions EXCEPT
           ![lookups[c].of] = [@ EXCEPT !.state = to, !.result = result]],
         UNCHANGED request
  PROVE  /\ lookups[c].of \in Sessions
         /\ sessions' \in [Sessions -> SessionRecords]
         /\ \A s \in Sessions : sessions'[s].by = sessions[s].by
         /\ RequestsOwn' /\ Discovery!OneSearch'
         /\ sessions'[lookups[c].of].by = "lookup" =>
              \A s \in Sessions : Searches(s)' => s = lookups[c].of
<1> DEFINE of == lookups[c].of
<1>1. of \in Sessions
  BY DEF DiscoveryInv, SearchTyped
<1>2. /\ sessions[of] \in SessionRecords
      /\ sessions'[of] = [sessions[of] EXCEPT !.state = to, !.result = result]
      /\ \A s \in Sessions \ {of} : sessions'[s] = sessions[s]
  BY <1>1 DEF DiscoveryInv, SearchTyped
<1>3. sessions' \in [Sessions -> SessionRecords]
  BY <1>2 DEF DiscoveryInv, SearchTyped, SessionRecords
<1>4. \A s \in Sessions : sessions'[s].by = sessions[s].by
  BY <1>2 DEF SessionRecords
<1>5. RequestsOwn'
  BY <1>4 DEF DiscoveryInv, RequestsOwn, SearchTyped
<1>6. \A s \in Sessions : Searches(s)' =>
        Searches(s) \/ (s = of /\ sessions[of].by = "lookup")
  BY <1>2, <1>4 DEF Searches, Discovery!IsActive
<1>7. sessions[of].by = "lookup" => \A s \in Sessions : Searches(s) => s = of
  BY DEF DiscoveryInv, NoOtherSearch
<1>8. \A s, r \in Sessions : Searches(s)' /\ Searches(r)' => s = r
  BY <1>6, <1>7 DEF DiscoveryInv, Discovery!OneSearch, Searches
<1> QED
  BY <1>1, <1>3, <1>4, <1>5, <1>6, <1>7, <1>8 DEF Discovery!OneSearch, Searches

\* A lookup that is in flight is alone in it.
LEMMA Alone ==
  ASSUME DiscoveryInv, NEW c \in Callers, Discovery!At(c) \notin {"idle", "joined"}
  PROVE  inflight = {c} /\ \A d \in Callers \ {c} : Discovery!At(d) \in {"idle", "joined"}
BY DEF DiscoveryInv, OneInFlight

LEMMA LookupStep ==
  ASSUME Discovery!PeerDiscoveryAssumption, DiscoveryInv, NEW c \in Callers,
         Discovery!Lookup(c)
  PROVE  DiscoveryInv'
<1>1. lookups[c] \in LookupRecords
  BY DEF DiscoveryInv, SearchTyped
<1>2. /\ sessions' \in [Sessions -> SessionRecords] /\ RequestsOwn' /\ Discovery!OneSearch'
      /\ cache' \in Discovery!Versions \cup {Discovery!NoEntry}
  BY DEF Discovery!Lookup, DiscoveryInv, SearchTyped, DeviceTyped, RequestsOwn,
     Discovery!OneSearch, Discovery!IsActive
<1>3. CASE inflight = {}
  <2>1. \A d \in Callers : Discovery!At(d) \in {"idle", "joined"}
    BY <1>3 DEF DiscoveryInv, OneInFlight
  <2>2. Discovery!Go(c, "find") /\ inflight' = {c}
    BY <1>3 DEF Discovery!Lookup
  <2>3. "find" \in LookupStates
    BY DEF LookupStates
  <2>4. /\ lookups' \in [Callers -> LookupRecords] /\ Discovery!At(c)' = "find"
        /\ \A d \in Callers \ {c} : lookups'[d] = lookups[d]
    BY <2>2, <2>3, Goes
  <2>5. ~HasSession(c)'
    BY <2>4 DEF HasSession
  <2> QED
    BY <1>2, <2>1, <2>2, <2>4, <2>5, LookupKeeps DEF Discovery!Lookup
<1>4. CASE inflight # {}
  <2>1. /\ lookups' = [lookups EXCEPT ![c].at = "joined"]
        /\ UNCHANGED <<device, cache, sessions, inflight, request, answer, restarts>>
    BY <1>4 DEF Discovery!Lookup, Discovery!Go
  <2>2. /\ lookups' \in [Callers -> LookupRecords] /\ lookups'[c].at = "joined"
        /\ \A d \in Callers \ {c} : lookups'[d] = lookups[d]
    BY <2>1, <1>1 DEF DiscoveryInv, SearchTyped, LookupRecords, LookupStates
  <2>3. DeviceTyped' /\ SearchTyped' /\ OneInFlight' /\ NoOtherSearch'
    BY <2>1, <2>2 DEF DiscoveryInv, DeviceTyped, SearchTyped, OneInFlight,
       NoOtherSearch, HasSession, Discovery!At, Searches, Discovery!IsActive
  <2> QED
    BY <1>2, <2>3 DEF DiscoveryInv
<1> QED
  BY <1>3, <1>4

LEMMA FindStep ==
  ASSUME Discovery!PeerDiscoveryAssumption, DiscoveryInv, NEW c \in Callers,
         Discovery!FindActive(c)
  PROVE  DiscoveryInv'
<1>1. Discovery!At(c) = "find" /\ UNCHANGED <<device, cache, sessions, request, restarts>>
  BY DEF Discovery!FindActive
<1>2. lookups[c] \in LookupRecords
  BY DEF DiscoveryInv, SearchTyped
<1>3. /\ sessions' \in [Sessions -> SessionRecords] /\ RequestsOwn' /\ Discovery!OneSearch'
      /\ cache' \in Discovery!Versions \cup {Discovery!NoEntry}
  BY <1>1 DEF DiscoveryInv, SearchTyped, DeviceTyped, RequestsOwn,
     Discovery!OneSearch, Discovery!IsActive
<1>4. inflight = {c} /\ \A d \in Callers \ {c} : Discovery!At(d) \in {"idle", "joined"}
  BY <1>1, Alone
<1>5. CASE /\ \A s \in Sessions : ~Discovery!IsActive(s)
           /\ Discovery!Go(c, "create") /\ UNCHANGED <<inflight, answer>>
  <2>1. "create" \in LookupStates
    BY DEF LookupStates
  <2>2. /\ lookups' \in [Callers -> LookupRecords] /\ Discovery!At(c)' = "create"
        /\ \A d \in Callers \ {c} : lookups'[d] = lookups[d]
    BY <1>5, <2>1, Goes
  <2>3. ~HasSession(c)'
    BY <2>2 DEF HasSession
  <2>4. \A s \in Sessions : ~Searches(s)'
    BY <1>1, <1>5 DEF Searches, Discovery!IsActive
  <2> QED
    BY <1>1, <1>3, <1>4, <1>5, <2>2, <2>3, <2>4, LookupKeeps
<1>6. ASSUME NEW s \in Sessions, Discovery!IsActive(s), sessions[s].state = "resolved",
             Discovery!Finish(c, sessions[s].result)
      PROVE  DiscoveryInv'
  <2>1. sessions[s].result \in Discovery!Versions
    BY DEF DiscoveryInv, SearchTyped, SessionRecords
  <2>2. \A r \in Sessions : sessions'[r].by = sessions[r].by
    BY <1>1
  <2> QED
    BY <1>1, <1>3, <1>6, <2>1, <2>2, DoneKeeps
<1>7. ASSUME NEW s \in Sessions, Discovery!IsActive(s), sessions[s].state # "resolved",
             lookups' = [lookups EXCEPT
               ![c] = [Discovery!Idle EXCEPT !.at = Discovery!StepFrom(sessions[s].state), !.of = s]],
             UNCHANGED <<inflight, answer>>
      PROVE  DiscoveryInv'
  <2>1. Discovery!StepFrom(sessions[s].state) \in {"pend", "search", "probe"}
    BY <1>7 DEF Discovery!StepFrom, Discovery!IsActive, Discovery!Active
  <2> DEFINE at == Discovery!StepFrom(sessions[s].state)
  <2>2. at \in LookupStates /\ at # "create"
    BY <2>1 DEF LookupStates
  <2>3. lookups' = [lookups EXCEPT ![c] = [Discovery!Idle EXCEPT !.at = at, !.of = s]]
    BY <1>7
  <2> HIDE DEF at
  <2>4. /\ lookups' \in [Callers -> LookupRecords] /\ Discovery!At(c)' = at /\ lookups'[c].of = s
        /\ \A d \in Callers \ {c} : lookups'[d] = lookups[d]
    BY <2>2, <2>3, TakesUp
  <2>5. sessions'[s].by = "lookup" => \A r \in Sessions : Searches(r)' => r = s
    BY <1>1, <1>7 DEF DiscoveryInv, Discovery!OneSearch, Searches, Discovery!IsActive
  <2> QED
    BY <1>1, <1>3, <1>4, <1>7, <2>2, <2>4, <2>5, LookupKeeps
<1> QED
  BY <1>5, <1>6, <1>7 DEF Discovery!FindActive

LEMMA CreateStep ==
  ASSUME Discovery!PeerDiscoveryAssumption, DiscoveryInv, NEW c \in Callers,
         Discovery!Create(c)
  PROVE  DiscoveryInv'
<1>1. PICK s \in Sessions :
        /\ Discovery!Free(s)
        /\ sessions' = [sessions EXCEPT ![s] = Discovery!NewSession("lookup")]
        /\ lookups' = [lookups EXCEPT ![c] = [Discovery!Idle EXCEPT !.at = "pend", !.of = s]]
  BY DEF Discovery!Create
<1>2. Discovery!At(c) = "create" /\ UNCHANGED <<device, cache, inflight, request, answer, restarts>>
  BY DEF Discovery!Create
<1>3. inflight = {c} /\ \A d \in Callers \ {c} : Discovery!At(d) \in {"idle", "joined"}
  BY <1>2, Alone
<1>4. Discovery!NewSession("lookup") \in SessionRecords /\ Discovery!Unknown \in Discovery!Versions
  BY DEF Discovery!NewSession, SessionRecords, SessionStates, Discovery!Active,
     Discovery!Unknown, Discovery!Versions, Discovery!PeerDiscoveryAssumption
<1>5. /\ sessions' \in [Sessions -> SessionRecords]
      /\ \A r \in Sessions \ {s} : sessions'[r] = sessions[r]
  BY <1>1, <1>4 DEF DiscoveryInv, SearchTyped
<1>6. RequestsOwn'
  BY <1>1, <1>2, <1>5 DEF DiscoveryInv, RequestsOwn, Discovery!Free, SearchTyped
<1>7. \A r \in Sessions : Searches(r)' => r = s
  BY <1>2, <1>5 DEF DiscoveryInv, NoOtherSearch, Searches, Discovery!IsActive
<1>8. Discovery!OneSearch'
  BY <1>7 DEF Discovery!OneSearch, Searches
<1>9. "pend" \in LookupStates
  BY DEF LookupStates
<1>10. /\ lookups' \in [Callers -> LookupRecords] /\ Discovery!At(c)' = "pend" /\ lookups'[c].of = s
       /\ \A d \in Callers \ {c} : lookups'[d] = lookups[d]
  BY <1>1, <1>9, TakesUp
<1>11. cache' \in Discovery!Versions \cup {Discovery!NoEntry}
  BY <1>2 DEF DiscoveryInv, DeviceTyped
<1> QED
  BY <1>2, <1>3, <1>5, <1>6, <1>7, <1>8, <1>10, <1>11, LookupKeeps

LEMMA AdvanceStep ==
  ASSUME Discovery!PeerDiscoveryAssumption, DiscoveryInv, NEW c \in Callers,
         Discovery!Pend(c) \/ Discovery!Search(c)
  PROVE  DiscoveryInv'
<1>1. PICK to \in {"pending", "searching"}, next \in {"search", "probe"} :
        /\ HasSession(c) /\ Discovery!At(c) \in {"pend", "search"}
        /\ Discovery!SetState(lookups[c].of, to) /\ Discovery!Go(c, next)
        /\ UNCHANGED <<device, cache, inflight, request, answer, restarts>>
  BY DEF Discovery!Pend, Discovery!Search, Discovery!Advance, HasSession
<1>2. inflight = {c} /\ \A d \in Callers \ {c} : Discovery!At(d) \in {"idle", "joined"}
  BY <1>1, Alone
<1> DEFINE of == lookups[c].of
<1>3. of \in Sessions /\ lookups[c] \in LookupRecords /\ sessions[of] \in SessionRecords
  BY <1>1 DEF DiscoveryInv, SearchTyped
<1>4. sessions' = [sessions EXCEPT
        ![lookups[c].of] = [@ EXCEPT !.state = to, !.result = sessions[of].result]]
  BY <1>1, <1>3 DEF Discovery!SetState, SessionRecords
<1>5. to \in SessionStates /\ sessions[of].result \in Discovery!Versions
  BY <1>3 DEF SessionStates, Discovery!Active, SessionRecords
<1>6. /\ sessions' \in [Sessions -> SessionRecords] /\ RequestsOwn' /\ Discovery!OneSearch'
      /\ sessions'[of].by = "lookup" => \A s \in Sessions : Searches(s)' => s = of
  BY <1>1, <1>4, <1>5, OwnSession
<1>7. cache' \in Discovery!Versions \cup {Discovery!NoEntry} /\ next \in LookupStates /\ next # "create"
  BY <1>1 DEF DiscoveryInv, DeviceTyped, LookupStates
<1>8. /\ lookups' \in [Callers -> LookupRecords] /\ Discovery!At(c)' = next /\ lookups'[c].of = of
      /\ \A d \in Callers \ {c} : lookups'[d] = lookups[d]
  BY <1>1, <1>7, Goes
<1> QED
  BY <1>1, <1>2, <1>3, <1>6, <1>7, <1>8, LookupKeeps

\* The steps that leave the sessions alone.
LEMMA ResolvingSteps ==
  ASSUME Discovery!PeerDiscoveryAssumption, DiscoveryInv, NEW c \in Callers,
         Discovery!Probe(c) \/ Discovery!ReadRegistry(c) \/ Discovery!FillCache(c)
  PROVE  DiscoveryInv'
<1>1. /\ Discovery!At(c) \in {"probe", "registry", "cache"} /\ HasSession(c)
      /\ UNCHANGED <<device, sessions, inflight, request, answer, restarts>>
  BY DEF Discovery!Probe, Discovery!ReadRegistry, Discovery!FillCache, HasSession
<1>2. inflight = {c} /\ \A d \in Callers \ {c} : Discovery!At(d) \in {"idle", "joined"}
  BY <1>1, Alone
<1>3. lookups[c] \in LookupRecords /\ lookups[c].of \in Sessions
  BY <1>1 DEF DiscoveryInv, SearchTyped
<1>4. /\ sessions' \in [Sessions -> SessionRecords] /\ RequestsOwn' /\ Discovery!OneSearch'
      /\ sessions'[lookups[c].of].by = "lookup" =>
           \A s \in Sessions : Searches(s)' => s = lookups[c].of
  BY <1>1 DEF DiscoveryInv, SearchTyped, RequestsOwn, Discovery!OneSearch,
     Discovery!IsActive, NoOtherSearch, Searches
<1>5. device.version \in Discovery!Versions /\ cache \in Discovery!Versions \cup {Discovery!NoEntry} /\ Discovery!Unknown \in Discovery!Versions
  BY DEF DiscoveryInv, DeviceTyped, Discovery!Unknown, Discovery!Versions,
     Discovery!PeerDiscoveryAssumption
<1>6. /\ DOMAIN lookups = Callers
      /\ \A d \in Callers \ {c} : lookups'[d] = lookups[d]
      /\ lookups' \in [Callers -> LookupRecords]
      /\ Discovery!At(c)' \in {"registry", "cache", "resolved", "failed"}
      /\ lookups'[c].of = lookups[c].of
  <2>1. CASE Discovery!Probe(c)
    <3> DEFINE at == IF cache = Discovery!NoEntry THEN "registry"
                     ELSE IF cache = Discovery!Unknown THEN "cache" ELSE "resolved"
               found == IF cache = Discovery!NoEntry THEN Discovery!Unknown ELSE cache
    <3>1. at \in {"registry", "cache", "resolved", "failed"} /\ found \in Discovery!Versions
      BY <1>5
    <3>2. lookups' = [lookups EXCEPT ![c].at = at, ![c].found = found]
      BY <2>1 DEF Discovery!Probe
    <3> HIDE DEF at, found
    <3> QED
      BY <1>3, <3>1, <3>2 DEF DiscoveryInv, SearchTyped, LookupRecords, LookupStates,
         Discovery!At
  <2>2. CASE Discovery!ReadRegistry(c)
    <3>1. lookups' = [lookups EXCEPT ![c].at = "cache", ![c].found = device.version]
      BY <2>2 DEF Discovery!ReadRegistry
    <3> QED
      BY <1>3, <1>5, <3>1 DEF DiscoveryInv, SearchTyped, LookupRecords, LookupStates,
         Discovery!At
  <2>3. CASE Discovery!FillCache(c)
    <3> DEFINE at == IF lookups[c].found = Discovery!Unknown THEN "failed" ELSE "resolved"
    <3>1. at \in LookupStates /\ at \in {"registry", "cache", "resolved", "failed"}
      BY DEF LookupStates
    <3>2. Discovery!Go(c, at)
      BY <2>3 DEF Discovery!FillCache
    <3> HIDE DEF at
    <3> QED
      BY <3>1, <3>2, Goes DEF DiscoveryInv, SearchTyped
  <2> QED
    BY <2>1, <2>2, <2>3
<1>7. cache' \in Discovery!Versions \cup {Discovery!NoEntry}
  BY <1>3 DEF DiscoveryInv, DeviceTyped, Discovery!Probe, Discovery!ReadRegistry,
     Discovery!FillCache, LookupRecords
<1>8. Discovery!At(c)' # "create"
  BY <1>6
<1> QED
  BY <1>1, <1>2, <1>3, <1>4, <1>6, <1>7, <1>8, LookupKeeps

LEMMA ConcludeStep ==
  ASSUME Discovery!PeerDiscoveryAssumption, DiscoveryInv, NEW c \in Callers,
         Discovery!Conclude(c)
  PROVE  DiscoveryInv'
<1>1. /\ Discovery!At(c) \in {"resolved", "failed"} /\ HasSession(c)
      /\ Discovery!At(c) \notin {"idle", "joined"}
      /\ Discovery!Finish(c, lookups[c].found) /\ UNCHANGED <<device, cache, request, restarts>>
  BY DEF Discovery!Conclude, HasSession
<1>2. lookups[c].found \in Discovery!Versions /\ Discovery!At(c) \in SessionStates
  BY <1>1 DEF DiscoveryInv, SearchTyped, LookupRecords, SessionStates, Discovery!Active
<1>3. sessions' = [sessions EXCEPT
        ![lookups[c].of] = [@ EXCEPT !.state = Discovery!At(c), !.result = lookups[c].found]]
  BY DEF Discovery!Conclude
<1>4. /\ sessions' \in [Sessions -> SessionRecords] /\ Discovery!OneSearch'
      /\ \A s \in Sessions : sessions'[s].by = sessions[s].by
  BY <1>1, <1>2, <1>3, OwnSession
<1> QED
  BY <1>1, <1>2, <1>4, DoneKeeps

\* What other requests do to sessions, and a restart.
LEMMA AskStep ==
  ASSUME Discovery!PeerDiscoveryAssumption, DiscoveryInv, NEW s \in Sessions,
         (\E to \in Requests : Discovery!Ask(s, to)) \/ Discovery!AskForSession(s)
  PROVE  DiscoveryInv'
<1>1. PICK to \in RequestStates \ {"none", "pending"} : request' = [of |-> s, to |-> to]
  BY DEF Discovery!Ask, Discovery!AskForSession, Discovery!Ends, RequestStates
<1>2. UNCHANGED <<device, cache, sessions, lookups, inflight, answer, restarts>>
  BY DEF Discovery!Ask, Discovery!AskForSession
<1> QED
  BY <1>1, <1>2 DEF DiscoveryInv, DeviceTyped, SearchTyped, OneInFlight, NoOtherSearch,
     RequestsOwn, Discovery!OneSearch, HasSession, Discovery!At, Searches, Discovery!IsActive, RequestStates

LEMMA AnswerStep ==
  ASSUME Discovery!PeerDiscoveryAssumption, DiscoveryInv, Discovery!Answer
  PROVE  DiscoveryInv'
<1>1. UNCHANGED <<device, cache, lookups, inflight, answer, restarts>>
  BY DEF Discovery!Answer
<1> PICK of : of = request.of
  OBVIOUS
<1>2. request.to # "none" => of \in Sessions
  BY DEF DiscoveryInv, SearchTyped
<1>3. DeviceTyped'
  BY <1>1 DEF DiscoveryInv, DeviceTyped
<1>4. /\ request' \in [of : Sessions \cup {"none"}, to : RequestStates]
      /\ request'.to # "none" => request'.of \in Sessions
      /\ request'.to = "pending" => request.to = "created" /\ request'.of = of
  BY <1>2 DEF Discovery!Answer, DiscoveryInv, SearchTyped, RequestStates,
     Discovery!Nothing
<1>5. /\ sessions' \in [Sessions -> SessionRecords]
      /\ \A s \in Sessions \ {of} : sessions'[s] = sessions[s]
  BY DEF Discovery!Answer, Discovery!SetState, DiscoveryInv, SearchTyped,
     SessionRecords, Discovery!NewSession, SessionStates, Discovery!Active,
     RequestStates, Discovery!Unknown, Discovery!Versions,
     Discovery!PeerDiscoveryAssumption
<1>6. of \in Sessions => ~Searches(of)' /\ (sessions'[of].by = "lookup" =>
                                               sessions[of].by = "lookup")
  BY <1>5 DEF Discovery!Answer, Discovery!SetState, DiscoveryInv, SearchTyped,
     SessionRecords, Discovery!NewSession, RequestsOwn, Searches, Discovery!IsActive,
     Discovery!Active, RequestStates
<1>7. request.to = "created" /\ of \in Sessions => sessions'[of].by = "request"
  BY DEF Discovery!Answer, Discovery!NewSession, DiscoveryInv, SearchTyped
<1>8. RequestsOwn'
  BY <1>2, <1>4, <1>7 DEF RequestsOwn
<1>9. \A s \in Sessions : Searches(s)' => Searches(s) /\ s # of
  BY <1>5, <1>6 DEF Searches, Discovery!IsActive
<1>10. \A s \in Sessions : sessions'[s].by = "lookup" => sessions[s].by = "lookup"
  BY <1>5, <1>6
<1>11. Discovery!OneSearch'
  BY <1>9 DEF Discovery!OneSearch, Searches, DiscoveryInv
<1>12. SearchTyped' /\ OneInFlight'
  BY <1>1, <1>4, <1>5 DEF SearchTyped, OneInFlight, DiscoveryInv, HasSession,
     Discovery!At
<1>13. NoOtherSearch'
  BY <1>1, <1>9, <1>10 DEF NoOtherSearch, DiscoveryInv, HasSession, Discovery!At,
     SearchTyped
<1> QED
  BY <1>3, <1>8, <1>11, <1>12, <1>13 DEF DiscoveryInv

LEMMA RestartStep ==
  ASSUME Discovery!PeerDiscoveryAssumption, DiscoveryInv, Discovery!Restart
  PROVE  DiscoveryInv'
<1>1. DeviceTyped'
  <2>1. device' \in [version : Discovery!Versions, made :
             Discovery!Versions, writing : BOOLEAN]
    BY DEF Discovery!Restart, DiscoveryInv, DeviceTyped
  <2>2. restarts' \in 0..MaxRestarts
    BY DEF Discovery!Restart, DiscoveryInv, DeviceTyped,
       Discovery!PeerDiscoveryAssumption
  <2> QED
    BY <2>1, <2>2 DEF Discovery!Restart, DiscoveryInv, DeviceTyped
<1>2. \A c \in Callers : Discovery!At(c)' = "idle" /\ ~HasSession(c)'
  BY DEF Discovery!Restart, Discovery!At, Discovery!Idle, HasSession
<1>3. SearchTyped'
  BY <1>2 DEF Discovery!Restart, DiscoveryInv, SearchTyped, Discovery!Idle,
     Discovery!Nothing, RequestStates, LookupRecords, LookupStates, Discovery!Unknown,
     Discovery!Versions, Discovery!PeerDiscoveryAssumption
<1>4. OneInFlight' /\ NoOtherSearch'
  BY <1>2 DEF OneInFlight, NoOtherSearch
<1> QED
  BY <1>1, <1>3, <1>4 DEF Discovery!Restart, DiscoveryInv, RequestsOwn,
     Discovery!OneSearch, Discovery!IsActive, Discovery!Nothing

LEMMA DiscoveryStep ==
  ASSUME Discovery!PeerDiscoveryAssumption, DiscoveryInv, [Discovery!Next]_Discovery!vars
  PROVE  DiscoveryInv'
<1>1. CASE Discovery!Register \/ Discovery!Deregister \/ Discovery!Invalidate \/ Discovery!Forget
  BY <1>1, DeviceSteps
<1>2. ASSUME NEW c \in Callers, Discovery!Lookup(c) \/ Discovery!Resolve(c)
      PROVE  DiscoveryInv'
  BY <1>2, LookupStep, FindStep, CreateStep, AdvanceStep, ResolvingSteps, ConcludeStep
  DEF Discovery!Resolve
<1>3. ASSUME NEW s \in Sessions, (\E to \in Requests : Discovery!Ask(s,
             to)) \/ Discovery!AskForSession(s)
      PROVE  DiscoveryInv'
  BY <1>3, AskStep
<1>4. CASE UNCHANGED Discovery!vars
  BY <1>4 DEF Discovery!vars, DiscoveryInv, DeviceTyped, SearchTyped, OneInFlight,
     NoOtherSearch, RequestsOwn, Discovery!OneSearch, HasSession, Discovery!At,
     Searches, Discovery!IsActive
<1> QED
  BY <1>1, <1>2, <1>3, <1>4, AnswerStep, RestartStep DEF Discovery!Next

LEMMA DiscoveryMeans ==
  ASSUME Discovery!PeerDiscoveryAssumption, DiscoveryInv
  PROVE  Discovery!OneSearch /\ Discovery!TypeOK
BY DEF DiscoveryInv, Discovery!TypeOK, DeviceTyped, SearchTyped, SessionRecords,
   LookupRecords, SessionStates, LookupStates, Discovery!At

\* Lookups of one key never have two active sessions between them.
THEOREM LookupsSearchOnce == ASSUME Discovery!PeerDiscoveryAssumption
                             PROVE  Discovery!Spec => []Discovery!OneSearch
BY InitDiscovery, DiscoveryStep, DiscoveryMeans, PTL DEF Discovery!Spec

-----------------------------------------------------------------------------
TransferStateNames ==
     Transfer!Working \cup Transfer!UnderRepair \cup Transfer!Terminal \cup {"interrupted"}
TransferRecords ==
  [state : TransferStateNames, count : 0..MaxAttempts, high : 0..Chunks, since : BOOLEAN]
TransferCalls ==
  {Transfer!Idle}
             \cup [op : {"advance"}, upTo : 0..Chunks, copy : TransferRecords]
             \cup [op : {"answer"}, to :
                  Transfer!Working \cup Transfer!Terminal, copy : TransferRecords]
             \cup [op : {"interrupt", "stop", "begin", "giveUp", "conclude"},
                   copy : TransferRecords]
             \cup [op : {"hook", "move", "switch"}, thenConclude : BOOLEAN, copy :
                  TransferRecords]

TransferTyped ==
  /\ record \in TransferRecords
  /\ calls \in [Callers -> TransferCalls]
  /\ crashes \in 0..MaxCrashes
\* An attempt is only begun while there are attempts left.
AttemptsLeft == \A c \in Callers : Transfer!Is(c, "begin") =>
     calls[c].copy.count < MaxAttempts
\* One checkpoint is written at a time, and its copy has the mark of the record.
AdvanceAlone ==
  \A c \in Callers : Transfer!Is(c, "advance") =>
    /\ calls[c].copy.high = record.high
    /\ \A d \in Callers : Transfer!Is(d, "advance") => d = c

TransferInv == TransferTyped /\ AttemptsLeft /\ AdvanceAlone /\ Transfer!RepairIsAttended

Repairing == {"hook", "move", "switch"}

LEMMA InitTransfer ==
  ASSUME Transfer!TransferReliabilityAssumption PROVE Transfer!Init => TransferInv
<1> SUFFICES ASSUME Transfer!Init PROVE TransferInv
  OBVIOUS
<1>1. record \in TransferRecords
  <2>1. "tracking" \in TransferStateNames /\ 0 \in 0..MaxAttempts /\ 0 \in 0..Chunks
    BY DEF TransferStateNames, Transfer!Working, Transfer!TransferReliabilityAssumption
  <2> QED
    BY <2>1 DEF Transfer!Init, TransferRecords
<1>2. TransferTyped
  BY <1>1 DEF Transfer!Init, TransferTyped, TransferCalls,
     Transfer!TransferReliabilityAssumption
<1>3. \A c \in Callers : calls[c].op = "idle"
  BY DEF Transfer!Init, Transfer!Idle
<1> QED
  BY <1>2, <1>3 DEF TransferInv, AttemptsLeft, AdvanceAlone,
     Transfer!RepairIsAttended, Transfer!Is, Transfer!Init, Transfer!UnderRepair

\* One request goes on.
LEMMA TransferCallKeeps ==
  ASSUME Transfer!TransferReliabilityAssumption, TransferInv, NEW c \in Callers,
         NEW r \in TransferCalls, Transfer!Go(c, r),
         record' \in TransferRecords, crashes' = crashes,
         r.op = "begin" => r.copy.count < MaxAttempts,
         record'.high = record.high \/ Transfer!Is(c, "advance"),
         r.op = "advance" => /\ r.copy.high = record'.high
                             /\ \A d \in Callers : ~Transfer!Is(d, "advance"),
         record'.state \in Transfer!UnderRepair =>
           r.op \in Repairing \/ (record'.state = record.state /\ calls[c].op \notin Repairing)
  PROVE  TransferInv'
<1>1. /\ DOMAIN calls = Callers /\ calls'[c] = r
      /\ \A d \in Callers \ {c} : calls'[d] = calls[d]
      /\ calls' \in [Callers -> TransferCalls]
  BY DEF TransferInv, TransferTyped, Transfer!Go
<1>2. TransferTyped'
  BY <1>1 DEF TransferInv, TransferTyped
<1>3. AttemptsLeft'
  BY <1>1 DEF TransferInv, AttemptsLeft, Transfer!Is
<1>4. AdvanceAlone'
  BY <1>1 DEF TransferInv, AdvanceAlone, Transfer!Is
<1>5. Transfer!RepairIsAttended'
  <2> SUFFICES ASSUME record'.state \in Transfer!UnderRepair, crashes' = 0
               PROVE  \E d \in Callers : calls'[d].op \in Repairing
    BY DEF Transfer!RepairIsAttended, Transfer!UnderRepair, Repairing
  <2>1. CASE r.op \in Repairing
    BY <1>1, <2>1
  <2>2. CASE r.op \notin Repairing
    <3>1. PICK d \in Callers : calls[d].op \in Repairing
      BY <2>2 DEF TransferInv, Transfer!RepairIsAttended, Transfer!UnderRepair,
         Repairing
    <3>2. d # c
      BY <2>2, <3>1
    <3> QED
      BY <1>1, <3>1, <3>2
  <2> QED
    BY <2>1, <2>2
<1> QED
  BY <1>2, <1>3, <1>4, <1>5 DEF TransferInv

\* What a call's copy is.
LEMMA TransferCopy ==
  ASSUME TransferInv, NEW c \in Callers
  PROVE  /\ calls[c] \in TransferCalls
         /\ calls[c].op # "idle" => calls[c].copy \in TransferRecords
         /\ Transfer!Is(c, "advance") => calls[c].upTo \in 0..Chunks
         /\ Transfer!Is(c, "answer") =>
              calls[c].to \in Transfer!Working \cup Transfer!Terminal
         /\ calls[c].op \in Repairing => calls[c] \in
              [op : Repairing, thenConclude : BOOLEAN, copy : TransferRecords]
<1>1. calls[c] \in TransferCalls
  BY DEF TransferInv, TransferTyped
<1> QED
  BY <1>1 DEF TransferCalls, Transfer!Idle, Transfer!Is, Repairing

\* Requests as they are asked.
LEMMA IdleCall == Transfer!Idle \in TransferCalls /\ Transfer!Idle.op = "idle"
  BY DEF TransferCalls, Transfer!Idle

LEMMA ShortCall ==
  ASSUME NEW op \in {"interrupt", "stop", "begin", "giveUp", "conclude"},
         NEW copy \in TransferRecords
  PROVE  /\ [op |-> op, copy |-> copy] \in TransferCalls
         /\ [op |-> op, copy |-> copy].op = op /\ [op |-> op, copy |-> copy].copy = copy
  BY DEF TransferCalls

LEMMA AttemptCall ==
  ASSUME Transfer!TransferReliabilityAssumption, NEW copy \in TransferRecords,
         NEW late \in BOOLEAN
  PROVE  /\ Transfer!Attempt(copy, late) \in TransferCalls
         /\ Transfer!Attempt(copy, late).op \in {"begin", "giveUp"}
         /\ Transfer!Attempt(copy, late).op = "begin" =>
              Transfer!Attempt(copy, late).copy.count < MaxAttempts
<1> DEFINE op == IF late \/ copy.count >= MaxAttempts THEN "giveUp" ELSE "begin"
<1>1. op \in {"begin", "giveUp"} /\ (op = "begin" => ~(copy.count >= MaxAttempts))
  OBVIOUS
<1>2. copy.count \in Nat /\ MaxAttempts \in Nat
  BY DEF TransferRecords, Transfer!TransferReliabilityAssumption
<1>3. Transfer!Attempt(copy, late) = [op |-> op, copy |-> copy]
  BY DEF Transfer!Attempt
<1> HIDE DEF op
<1> QED
  BY <1>1, <1>2, <1>3, ShortCall

LEMMA AskingSteps ==
  ASSUME Transfer!TransferReliabilityAssumption, TransferInv, NEW c \in Callers,
         \/ \E n \in 0..Chunks : Transfer!Report(c, n)
         \/ \E to \in {"tracking", "completed", "abandoned"} : Transfer!Ask(c, to)
         \/ Transfer!Interrupt(c) \/ Transfer!Recover(c) \/ Transfer!Migrate(c)
  PROVE  TransferInv' /\ record' = record
<1>1. record' = record /\ crashes' = crashes /\ calls[c].op = "idle"
  BY DEF Transfer!Report, Transfer!Ask, Transfer!Interrupt, Transfer!Recover,
     Transfer!Migrate, Transfer!Is
<1>2. record \in TransferRecords
  BY DEF TransferInv, TransferTyped
<1>3. calls[c].op \notin Repairing
  BY <1>1 DEF Repairing
<1>4. ASSUME NEW n \in 0..Chunks, Transfer!Report(c, n) PROVE TransferInv'
  <2> DEFINE r == [op |-> "advance", upTo |-> n, copy |-> record]
  <2>1. r \in TransferCalls /\ r.op = "advance" /\ r.copy = record
    BY <1>2 DEF TransferCalls
  <2>2. Transfer!Go(c, r) /\ \A d \in Callers : ~Transfer!Is(d, "advance")
    BY <1>4 DEF Transfer!Report
  <2> HIDE DEF r
  <2> QED
    BY <1>1, <1>2, <1>3, <2>1, <2>2, TransferCallKeeps
<1>5. ASSUME NEW to \in {"tracking", "completed", "abandoned"}, Transfer!Ask(c, to)
      PROVE  TransferInv'
  <2> DEFINE r == [op |-> "answer", to |-> to, copy |-> record]
  <2>1. r \in TransferCalls /\ r.op = "answer"
    BY <1>2 DEF TransferCalls, Transfer!Working, Transfer!Terminal
  <2>2. Transfer!Go(c, r)
    BY <1>5 DEF Transfer!Ask
  <2> HIDE DEF r
  <2> QED
    BY <1>1, <1>2, <1>3, <2>1, <2>2, TransferCallKeeps
<1>6. CASE Transfer!Interrupt(c)
  <2> DEFINE r == [op |-> "interrupt", copy |-> record]
  <2>1. r \in TransferCalls /\ r.op = "interrupt"
    BY <1>2, ShortCall
  <2>2. Transfer!Go(c, r)
    BY <1>6 DEF Transfer!Interrupt
  <2> HIDE DEF r
  <2> QED
    BY <1>1, <1>2, <1>3, <2>1, <2>2, TransferCallKeeps
<1>7. CASE Transfer!Recover(c)
  <2>1. PICK late \in BOOLEAN :
          Transfer!Go(c, IF Transfer!Stopped THEN Transfer!Attempt(record, late) ELSE [op |-> "stop", copy |-> record])
    <3>1. (Transfer!Stopped /\ record.since) \in BOOLEAN
      BY <1>2 DEF TransferRecords, Transfer!Stopped
    <3> QED
      BY <1>7, <3>1 DEF Transfer!Recover
  <2>2. CASE Transfer!Stopped
    <3>1. Transfer!Go(c, Transfer!Attempt(record, late))
      BY <2>1, <2>2
    <3> QED
      BY <1>1, <1>2, <1>3, <3>1, AttemptCall, TransferCallKeeps
  <2>3. CASE ~Transfer!Stopped
    <3> DEFINE r == [op |-> "stop", copy |-> record]
    <3>1. r \in TransferCalls /\ r.op = "stop"
      BY <1>2, ShortCall
    <3>2. Transfer!Go(c, r)
      BY <2>1, <2>3
    <3> HIDE DEF r
    <3> QED
      BY <1>1, <1>2, <1>3, <3>1, <3>2, TransferCallKeeps
  <2> QED
    BY <2>2, <2>3
<1>8. CASE Transfer!Migrate(c)
  <2> DEFINE r == [op |-> "move", thenConclude |-> FALSE, copy |-> record]
  <2>1. r \in TransferCalls /\ r.op = "move"
    BY <1>2 DEF TransferCalls
  <2>2. Transfer!Go(c, r)
    BY <1>8 DEF Transfer!Migrate
  <2> HIDE DEF r
  <2> QED
    BY <1>1, <1>2, <1>3, <2>1, <2>2, TransferCallKeeps
<1> QED
  BY <1>1, <1>4, <1>5, <1>6, <1>7, <1>8

\* A write of the state, and of fields besides the mark.
LEMMA StateTyped ==
  ASSUME TransferInv, NEW c \in Callers, NEW to \in TransferStateNames,
         Transfer!SetState(c, to)
  PROVE  record' \in TransferRecords /\ record'.high = record.high /\ record'.state = to
  BY DEF TransferInv, TransferTyped, TransferRecords, Transfer!Others, Transfer!SetState

LEMMA SinceTyped ==
  ASSUME TransferInv, NEW c \in Callers, NEW since \in BOOLEAN,
         NEW to \in TransferStateNames,
         \/ record' = [Transfer!Others(c) EXCEPT !.since = since] /\ to = record.state
         \/ record' = [Transfer!Others(c) EXCEPT !.state = to, !.since = since]
  PROVE  record' \in TransferRecords /\ record'.high = record.high /\ record'.state = to
<1>1. CASE record' = [Transfer!Others(c) EXCEPT !.since = since] /\ to = record.state
  BY <1>1 DEF TransferInv, TransferTyped, TransferRecords, Transfer!Others
<1>2. CASE record' = [Transfer!Others(c) EXCEPT !.state = to, !.since = since]
  BY <1>2 DEF TransferInv, TransferTyped, TransferRecords, Transfer!Others
<1> QED
  BY <1>1, <1>2

LEMMA CountTyped ==
  ASSUME TransferInv, NEW c \in Callers, NEW count \in 0..MaxAttempts,
         NEW to \in TransferStateNames,
         record' = [Transfer!Others(c) EXCEPT !.state = to, !.count = count]
  PROVE  record' \in TransferRecords /\ record'.high = record.high /\ record'.state = to
  BY DEF TransferInv, TransferTyped, TransferRecords, Transfer!Others

LEMMA TransferAdvances ==
  ASSUME Transfer!TransferReliabilityAssumption, TransferInv, NEW c \in Callers,
         Transfer!Advance(c)
  PROVE  TransferInv' /\ Transfer!ResumesForward
<1>1. /\ Transfer!Is(c, "advance") /\ crashes' = crashes /\ calls[c].op # "idle"
      /\ calls[c].op \notin Repairing
  BY DEF Transfer!Advance, Transfer!Is, Repairing
<1>2. /\ calls[c].copy \in TransferRecords /\ calls[c].upTo \in 0..Chunks
      /\ calls[c].copy.high = record.high /\ record \in TransferRecords
  BY <1>1, TransferCopy DEF TransferInv, AdvanceAlone, TransferTyped
<1> DEFINE high == IF calls[c].upTo > calls[c].copy.high THEN calls[c].upTo
                   ELSE calls[c].copy.high
<1>3. record' = [Transfer!Others(c) EXCEPT !.high = high]
  BY DEF Transfer!Advance
<1>4. record.high \in 0..Chunks
  BY <1>2 DEF TransferRecords
<1>5. high \in 0..Chunks /\ high >= record.high
  BY <1>2, <1>4 DEF Transfer!TransferReliabilityAssumption
<1> HIDE DEF high
<1>6. record' \in TransferRecords /\ record'.high = high /\ record'.state = record.state
  BY <1>2, <1>3, <1>5 DEF Transfer!Others, TransferRecords
<1>7. ASSUME Transfer!End(c) PROVE TransferInv'
  BY <1>1, <1>6, <1>7, IdleCall, TransferCallKeeps DEF Transfer!End
<1>8. ASSUME NEW to \in Transfer!Working, Transfer!Go(c, [op |-> "answer", to |-> to,
             copy |-> record'])
      PROVE  TransferInv'
  <2>1. PICK r : r = [op |-> "answer", to |-> to, copy |-> record']
    OBVIOUS
  <2>2. r \in TransferCalls /\ r.op = "answer"
    BY <1>6, <2>1 DEF TransferCalls
  <2>3. Transfer!Go(c, r)
    BY <1>8, <2>1
  <2> QED
    BY <1>1, <1>6, <2>2, <2>3, TransferCallKeeps
<1>9. TransferInv'
  BY <1>7, <1>8 DEF Transfer!Advance
<1> QED
  BY <1>5, <1>6, <1>9 DEF Transfer!ResumesForward

\* The other steps leave the mark as it is.
LEMMA TransferWrites ==
  ASSUME Transfer!TransferReliabilityAssumption, TransferInv, NEW c \in Callers,
         \/ Transfer!Answer(c) \/ Transfer!Stop(c) \/ Transfer!Begin(c) \/ Transfer!GiveUp(c) \/ Transfer!Recovered(c)
         \/ Transfer!HookFails(c) \/ Transfer!Move(c) \/ Transfer!Switched(c) \/ Transfer!Conclude(c)
  PROVE  TransferInv' /\ record'.high = record.high
<1>1. crashes' = crashes /\ calls[c].op # "idle" /\ ~Transfer!Is(c, "advance")
  BY DEF Transfer!Answer, Transfer!Stop, Transfer!Begin, Transfer!GiveUp,
     Transfer!Recovered, Transfer!HookFails, Transfer!Move, Transfer!Switched,
     Transfer!Conclude, Transfer!Is
<1>2. /\ calls[c].copy \in TransferRecords /\ record \in TransferRecords
      /\ calls[c].copy.count \in 0..MaxAttempts /\ record.count \in 0..MaxAttempts
      /\ record.since \in BOOLEAN
  BY <1>1, TransferCopy DEF TransferInv, TransferTyped, TransferRecords
<1>3. /\ {"interrupted", "failed", "tracking", "recovering", "migrating"}
           \subseteq TransferStateNames
      /\ {"interrupted", "failed", "tracking"} \cap Transfer!UnderRepair = {}
      /\ Transfer!IfNotLast(calls[c].copy) \in {"interrupted", "failed"}
  BY DEF TransferStateNames, Transfer!Working, Transfer!UnderRepair,
     Transfer!Terminal, Transfer!IfNotLast
<1>4. ASSUME NEW to \in {"interrupted", "failed",
             "tracking"} \cup Transfer!Working \cup Transfer!Terminal,
             Transfer!SetState(c, to), Transfer!End(c)
      PROVE  TransferInv' /\ record'.high = record.high
  <2>1. to \in TransferStateNames /\ to \notin Transfer!UnderRepair
    BY DEF TransferStateNames, Transfer!Working, Transfer!Terminal, Transfer!UnderRepair
  <2>2. record' \in TransferRecords /\ record'.high = record.high /\ record'.state = to
    BY <1>4, <2>1, StateTyped
  <2> QED
    BY <1>1, <1>4, <2>1, <2>2, IdleCall, TransferCallKeeps DEF Transfer!End
<1>5. CASE Transfer!Answer(c)
  BY <1>4, <1>5, TransferCopy DEF Transfer!Answer
<1>6. CASE Transfer!GiveUp(c)
  BY <1>4, <1>6 DEF Transfer!GiveUp
<1>7. CASE Transfer!HookFails(c)
  BY <1>3, <1>4, <1>7 DEF Transfer!HookFails
<1>8. CASE Transfer!Stop(c)
  <2>1. record' = [Transfer!Others(c) EXCEPT !.state = "interrupted", !.since = TRUE]
    BY <1>8 DEF Transfer!Stop
  <2>2. /\ record' \in TransferRecords /\ record'.high = record.high
        /\ record'.state \notin Transfer!UnderRepair
    BY <2>1, <1>3, SinceTyped
  <2>3. PICK copy : copy = record'
    OBVIOUS
  <2>4. CASE Transfer!Go(c, Transfer!Attempt(copy, FALSE))
    BY <1>1, <2>2, <2>3, <2>4, AttemptCall, TransferCallKeeps
  <2>5. CASE Transfer!End(c)
    BY <1>1, <2>2, <2>5, IdleCall, TransferCallKeeps DEF Transfer!End
  <2> QED
    BY <1>8, <2>2, <2>3, <2>4, <2>5 DEF Transfer!Stop
<1>9. CASE Transfer!Begin(c)
  <2>1. calls[c].copy.count + 1 \in 0..MaxAttempts
    BY <1>2, <1>9 DEF Transfer!Begin, TransferInv, AttemptsLeft,
       Transfer!TransferReliabilityAssumption
  <2>2. record' = [Transfer!Others(c) EXCEPT !.state = "recovering",
                                             !.count = calls[c].copy.count + 1]
    BY <1>9 DEF Transfer!Begin
  <2>3. record' \in TransferRecords /\ record'.high = record.high
    BY <2>1, <2>2, <1>3, CountTyped
  <2>4. PICK r : /\ Transfer!Go(c, r)
                 /\ \E next \in {"hook", "move"} :
                      r = [op |-> next, thenConclude |-> TRUE, copy |-> record']
    BY <1>9 DEF Transfer!Begin
  <2>5. r \in TransferCalls /\ r.op \in Repairing /\ r.op \notin {"begin", "advance"}
    BY <2>3, <2>4 DEF TransferCalls, Repairing
  <2> QED
    BY <1>1, <2>3, <2>4, <2>5, TransferCallKeeps
<1>10. CASE Transfer!Recovered(c)
  <2>1. record' = [Transfer!Others(c) EXCEPT !.state = "tracking", !.since = FALSE]
    BY <1>10 DEF Transfer!Recovered
  <2>2. /\ record' \in TransferRecords /\ record'.high = record.high
        /\ record'.state \notin Transfer!UnderRepair
    BY <2>1, <1>3, SinceTyped
  <2> QED
    BY <1>1, <1>10, <2>2, IdleCall, TransferCallKeeps DEF Transfer!Recovered,
       Transfer!End
<1>11. CASE Transfer!Move(c)
  <2>1. record' \in TransferRecords /\ record'.high = record.high
    BY <1>11, <1>3, StateTyped DEF Transfer!Move
  <2>2. PICK r : r = [calls[c] EXCEPT !.op = "switch"]
    OBVIOUS
  <2>3. calls[c] \in [op : Repairing, thenConclude : BOOLEAN, copy : TransferRecords]
    BY <1>11, TransferCopy DEF Transfer!Move, Transfer!Is, Repairing
  <2>4. r \in TransferCalls /\ r.op = "switch"
    BY <2>2, <2>3 DEF TransferCalls
  <2>5. Transfer!Go(c, r)
    BY <1>11, <2>2 DEF Transfer!Move
  <2> QED
    BY <1>1, <2>1, <2>4, <2>5, TransferCallKeeps DEF Repairing
<1>12. CASE Transfer!Switched(c)
  <2>1. PICK to \in {"tracking", "interrupted"} :
          /\ Transfer!SetState(c, to)
          /\ Transfer!End(c) \/ Transfer!Go(c, [op |-> "conclude", copy |-> record'])
    BY <1>12 DEF Transfer!Switched
  <2>2. /\ record' \in TransferRecords /\ record'.high = record.high
        /\ record'.state \notin Transfer!UnderRepair
    BY <2>1, <1>3, StateTyped
  <2>3. CASE Transfer!End(c)
    BY <1>1, <2>2, <2>3, IdleCall, TransferCallKeeps DEF Transfer!End
  <2>4. CASE Transfer!Go(c, [op |-> "conclude", copy |-> record'])
    <3>1. PICK r : Transfer!Go(c, r) /\ \E copy \in TransferRecords :
                                          r = [op |-> "conclude", copy |-> copy]
      BY <2>2, <2>4
    <3>2. r \in TransferCalls /\ r.op = "conclude"
      BY <3>1, ShortCall
    <3> QED
      BY <1>1, <2>2, <3>1, <3>2, TransferCallKeeps
  <2> QED
    BY <2>1, <2>2, <2>3, <2>4
<1>13. CASE Transfer!Conclude(c)
  <2>1. Transfer!End(c) /\ calls[c].op \notin Repairing
    BY <1>13 DEF Transfer!Conclude, Transfer!Is, Repairing
  <2>2. CASE calls[c].copy.state = "tracking"
    <3>1. /\ record' \in TransferRecords /\ record'.high = record.high
          /\ record'.state = record.state
      <4>1. record' = [Transfer!Others(c) EXCEPT !.since = FALSE]
        BY <1>13, <2>2 DEF Transfer!Conclude
      <4>2. record.state \in TransferStateNames
        BY <1>2 DEF TransferRecords
      <4> QED
        BY <4>1, <4>2, SinceTyped
    <3> QED
      BY <1>1, <2>1, <3>1, IdleCall, TransferCallKeeps DEF Transfer!End
  <2>3. CASE calls[c].copy.state # "tracking"
    BY <1>3, <1>4, <1>13, <2>3 DEF Transfer!Conclude
  <2> QED
    BY <2>2, <2>3
<1> QED
  BY <1>5, <1>6, <1>7, <1>8, <1>9, <1>10, <1>11, <1>12, <1>13

LEMMA CrashStep ==
  ASSUME Transfer!TransferReliabilityAssumption, TransferInv, Transfer!Crash
  PROVE  TransferInv' /\ record' = record
<1>1. /\ record' = record /\ calls' = [c \in Callers |-> Transfer!Idle] /\ crashes' = crashes + 1
      /\ crashes \in 0..MaxCrashes
  BY DEF Transfer!Crash, TransferInv, TransferTyped
<1>2. crashes' \in 0..MaxCrashes /\ crashes' # 0
  BY <1>1 DEF Transfer!Crash, Transfer!TransferReliabilityAssumption
<1>3. \A c \in Callers : calls'[c] \in TransferCalls /\ calls'[c].op = "idle"
  BY <1>1, IdleCall
<1>4. TransferTyped'
  BY <1>1, <1>2, <1>3 DEF TransferInv, TransferTyped
<1> QED
  BY <1>1, <1>2, <1>3, <1>4 DEF TransferInv, AttemptsLeft, AdvanceAlone,
     Transfer!RepairIsAttended, Transfer!Is

LEMMA TransferStep ==
  ASSUME Transfer!TransferReliabilityAssumption, TransferInv, [Transfer!Next]_Transfer!vars
  PROVE  TransferInv' /\ Transfer!ResumesForward
<1>1. record.high \in Nat
  BY DEF TransferInv, TransferTyped, TransferRecords,
     Transfer!TransferReliabilityAssumption
<1>2. record'.high = record.high => Transfer!ResumesForward
  BY <1>1 DEF Transfer!ResumesForward
<1>3. CASE UNCHANGED Transfer!vars
  BY <1>2, <1>3 DEF Transfer!vars, TransferInv, TransferTyped, AttemptsLeft,
     AdvanceAlone, Transfer!RepairIsAttended, Transfer!Is
<1>4. ASSUME NEW c \in Callers, Transfer!Step(c)
      PROVE  TransferInv' /\ Transfer!ResumesForward
  BY <1>2, <1>4, TransferAdvances, TransferWrites DEF Transfer!Step
<1>5. ASSUME NEW c \in Callers,
             \/ \E n \in 0..Chunks : Transfer!Report(c, n)
             \/ \E to \in {"tracking", "completed", "abandoned"} : Transfer!Ask(c, to)
             \/ Transfer!Interrupt(c) \/ Transfer!Recover(c) \/ Transfer!Migrate(c)
      PROVE  TransferInv' /\ Transfer!ResumesForward
  BY <1>2, <1>5, AskingSteps
<1>6. CASE Transfer!Crash
  BY <1>2, <1>6, CrashStep
<1> QED
  BY <1>3, <1>4, <1>5, <1>6 DEF Transfer!Next

LEMMA TransferMeans ==
  ASSUME TransferInv PROVE Transfer!RepairIsAttended /\ Transfer!TypeOK
<1>1. \A c \in Callers : calls[c] \in TransferCalls
  BY DEF TransferInv, TransferTyped
<1>2. \A r \in TransferCalls :
        r.op \in {"idle", "advance", "answer", "interrupt", "stop", "begin",
                         "giveUp", "hook", "move", "switch", "conclude"}
  BY DEF TransferCalls, Transfer!Idle
<1> QED
  BY <1>1, <1>2 DEF TransferInv, TransferTyped, TransferRecords, TransferStateNames,
     Transfer!TypeOK

\* A recovery resumes and never starts over.
THEOREM TransfersResumeForward ==
  ASSUME Transfer!TransferReliabilityAssumption
  PROVE  Transfer!Spec => [][Transfer!ResumesForward]_Transfer!vars
BY InitTransfer, TransferStep, PTL DEF Transfer!Spec

\* A transfer that says it is being recovered is, in a server that keeps running.
THEOREM RepairsAreAttended ==
  ASSUME Transfer!TransferReliabilityAssumption
  PROVE  Transfer!Spec => []Transfer!RepairIsAttended
BY InitTransfer, TransferStep, TransferMeans, PTL DEF Transfer!Spec

-----------------------------------------------------------------------------
SetVersions == 1..MaxVersion
SetRecords ==
  [state : {"registered", "advertised", "expired"}, version : SetVersions,
   says : SetVersions, lapsed : BOOLEAN]
CapabilityCalls ==
  [op : {"idle", "advertise", "refresh", "invalidate", "expire"}]
    \cup [op : {"update", "answer"}, copy : SetRecords]

\* A version of a set says one thing only: what a set says is counted as its
\* version is, in the record, in every copy and in the cache.
SetTells == Capabilities!Kept => set \in SetRecords /\ set.says = set.version
CopiesTell ==
  \A c \in Callers :
    /\ Capabilities!Is(c, "answer") => calls[c].copy.says = calls[c].copy.version
    /\ Capabilities!Is(c, "update") => /\ calls[c].copy.says = calls[c].copy.version
                                       /\ calls[c].copy.version < MaxVersion
CacheTells ==
  /\ cache \in [SetVersions -> SetVersions \cup {Capabilities!None}]
  /\ \A v \in SetVersions : cache[v] \in {Capabilities!None, v}

CapabilityInv ==
  /\ calls \in [Callers -> CapabilityCalls]
  /\ SetTells /\ CopiesTell /\ CacheTells

LEMMA InitCapabilities ==
  ASSUME Capabilities!CapabilityNegotiationAssumption
  PROVE  Capabilities!Init => CapabilityInv
BY DEF Capabilities!Init, CapabilityInv, CapabilityCalls, SetTells, CopiesTell,
   CacheTells, Capabilities!Kept, Capabilities!Idle, Capabilities!Is, SetVersions

\* One request goes on, the set and the cache tell what they told.
LEMMA CapabilityCallKeeps ==
  ASSUME CapabilityInv, NEW c \in Callers, NEW r \in CapabilityCalls, Capabilities!Go(c, r),
         r.op \in {"answer", "update"} => r.copy.says = r.copy.version,
         r.op = "update" => r.copy.version < MaxVersion,
         SetTells', CacheTells'
  PROVE  CapabilityInv'
<1>1. /\ DOMAIN calls = Callers /\ calls'[c] = r
      /\ \A d \in Callers \ {c} : calls'[d] = calls[d]
      /\ calls' \in [Callers -> CapabilityCalls]
  BY DEF CapabilityInv, Capabilities!Go
<1>2. CopiesTell'
  BY <1>1 DEF CapabilityInv, CopiesTell, Capabilities!Is
<1> QED
  BY <1>1, <1>2 DEF CapabilityInv

LEMMA CapabilityPlainCall ==
  ASSUME NEW op \in {"idle", "advertise", "refresh", "invalidate", "expire"}
  PROVE  [op |-> op] \in CapabilityCalls /\ [op |-> op].op = op
  BY DEF CapabilityCalls

LEMMA CapabilityCopy ==
  ASSUME NEW op \in {"update", "answer"}, NEW copy \in SetRecords
  PROVE  /\ [op |-> op, copy |-> copy] \in CapabilityCalls
         /\ [op |-> op, copy |-> copy].op = op /\ [op |-> op, copy |-> copy].copy = copy
  BY DEF CapabilityCalls

\* What a call has read.
LEMMA CapabilityCopyTyped ==
  ASSUME CapabilityInv, NEW c \in Callers, calls[c].op \in {"update", "answer"}
  PROVE  calls[c].copy \in SetRecords /\ calls[c].copy.says = calls[c].copy.version
<1>1. calls[c] \in CapabilityCalls
  BY DEF CapabilityInv
<1> QED
  BY <1>1 DEF CapabilityInv, CapabilityCalls, CopiesTell, Capabilities!Is

LEMMA ReadingSteps ==
  ASSUME CapabilityInv, NEW c \in Callers,
         Capabilities!Update(c) \/ Capabilities!Refresh(c) \/ Capabilities!NotFound(c) \/ Capabilities!Negotiate(c)
  PROVE  CapabilityInv'
<1>1. UNCHANGED <<set, cache>>
  BY DEF Capabilities!Update, Capabilities!Refresh, Capabilities!NotFound,
     Capabilities!Negotiate
<1>2. SetTells' /\ CacheTells'
  BY <1>1 DEF CapabilityInv, SetTells, CacheTells, Capabilities!Kept
<1>3. ASSUME NEW op \in {"idle", "refresh", "expire"}, Capabilities!Go(c, [op |-> op])
      PROVE  CapabilityInv'
  <2>1. PICK r : r = [op |-> op]
    OBVIOUS
  <2> QED
    BY <1>2, <1>3, <2>1, CapabilityPlainCall, CapabilityCallKeeps
<1>4. ASSUME NEW op \in {"update", "answer"}, Capabilities!Kept, Capabilities!Go(c,
             [op |-> op, copy |-> set]),
             op = "update" => set.version < MaxVersion
      PROVE  CapabilityInv'
  <2>1. PICK r : r = [op |-> op, copy |-> set]
    OBVIOUS
  <2>2. set \in SetRecords /\ set.says = set.version
    BY <1>4 DEF CapabilityInv, SetTells
  <2>3. r \in CapabilityCalls /\ r.op = op /\ r.copy = set
    BY <2>1, <2>2, CapabilityCopy
  <2>4. Capabilities!Go(c, r)
    BY <1>4, <2>1
  <2> QED
    BY <1>2, <1>4, <2>2, <2>3, <2>4, CapabilityCallKeeps
<1>5. CASE Capabilities!Update(c)
  BY <1>4, <1>5 DEF Capabilities!Update
<1>6. CASE Capabilities!Refresh(c)
  BY <1>3, <1>6 DEF Capabilities!Refresh
<1>7. CASE Capabilities!NotFound(c)
  BY <1>3, <1>7 DEF Capabilities!NotFound, Capabilities!End, Capabilities!Idle
<1>8. CASE Capabilities!Negotiate(c)
  <2>1. CASE set.lapsed
    BY <1>3, <1>8, <2>1 DEF Capabilities!Negotiate
  <2>2. CASE ~set.lapsed
    BY <1>4, <1>8, <2>2 DEF Capabilities!Negotiate
  <2> QED
    BY <2>1, <2>2
<1> QED
  BY <1>5, <1>6, <1>7, <1>8

LEMMA SetWrites ==
  ASSUME Capabilities!CapabilityNegotiationAssumption, CapabilityInv, NEW c \in Callers,
         Capabilities!Register(c) \/ Capabilities!Advertise(c) \/ Capabilities!Remove(c) \/ Capabilities!Expire(c)
  PROVE  CapabilityInv'
<1>1. UNCHANGED cache /\ \E op \in {"advertise", "invalidate"} :
           Capabilities!Go(c, [op |-> op])
  BY DEF Capabilities!Register, Capabilities!Advertise, Capabilities!Remove,
     Capabilities!Expire
<1>2. CacheTells'
  BY <1>1 DEF CapabilityInv, CacheTells
<1>3. Capabilities!Kept => set \in SetRecords /\ set.says = set.version
  BY DEF CapabilityInv, SetTells
<1>4. ASSUME Capabilities!Register(c) PROVE SetTells'
  <2>1. set' = [state |-> "registered", version |-> 1, says |-> 1, lapsed |-> FALSE]
    BY <1>4 DEF Capabilities!Register
  <2>2. 1 \in SetVersions
    BY DEF SetVersions, Capabilities!CapabilityNegotiationAssumption
  <2>3. set' \in SetRecords /\ set'.says = set'.version
    BY <2>1, <2>2 DEF SetRecords
  <2> QED
    BY <2>3 DEF SetTells
<1>5. ASSUME Capabilities!Remove(c) PROVE SetTells'
  BY <1>5 DEF Capabilities!Remove, SetTells, Capabilities!Kept
<1>6. ASSUME Capabilities!Expire(c) PROVE SetTells'
  <2>1. set \in SetRecords /\ set.says = set.version /\ set' = [set EXCEPT !.state = "expired"]
    BY <1>3, <1>6 DEF Capabilities!Expire
  <2>2. set' \in SetRecords /\ set'.says = set'.version
    BY <2>1 DEF SetRecords
  <2> QED
    BY <2>2 DEF SetTells
<1>7. ASSUME Capabilities!Advertise(c) PROVE SetTells'
  <2>1. set \in SetRecords /\ set.says = set.version
    BY <1>3, <1>7 DEF Capabilities!Advertise
  <2>2. CASE set' = [set EXCEPT !.state = "advertised"]
    <3>1. set' \in SetRecords /\ set'.says = set'.version
      BY <2>1, <2>2 DEF SetRecords
    <3> QED
      BY <3>1 DEF SetTells
  <2>3. CASE set' = [set EXCEPT !.state = "advertised", !.lapsed = FALSE]
    <3>1. set' \in SetRecords /\ set'.says = set'.version
      BY <2>1, <2>3 DEF SetRecords
    <3> QED
      BY <3>1 DEF SetTells
  <2>4. CASE Capabilities!Is(c, "update")
             /\ set' = [state |-> "advertised", version |-> calls[c].copy.version + 1,
                        says |-> calls[c].copy.says + 1, lapsed |-> FALSE]
    <3>1. /\ calls[c].copy \in SetRecords /\ calls[c].copy.says = calls[c].copy.version
          /\ calls[c].copy.version < MaxVersion
      BY <2>4, CapabilityCopyTyped DEF CapabilityInv, CopiesTell, Capabilities!Is
    <3>2. calls[c].copy.version + 1 \in SetVersions
      BY <3>1 DEF SetRecords, SetVersions, Capabilities!CapabilityNegotiationAssumption
    <3>3. set' \in SetRecords /\ set'.says = set'.version
      BY <2>4, <3>1, <3>2 DEF SetRecords
    <3> QED
      BY <3>3 DEF SetTells
  <2> QED
    BY <1>7, <2>2, <2>3, <2>4 DEF Capabilities!Advertise, Capabilities!NextVersion
<1>8. SetTells'
  BY <1>4, <1>5, <1>6, <1>7
<1>9. PICK op \in {"advertise", "invalidate"}, r \in {[op |-> o] :
           o \in {"advertise", "invalidate"}} :
        r = [op |-> op] /\ Capabilities!Go(c, r)
  BY <1>1
<1> QED
  BY <1>2, <1>8, <1>9, CapabilityPlainCall, CapabilityCallKeeps

LEMMA CacheSteps ==
  ASSUME CapabilityInv, NEW c \in Callers,
         Capabilities!Invalidate(c) \/ Capabilities!Answer(c)
  PROVE  CapabilityInv'
<1>1. UNCHANGED set /\ Capabilities!Go(c, Capabilities!Idle) /\ Capabilities!Idle \in CapabilityCalls /\ Capabilities!Idle.op = "idle"
  BY CapabilityPlainCall DEF Capabilities!Invalidate, Capabilities!Answer,
     Capabilities!End, Capabilities!Idle
<1>2. SetTells'
  BY <1>1 DEF CapabilityInv, SetTells, Capabilities!Kept
<1>3. CacheTells'
  <2>1. CASE Capabilities!Invalidate(c)
    BY <2>1 DEF Capabilities!Invalidate, CacheTells, SetVersions
  <2>2. CASE Capabilities!Answer(c)
    <3>1. calls[c].copy \in SetRecords /\ calls[c].copy.says = calls[c].copy.version
      BY <2>2, CapabilityCopyTyped DEF Capabilities!Answer, Capabilities!Is
    <3>2. cache' = [cache EXCEPT ![calls[c].copy.version] =
                      IF @ = Capabilities!None THEN calls[c].copy.says ELSE @]
      BY <2>2 DEF Capabilities!Answer
    <3> QED
      BY <3>1, <3>2 DEF CapabilityInv, CacheTells, SetRecords
  <2> QED
    BY <2>1, <2>2
<1> QED
  BY <1>1, <1>2, <1>3, CapabilityCallKeeps

LEMMA CapabilityStep ==
  ASSUME Capabilities!CapabilityNegotiationAssumption, CapabilityInv,
         [Capabilities!Next]_Capabilities!vars
  PROVE  CapabilityInv'
<1>1. CASE Capabilities!Lapse
  <2>1. UNCHANGED <<cache, calls>> /\ set \in SetRecords /\ set.says = set.version
    BY <1>1 DEF Capabilities!Lapse, CapabilityInv, SetTells
  <2>2. set' \in SetRecords /\ set'.says = set'.version
    BY <1>1, <2>1 DEF Capabilities!Lapse, SetRecords
  <2> QED
    BY <2>1, <2>2 DEF CapabilityInv, SetTells, CopiesTell, CacheTells, Capabilities!Is
<1>2. ASSUME NEW v \in 1..MaxVersion, Capabilities!Forget(v) PROVE CapabilityInv'
  <2>1. CacheTells'
    BY <1>2 DEF Capabilities!Forget, CapabilityInv, CacheTells, SetVersions
  <2> QED
    BY <1>2, <2>1 DEF Capabilities!Forget, CapabilityInv, SetTells, CopiesTell,
       Capabilities!Is, Capabilities!Kept
<1>3. CASE UNCHANGED Capabilities!vars
  BY <1>3 DEF Capabilities!vars, CapabilityInv, SetTells, CopiesTell, CacheTells,
     Capabilities!Is, Capabilities!Kept
<1> QED
  BY <1>1, <1>2, <1>3, ReadingSteps, SetWrites, CacheSteps DEF Capabilities!Next

LEMMA CapabilityMeans ==
  ASSUME Capabilities!CapabilityNegotiationAssumption, CapabilityInv
  PROVE  Capabilities!AnswersFitSets /\ Capabilities!TypeOK
<1>1. ASSUME NEW c \in Callers, Capabilities!Is(c, "answer")
      PROVE  cache[calls[c].copy.version] \in {Capabilities!None, calls[c].copy.says}
  <2>1. calls[c].copy \in SetRecords /\ calls[c].copy.says = calls[c].copy.version
    BY <1>1, CapabilityCopyTyped DEF Capabilities!Is
  <2> QED
    BY <2>1 DEF CapabilityInv, CacheTells, SetRecords
<1>2. \A r \in CapabilityCalls :
        r.op \in {"idle", "advertise", "update", "refresh", "invalidate", "expire", "answer"}
  BY DEF CapabilityCalls
<1>3. cache \in [1..MaxVersion -> 0..MaxVersion]
  <2>1. SetVersions \cup {Capabilities!None} \subseteq 0..MaxVersion
    BY DEF SetVersions, Capabilities!None, Capabilities!CapabilityNegotiationAssumption
  <2>2. cache \in [SetVersions -> SetVersions \cup {Capabilities!None}]
    BY DEF CapabilityInv, CacheTells
  <2> QED
    BY <2>1, <2>2 DEF SetVersions
<1> QED
  BY <1>1, <1>2, <1>3 DEF Capabilities!AnswersFitSets, Capabilities!TypeOK,
     CapabilityInv, SetTells, SetRecords, SetVersions

\* What is found in the cache of negotiations was negotiated from the sets of
\* capabilities it is found for (capabilityNegotiator, AnswersFitSets).
THEOREM NegotiationsFit ==
  ASSUME Capabilities!CapabilityNegotiationAssumption
  PROVE  Capabilities!Spec => []Capabilities!AnswersFitSets
BY InitCapabilities, CapabilityStep, CapabilityMeans, PTL DEF Capabilities!Spec

-----------------------------------------------------------------------------
EvolutionStates ==
  Evolution!Ready \cup {"initialized", "evolving", "evolved", "cancelled", "retired"}
EvolutionRecords ==
  [state : EvolutionStates, generation : 0..MaxGeneration,
   history : Seq(1..MaxGeneration), pending : BOOLEAN]
EvolutionCalls ==
  [op : {"idle", "settle"}]
    \cup [op : EvolutionStates \ {"initialized"}, copy : EvolutionRecords]

\* A record, or a copy, whose history is the one of its generation.
Tells(r) == r.history = [i \in 1..r.generation |-> i]

RecordTells == Evolution!Kept => record \in EvolutionRecords /\ Tells(record)
\* Whoever is about to advance goes on from a copy that tells, and the bound is
\* not reached.
AdvancesTell ==
  \A c \in Callers :
    calls[c].op \in {"evolving", "evolved"} =>
      Tells(calls[c].copy) /\ calls[c].copy.generation < MaxGeneration

EvolutionInv ==
  /\ calls \in [Callers -> EvolutionCalls]
  /\ RecordTells /\ AdvancesTell

LEMMA InitEvolution ==
  ASSUME Evolution!SessionEvolutionAssumption PROVE Evolution!Init => EvolutionInv
BY DEF Evolution!Init, EvolutionInv, EvolutionCalls, RecordTells, AdvancesTell,
   Evolution!Kept, Evolution!Idle

\* A generation more: the history goes on by one.
LEMMA HistoryGoesOn ==
  ASSUME Evolution!SessionEvolutionAssumption, NEW r \in EvolutionRecords, Tells(r),
         r.generation < MaxGeneration
  PROVE  /\ r.generation + 1 \in 0..MaxGeneration
         /\ Append(r.history, r.generation + 1) \in Seq(1..MaxGeneration)
         /\ Append(r.history, r.generation + 1) = [i \in 1..(r.generation + 1) |-> i]
<1>1. PICK g \in Nat, h \in Seq(1..MaxGeneration) :
        /\ g = r.generation /\ h = r.history /\ h = [i \in 1..g |-> i] /\ g < MaxGeneration
  BY DEF EvolutionRecords, Tells, Evolution!SessionEvolutionAssumption
<1>2. g + 1 \in 0..MaxGeneration /\ g + 1 \in 1..MaxGeneration
  BY <1>1 DEF Evolution!SessionEvolutionAssumption
<1>3. Len(h) = g
  BY <1>1
<1>4. Append(h, g + 1) = [i \in 1..(g + 1) |-> i]
  BY <1>1, <1>2, <1>3
<1> QED
  BY <1>1, <1>2, <1>4

\* One call goes on.
LEMMA CallKeeps ==
  ASSUME EvolutionInv, NEW c \in Callers, NEW r \in EvolutionCalls, Evolution!Go(c, r),
         r.op \in {"evolving", "evolved"} =>
           Tells(r.copy) /\ r.copy.generation < MaxGeneration,
         RecordTells'
  PROVE  EvolutionInv'
<1>1. /\ DOMAIN calls = Callers /\ calls'[c] = r
      /\ \A d \in Callers \ {c} : calls'[d] = calls[d]
      /\ calls' \in [Callers -> EvolutionCalls]
  BY DEF EvolutionInv, Evolution!Go
<1>2. AdvancesTell'
  BY <1>1 DEF EvolutionInv, AdvancesTell
<1> QED
  BY <1>1, <1>2 DEF EvolutionInv

LEMMA EvolutionPlainCall ==
  ASSUME NEW op \in {"idle", "settle"}
  PROVE  [op |-> op] \in EvolutionCalls /\ [op |-> op].op = op
  BY DEF EvolutionCalls

LEMMA EvolutionCopy ==
  ASSUME NEW op \in EvolutionStates \ {"initialized"}, NEW copy \in EvolutionRecords
  PROVE  /\ [op |-> op, copy |-> copy] \in EvolutionCalls
         /\ [op |-> op, copy |-> copy].op = op /\ [op |-> op, copy |-> copy].copy = copy
  BY DEF EvolutionCalls

LEMMA EvolutionAsk ==
  ASSUME EvolutionInv, NEW c \in Callers, NEW to \in EvolutionStates, Evolution!Ask(c, to),
         to \notin {"evolved", "initialized"}, to = "evolving" =>
              record.generation < MaxGeneration
  PROVE  EvolutionInv'
<1>1. record \in EvolutionRecords /\ Tells(record) /\ record' = record
  BY DEF Evolution!Ask, EvolutionInv, RecordTells
<1>2. RecordTells'
  BY <1>1 DEF RecordTells
<1>3. PICK r : r = [op |-> to, copy |-> record]
  OBVIOUS
<1>4. r \in EvolutionCalls /\ r.op = to /\ r.copy = record
  BY <1>1, <1>3, EvolutionCopy
<1>5. Evolution!Go(c, r)
  BY <1>3 DEF Evolution!Ask
<1> QED
  BY <1>1, <1>2, <1>4, <1>5, CallKeeps

\* A write of the state leaves the history as it is.
LEMMA EvolutionSetTells ==
  ASSUME EvolutionInv, NEW c \in Callers, NEW to \in EvolutionStates,
         NEW pending, pending \in BOOLEAN \/ pending = record.pending,
         Evolution!Kept, Evolution!Set(c, to, pending)
  PROVE  RecordTells'
<1>1. record \in EvolutionRecords /\ Tells(record)
  BY DEF EvolutionInv, RecordTells
<1>2. pending \in BOOLEAN
  BY <1>1 DEF EvolutionRecords
<1>3. /\ record' \in EvolutionRecords /\ record'.generation = record.generation
      /\ record'.history = record.history
  BY <1>1, <1>2 DEF Evolution!Set, EvolutionRecords
<1> QED
  BY <1>1, <1>3 DEF RecordTells, Tells

LEMMA EvolutionWrites ==
  ASSUME Evolution!SessionEvolutionAssumption, EvolutionInv, NEW c \in Callers,
         Evolution!Create(c) \/ Evolution!Scheduled(c) \/ Evolution!Cancelled(c) \/ Evolution!Settled(c) \/ Evolution!RetireWrites(c)
         \/ Evolution!NotFound(c)
  PROVE  EvolutionInv'
<1>1. \E op \in {"idle", "settle"} : Evolution!Go(c, [op |-> op])
  BY DEF Evolution!Create, Evolution!Scheduled, Evolution!Cancelled,
     Evolution!Settled, Evolution!RetireWrites, Evolution!NotFound, Evolution!End,
     Evolution!Idle
<1>2. RecordTells'
  <2>1. ASSUME Evolution!Create(c) PROVE RecordTells'
    <3>1. <<>> \in Seq(1..MaxGeneration) /\ <<>> = [i \in 1..0 |-> i] /\ 0 \in 0..MaxGeneration
      BY DEF Evolution!SessionEvolutionAssumption
    <3>2. record' = [state |-> "initialized", generation |-> 0, history |-> <<>>,
                     pending |-> FALSE]
      BY <2>1 DEF Evolution!Create
    <3>3. record' \in EvolutionRecords /\ record'.generation = 0 /\ record'.history = <<>>
      BY <3>1, <3>2 DEF EvolutionRecords, EvolutionStates
    <3> QED
      BY <3>1, <3>3 DEF RecordTells, Tells
  <2>2. ASSUME Evolution!Scheduled(c) PROVE RecordTells'
    BY <2>2, EvolutionSetTells DEF Evolution!Scheduled, EvolutionStates, Evolution!Ready
  <2>3. ASSUME Evolution!Cancelled(c) PROVE RecordTells'
    BY <2>3, EvolutionSetTells DEF Evolution!Cancelled, EvolutionStates
  <2>4. ASSUME Evolution!Settled(c) PROVE RecordTells'
    BY <2>4, EvolutionSetTells DEF Evolution!Settled, EvolutionStates, Evolution!Ready
  <2>5. ASSUME Evolution!RetireWrites(c) PROVE RecordTells'
    BY <2>5, EvolutionSetTells DEF Evolution!RetireWrites, EvolutionStates
  <2>6. ASSUME Evolution!NotFound(c) PROVE RecordTells'
    BY <2>6 DEF Evolution!NotFound, EvolutionInv, RecordTells, Evolution!Kept, Tells
  <2> QED
    BY <2>1, <2>2, <2>3, <2>4, <2>5, <2>6
<1>3. PICK r : Evolution!Go(c, r) /\ \E op \in {"idle", "settle"} : r = [op |-> op]
  BY <1>1
<1>4. r \in EvolutionCalls /\ r.op \in {"idle", "settle"}
  BY <1>3, EvolutionPlainCall
<1> QED
  BY <1>2, <1>3, <1>4, CallKeeps

\* What an advance goes on from.
LEMMA AdvanceCopy ==
  ASSUME EvolutionInv, NEW c \in Callers, calls[c].op \in {"evolving", "evolved"}
  PROVE  /\ calls[c].copy \in EvolutionRecords /\ Tells(calls[c].copy)
         /\ calls[c].copy.generation < MaxGeneration
<1>1. calls[c] \in EvolutionCalls
  BY DEF EvolutionInv
<1> QED
  BY <1>1 DEF EvolutionInv, EvolutionCalls, AdvancesTell

LEMMA EvolvingStep ==
  ASSUME EvolutionInv, NEW c \in Callers, Evolution!Evolving(c)
  PROVE  EvolutionInv'
<1>1. Evolution!Kept /\ Evolution!Set(c, "evolving", record.pending) /\ calls[c].op = "evolving"
  BY DEF Evolution!Evolving, Evolution!Is
<1>2. RecordTells'
  BY <1>1, EvolutionSetTells DEF EvolutionStates
<1>3. /\ calls[c].copy \in EvolutionRecords /\ Tells(calls[c].copy)
      /\ calls[c].copy.generation < MaxGeneration
  BY <1>1, AdvanceCopy
<1>4. PICK r : r = [op |-> "evolved", copy |-> calls[c].copy]
  OBVIOUS
<1>5. r \in EvolutionCalls /\ r.copy = calls[c].copy
  BY <1>3, <1>4, EvolutionCopy DEF EvolutionStates
<1>6. Evolution!Go(c, r)
  BY <1>4 DEF Evolution!Evolving
<1> QED
  BY <1>2, <1>3, <1>5, <1>6, CallKeeps

LEMMA EvolvedStep ==
  ASSUME Evolution!SessionEvolutionAssumption, EvolutionInv, NEW c \in Callers,
         Evolution!Evolved(c)
  PROVE  EvolutionInv'
<1>1. calls[c].op = "evolved"
  BY DEF Evolution!Evolved, Evolution!Is
<1>2. PICK copy \in EvolutionRecords :
        /\ copy = calls[c].copy /\ Tells(copy) /\ copy.generation < MaxGeneration
  BY <1>1, AdvanceCopy
<1>3. record' = [state |-> "evolved", generation |-> copy.generation + 1,
                 history |-> Append(copy.history, copy.generation + 1), pending |-> FALSE]
  BY <1>2 DEF Evolution!Evolved, Evolution!HistoryOfCopy
<1>4. PICK g, h : g = copy.generation + 1 /\ h = Append(copy.history, copy.generation + 1)
  OBVIOUS
<1>5. g \in 0..MaxGeneration /\ h \in Seq(1..MaxGeneration) /\ h = [i \in 1..g |-> i]
  BY <1>2, <1>4, HistoryGoesOn
<1>6. record' = [state |-> "evolved", generation |-> g, history |-> h, pending |-> FALSE]
  BY <1>3, <1>4
<1>7. record' \in EvolutionRecords /\ record'.generation = g /\ record'.history = h
  BY <1>5, <1>6 DEF EvolutionRecords, EvolutionStates
<1>8. RecordTells'
  BY <1>5, <1>7 DEF RecordTells, Tells
<1>9. PICK r : r = [op |-> "settle"]
  OBVIOUS
<1>10. r \in EvolutionCalls /\ r.op = "settle"
  BY <1>9, EvolutionPlainCall
<1> QED
  BY <1>8, <1>9, <1>10, CallKeeps DEF Evolution!Evolved

LEMMA EvolutionStep ==
  ASSUME Evolution!SessionEvolutionAssumption, EvolutionInv, [Evolution!Next]_Evolution!vars
  PROVE  EvolutionInv'
<1>1. ASSUME NEW c \in Callers,
             Evolution!Schedule(c) \/ Evolution!Cancel(c) \/ Evolution!Retire(c) \/ Evolution!Advance(c)
      PROVE  EvolutionInv'
  BY <1>1, EvolutionAsk DEF Evolution!Schedule, Evolution!Cancel, Evolution!Retire,
     Evolution!Advance, EvolutionStates, Evolution!Ready
<1>2. CASE Evolution!Delete
  BY <1>2 DEF Evolution!Delete, EvolutionInv, RecordTells, AdvancesTell,
     Evolution!Kept, Tells
<1>3. CASE UNCHANGED Evolution!vars
  BY <1>3 DEF Evolution!vars, EvolutionInv, RecordTells, AdvancesTell, Evolution!Kept,
     Tells
<1> QED
  BY <1>1, <1>2, <1>3, EvolutionWrites, EvolvingStep, EvolvedStep DEF Evolution!Next

LEMMA EvolutionMeans ==
  ASSUME EvolutionInv PROVE Evolution!HistoryTells /\ Evolution!TypeOK
<1>1. \A r \in EvolutionCalls :
        r.op \in Evolution!Ready \cup {"idle", "settle", "cancelled", "evolving", "evolved", "retired"}
  BY DEF EvolutionCalls, EvolutionStates
<1> QED
  BY <1>1 DEF Evolution!HistoryTells, Evolution!TypeOK, EvolutionInv, RecordTells,
     Tells, EvolutionRecords, EvolutionStates

\* The history of a session's evolution has every generation up to the one the
\* session is at, once and in order (evolutionManager, HistoryTells).
THEOREM HistoriesTell ==
  ASSUME Evolution!SessionEvolutionAssumption
  PROVE  Evolution!Spec => []Evolution!HistoryTells
BY InitEvolution, EvolutionStep, EvolutionMeans, PTL DEF Evolution!Spec
================================================================================
