--------------------------- MODULE ResourceScheduler ---------------------------
(***************************************************************************)
(* The scheduling of communications over the resources of the platform     *)
(* (server/optimization): lanes of requests that wait, and what is         *)
(* reserved for those that run.  A request is scheduled, reserved for and  *)
(* registered without an await, so each operation is one step.  What is    *)
(* hard is the sequence of operations: requests that are asked for again,  *)
(* lanes that age, batches that are larger than what they were judged by.  *)
(***************************************************************************)
EXTENDS Integers, SequencesExt

CONSTANTS
  Requests,
  LaneCapacity,
  Executions, \* budget of executions
  Bandwidth,  \* budget of bandwidth, which stands for the other resources
  MaxWait     \* bound: aging steps a request waits (the dispatcher comes by then)

ResourceSchedulerAssumption ==
  /\ IsFiniteSet(Requests)
  /\ {LaneCapacity, Executions, Bandwidth, MaxWait} \subseteq Nat

VARIABLES
  lanes,      \* the requests that wait, oldest first
  state,      \* what the coordinator knows of each request
  reserved,   \* what is reserved for each request: its cost, and who reserved
  allocated   \* what is allocated of each resource

vars == <<lanes, state, reserved, allocated>>

Kinds == {"execution", "bandwidth"}
Budget == [kind \in Kinds |-> IF kind = "execution" THEN Executions ELSE Bandwidth]
Lanes == {"normal", "background"}
Weight == [lane \in Lanes |-> IF lane = "normal" THEN 2 ELSE 1]

\* An execution counts for one of the budget of executions (estimateCost).
Costs == [execution : {1}, bandwidth : 1..Bandwidth]
NotReserved == [by |-> "nobody", cost |-> [kind \in Kinds |-> 0]]
Reservation(by, cost) == [by |-> by, cost |-> cost]

Queue(lane) == lanes[lane]
Places ==
  {place \in Lanes \X (1..LaneCapacity) : place[2] <= Len(Queue(place[1]))}
Entry(place) == Queue(place[1])[place[2]]
Waits(r) == \E place \in Places : Entry(place).id = r

Init ==
  /\ lanes = [lane \in Lanes |-> <<>>]
  /\ state = [r \in Requests |-> "none"]
  /\ reserved = [r \in Requests |-> NotReserved]
  /\ allocated = [kind \in Kinds |-> 0]

Available(kind) ==
  IF allocated[kind] < Budget[kind] THEN Budget[kind] - allocated[kind] ELSE 0
\* recommend
Fits(cost) == \A kind \in Kinds : cost[kind] <= Available(kind)

\* What reservations take of a resource.
Taking(reservations, kind) ==
  MapThenSumSet(LAMBDA r : reservations[r].cost[kind], DOMAIN reservations)

\* Mutation: what was reserved for the same request is not given back first.
AddAllocation(new) == [kind \in Kinds |-> allocated[kind] + Taking(new, kind)]
\* allocate replaces the reservation of a request.
Replace(new) ==
  [kind \in Kinds |->
     allocated[kind] - Taking(Restrict(reserved, DOMAIN new), kind) + Taking(new, kind)]

Reserve(new) ==
  /\ allocated' = Replace(new)
  /\ reserved' = [r \in Requests |-> IF r \in DOMAIN new THEN new[r] ELSE reserved[r]]

Release(r) ==
  /\ allocated' = [kind \in Kinds |-> allocated[kind] - reserved[r].cost[kind]]
  /\ reserved' = [reserved EXCEPT ![r] = NotReserved]

-----------------------------------------------------------------------------
(* optimize.  Which mode is chosen (the caller may name one) is open.  A    *)
(* request is not asked for again while it waits.                           *)

RunNow(r, cost) ==
  /\ ~Waits(r)
  /\ Reserve([q \in {r} |-> Reservation("optimize", cost)])
  /\ state' = [state EXCEPT ![r] = "running"]
  /\ UNCHANGED lanes

Enqueue(r, lane, cost, early) ==
  /\ ~Waits(r)
  /\ Len(Queue(lane)) < LaneCapacity
  /\ lanes' = [lanes EXCEPT ![lane] =
                 Append(@, [id |-> r, cost |-> cost, early |-> early, wait |-> 0])]
  /\ state' = [state EXCEPT ![r] = IF early THEN "deferred" ELSE "scheduled"]
  /\ UNCHANGED <<reserved, allocated>>

Overflow(r, lane) ==
  /\ ~Waits(r)
  /\ Len(Queue(lane)) = LaneCapacity
  /\ state' = [state EXCEPT ![r] = "cancelled"]
  /\ UNCHANGED <<lanes, reserved, allocated>>

-----------------------------------------------------------------------------
(* dispatch: the heads of the lanes, by weight and age. *)

\* Mutation: the age does not count.
WeightOnly(lane, entry) == Weight[lane]
EffectivePriority(lane, entry) == Weight[lane] + entry.wait

\* The lanes whose head may go, judged by what was allocated before the batch.
Ready(queues) ==
  {lane \in Lanes : queues[lane] # <<>>
                     /\ ~Head(queues[lane]).early /\ Fits(Head(queues[lane]).cost)}

\* The lane whose head goes next; of equals the one with the greater weight.
Best(queues) ==
  CHOOSE lane \in Ready(queues) :
    \A other \in Ready(queues) \ {lane} :
      LET p == EffectivePriority(lane, Head(queues[lane]))
          q == EffectivePriority(other, Head(queues[other]))
      IN p > q \/ (p = q /\ Weight[lane] > Weight[other])

\* One more head is taken from its lane, if there is one that may go.
Pick(before) ==
  LET lane == Best(before.left)
  IN  IF Ready(before.left) = {} THEN before
      ELSE [left |-> [before.left EXCEPT ![lane] = Tail(@)],
            batch |-> before.batch \cup {Head(before.left[lane])}]
Picked(queues, budget) ==
  LET picked[n \in 0..budget] ==
        IF n = 0 THEN [left |-> queues, batch |-> {}] ELSE Pick(picked[n - 1])
  IN  picked[budget]

\* Mutation: the batch is as large as the caller asks for.
AskedFor(most) == most
BatchLimit(most) == Min({most, Available("execution")})

\* dispatchReady: reservations follow when the batch is complete.
Dispatch(most) ==
  LET picked == Picked(lanes, BatchLimit(most))
      batch == picked.batch
      ids == {entry.id : entry \in batch}
  IN /\ batch # {} /\ lanes' = picked.left
     /\ Reserve([r \in ids |-> Reservation("dispatch",
                   (CHOOSE entry \in batch : entry.id = r).cost)])
     /\ state' = [r \in Requests |-> IF r \in ids THEN "running" ELSE state[r]]

-----------------------------------------------------------------------------
\* complete and fail, of a request that was dispatched.
Finish(r) ==
  /\ state[r] = "running"
  /\ Release(r)
  /\ \E result \in {"completed", "failed"} : state' = [state EXCEPT ![r] = result]
  /\ UNCHANGED lanes

\* Lane.remove
Without(queue, r) ==
  LET i == SelectInSeq(queue, LAMBDA entry : entry.id = r)
  IN  IF i = 0 THEN queue ELSE RemoveAt(queue, i)
Cancel(r) ==
  /\ state[r] \in {"running", "scheduled", "deferred"}
  /\ lanes' = [lane \in Lanes |-> Without(lanes[lane], r)]
  /\ Release(r)
  /\ state' = [state EXCEPT ![r] = "cancelled"]

\* One step of aging of all that wait.
Age ==
  /\ \E place \in Places : TRUE
  /\ \A place \in Places : Entry(place).wait < MaxWait
  /\ lanes' = [lane \in Lanes |-> [i \in DOMAIN lanes[lane] |->
                 [lanes[lane][i] EXCEPT !.wait = @ + 1]]]
  /\ UNCHANGED <<state, reserved, allocated>>

\* The window of a request begins.
WindowOpens(place) ==
  /\ Entry(place).early
  /\ lanes' = [lanes EXCEPT ![place[1]][place[2]].early = FALSE]
  /\ UNCHANGED <<state, reserved, allocated>>

Next ==
  \/ \E r \in Requests, cost \in Costs :
       \/ RunNow(r, cost)
       \/ \E lane \in Lanes, early \in BOOLEAN : Enqueue(r, lane, cost, early)
  \/ \E r \in Requests : Finish(r) \/ Cancel(r) \/ \E lane \in Lanes : Overflow(r, lane)
  \/ \E most \in 1..Executions + 1 : Dispatch(most)
  \/ Age
  \/ \E place \in Places : WindowOpens(place)

Spec == Init /\ [][Next]_vars

-----------------------------------------------------------------------------
TypeOK ==
  /\ \A place \in Places :
       Entry(place) \in [id : Requests, cost : Costs, early : BOOLEAN,
                         wait : 0..MaxWait]
  /\ state \in [Requests -> {"none", "scheduled", "deferred", "running",
                             "completed", "failed", "cancelled"}]
  /\ \A r \in Requests :
       reserved[r] = NotReserved \/ /\ reserved[r].cost \in Costs
                                    /\ reserved[r].by \in {"optimize", "dispatch"}
  /\ allocated \in [Kinds -> Nat]

\* What is allocated is what is reserved for the requests, also for those that
\* were scheduled again while they ran; what runs has its reservation; and the
\* batches of dispatch never take more executions than there are, whatever
\* runs at once beside them.
ReservationsHold ==
  /\ \A kind \in Kinds : allocated[kind] = Taking(reserved, kind)
  /\ \A r \in Requests : state[r] = "running" => reserved[r] # NotReserved
  /\ Cardinality({r \in Requests : reserved[r].by = "dispatch"}) <= Executions

\* Starvation prevention: a dispatch does not pass over a request whose lane
\* may go for one that is younger by more than the lanes' weights make good.
Taken(e) == ~(\E lane \in Lanes, i \in 1..LaneCapacity :
                i <= Len(lanes'[lane]) /\ lanes'[lane][i].id = e.id)
OlderGoFirst ==
  (\E r \in Requests : state[r] # "running" /\ state'[r] = "running" /\ Waits(r)) =>
    \A p, q \in Places :
      (Taken(Entry(p)) /\ ~Taken(Entry(q)) /\ q[1] \in Ready(lanes')) =>
        Weight[p[1]] + Entry(p).wait >= Weight[q[1]] + Entry(q).wait
=============================================================================
