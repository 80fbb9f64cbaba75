---------------------------- MODULE Synchronization ----------------------------
(***************************************************************************)
(* One synchronization session (server/synchronization/manager/            *)
(* synchronizationManager.js with queue/ and sessions/) and the device     *)
(* that drains it (client/src/lib/synchronization.js).  The plan and the   *)
(* session with its resume cursor are stored, the queue of operations is   *)
(* in the memory of the process.  Requests overlap: pulls and reports of   *)
(* the device, pause, resume and cancel, and the sweep.                    *)
(***************************************************************************)
EXTENDS Integers, Sequences, FiniteSets

CONSTANTS
  Callers,       \* requests that may be in flight at the same time
  MaxOps,        \* operations of the plan
  MaxOpRetries,  \* SyncQueue.maxRetries
  Drains,        \* how many drains of the device may overlap
  MayFail,       \* the device may fail to apply, or lose a response
  MayPause,      \* the device may pause and resume
  MayEnd,        \* the session may be cancelled, or expire, before it is done
  MaxRestarts,   \* bound: restarts of the server
  MaxQueues      \* bound: queues made

SynchronizationAssumption ==
  /\ {MaxOps, MaxQueues, Drains} \subseteq Nat \ {0}
  /\ {MaxOpRetries, MaxRestarts} \subseteq Nat
  /\ {MayFail, MayPause, MayEnd} \subseteq BOOLEAN

VARIABLES
  session,   \* the stored session: state, resume cursor, whether its TTL is over
  queues,    \* the queues made so far; a request may hold one that was dropped
  current,   \* the number of the session's queue, 0 for none
  calls,     \* what each request is at
  advanced,  \* the target replica's record claims the operations' entities
  applied,   \* operations the device has applied
  restarts

vars == <<session, queues, current, calls, advanced, applied, restarts>>

Ops == 1..MaxOps
Terminal == {"completed", "cancelled", "expired", "failed"}
Idle == [at |-> "idle"]
At(c) == calls[c].at
Set(c, call) == calls' = [calls EXCEPT ![c] = call]
Elsewhere == <<advanced, applied, restarts>>

\* A SyncQueue: the state of each operation of the plan and its retries.
EmptyQueue ==
  [paused |-> FALSE, ops |-> [o \in Ops |-> "absent"], tries |-> [o \in Ops |-> 0]]
IsEmpty(q) == \A o \in Ops : q.ops[o] = "absent"
IsComplete(q) == \A o \in Ops : q.ops[o] \in {"applied", "absent"}
Exhausted(q, o) == q.tries[o] > MaxOpRetries
Applied(q) == {o \in Ops : q.ops[o] = "applied"}

\* Mutation: the cursor is taken for the next operation.
LoadedTooFar(q, cursor) ==
  [q EXCEPT !.ops = [o \in Ops |-> IF o <= cursor + 1 THEN "applied" ELSE "pending"],
            !.tries = [o \in Ops |-> 0]]
\* loadFromPlan: the first "cursor" operations count as applied.
Loaded(q, cursor) ==
  [q EXCEPT !.ops = [o \in Ops |-> IF o <= cursor THEN "applied" ELSE "pending"],
            !.tries = [o \in Ops |-> 0]]

\* dequeue: operations that wait or may be retried, in the order of the plan.
Handed(q, max) ==
  LET ready == {o \in Ops : \/ q.ops[o] = "pending"
                            \/ q.ops[o] = "failed" /\ ~Exhausted(q, o)}
  IN  IF q.paused THEN {}
      ELSE {o \in ready : Cardinality({r \in ready : r < o}) < max}

\* markApplied and markFailed of what the device reports.
Marked(q, ok, failed) ==
  LET tries == [o \in Ops |-> IF o \in failed /\ q.ops[o] # "absent"
                              THEN q.tries[o] + 1 ELSE q.tries[o]]
  IN  [q EXCEPT
         !.tries = tries,
         !.ops = [o \in Ops |->
            IF q.ops[o] = "absent" THEN "absent"
            ELSE IF o \in failed THEN "failed"
            ELSE IF o \in ok THEN "applied" ELSE q.ops[o]]]

\* startSync: the plan is stored and the queue loaded from it.
Init ==
  /\ session = [state |-> "running", cursor |-> 0, lapsed |-> FALSE]
  /\ queues = <<Loaded(EmptyQueue, 0)>> /\ current = 1
  /\ calls = [c \in Callers |-> Idle]
  /\ advanced = FALSE /\ applied = {} /\ restarts = 0

\* _queue: the session's queue, made when there is none, and what it becomes.
Queue == IF current # 0 THEN queues[current] ELSE EmptyQueue
SetQueue(q) ==
  IF current # 0
  THEN queues' = [queues EXCEPT ![current] = q] /\ UNCHANGED current
  ELSE /\ Len(queues) < MaxQueues
       /\ queues' = Append(queues, q) /\ current' = Len(queues) + 1

-----------------------------------------------------------------------------
(* Pulling operations. *)

Draining ==
  {c \in Callers :
     At(c) \notin {"idle", "pause", "rebuild", "write"}}

\* The queue hands out the next operations.
Give(c, k, q, max) ==
  LET out == Handed(q, max)
  IN  /\ queues' = [queues EXCEPT ![k] =
           [q EXCEPT !.ops = [o \in Ops |-> IF o \in out THEN "handed" ELSE q.ops[o]]]]
      /\ Set(c, IF out = {} THEN Idle ELSE [at |-> "apply", ops |-> out])

\* getNextOperations reads a running session first.
Pull(c) ==
  /\ At(c) = "idle" /\ Cardinality(Draining) < Drains
  /\ session.state = "running" /\ ~session.lapsed
  /\ Set(c, [at |-> "pull", cursor |-> session.cursor])
  /\ UNCHANGED <<session, queues, current, Elsewhere>>

\* _ensureQueue makes a queue after a restart and awaits the plan for an empty
\* one.
Dequeue(c, max) ==
  /\ At(c) = "pull"
  /\ IF current # 0 /\ ~IsEmpty(queues[current])
     THEN Give(c, current, queues[current], max) /\ UNCHANGED current
     ELSE /\ SetQueue(Queue)
          /\ Set(c, [at |-> "load pull", queue |-> current', cursor |-> calls[c].cursor,
                     max |-> max])
  /\ UNCHANGED <<session, Elsewhere>>

\* enqueue leaves alone what another request has loaded meanwhile.
Reloaded(q, cursor) == IF IsEmpty(q) THEN Loaded(q, cursor) ELSE q
LoadPull(c) ==
  /\ At(c) = "load pull"
  /\ LET k == calls[c].queue
     IN  Give(c, k, Reloaded(queues[k], calls[c].cursor), calls[c].max)
  /\ UNCHANGED <<session, current, Elsewhere>>

\* The device applies what it was given; an operation may fail, or the
\* response or the report is lost.
Apply(c, ok) ==
  /\ At(c) = "apply" /\ ok \subseteq calls[c].ops
  /\ ok # calls[c].ops => MayFail
  /\ applied' = applied \cup ok
  /\ Set(c, [at |-> "report", ok |-> ok, failed |-> calls[c].ops \ ok])
  /\ UNCHANGED <<session, queues, current, advanced, restarts>>
Lose(c) ==
  /\ At(c) \in {"apply", "report"} /\ MayFail
  /\ Set(c, Idle)
  /\ UNCHANGED <<session, queues, current, Elsewhere>>

-----------------------------------------------------------------------------
(* Reporting progress. *)

\* The report is marked in the queue; what the queue counts goes into the
\* session.
Mark(c, k, q) ==
  LET new == Marked(q, calls[c].ok, calls[c].failed)
  IN  /\ queues' = IF k > Len(queues) THEN Append(queues, new)
                   ELSE [queues EXCEPT ![k] = new]
      /\ Set(c, [at |-> "store", queue |-> k, cursor |-> Cardinality(Applied(new))])

\* recordProgress reads the session.
Report(c) ==
  /\ At(c) = "report"
  /\ Set(c, IF session.state \in Terminal \/ session.lapsed THEN Idle
            ELSE [at |-> "mark", ok |-> calls[c].ok, failed |-> calls[c].failed,
                  state |-> session.state, cursor |-> session.cursor])
  /\ UNCHANGED <<session, queues, current, Elsewhere>>

\* Only for a running session _ensureQueue loads the plan.
MarkReport(c) ==
  /\ At(c) = "mark"
  /\ IF current # 0 /\ (calls[c].state # "running" \/ ~IsEmpty(queues[current]))
     THEN Mark(c, current, queues[current]) /\ UNCHANGED current
     ELSE IF calls[c].state # "running"
     THEN /\ Len(queues) < MaxQueues /\ current' = Len(queues) + 1
          /\ Mark(c, current', EmptyQueue)
     ELSE /\ SetQueue(Queue)
          /\ Set(c, [at |-> "load report", queue |-> current', cursor |-> calls[c].cursor,
                     ok |-> calls[c].ok, failed |-> calls[c].failed])
  /\ UNCHANGED <<session, Elsewhere>>
LoadReport(c) ==
  /\ At(c) = "load report"
  /\ LET k == calls[c].queue
     IN  Mark(c, k, Reloaded(queues[k], calls[c].cursor))
  /\ UNCHANGED <<session, current, Elsewhere>>

StoreProgress(c) ==
  /\ At(c) = "store"
  /\ session' = [session EXCEPT !.cursor = calls[c].cursor]
  /\ Set(c, [at |-> "check", queue |-> calls[c].queue, state |-> session.state])
  /\ UNCHANGED <<queues, current, Elsewhere>>

\* A write of "to" by a request that saw "from"; the transition is checked on
\* that copy.
Writing(from, to) == [at |-> "write", from |-> from, to |-> to]

\* Mutation: a session whose operations ran out of retries is complete, too.
CheckNothingLeft(c) ==
  /\ At(c) = "check"
  /\ LET q == queues[calls[c].queue]
     IN  Set(c, IF \A o \in Ops : Exhausted(q, o) \/ q.ops[o] \in {"applied", "absent"}
                THEN [at |-> "advance", state |-> calls[c].state] ELSE Idle)
  /\ UNCHANGED <<session, queues, current, Elsewhere>>
\* After the write of the progress the queue is asked again.
Check(c) ==
  /\ At(c) = "check"
  /\ LET q == queues[calls[c].queue]
     IN  Set(c, IF IsComplete(q) THEN [at |-> "advance", state |-> calls[c].state]
                ELSE IF /\ \E o \in Ops : Exhausted(q, o)
                        /\ calls[c].state \notin Terminal \ {"failed"}
                THEN Writing(calls[c].state, "failed") ELSE Idle)
  /\ UNCHANGED <<session, queues, current, Elsewhere>>

\* _complete: first the target replica gets every entity of the plan, then the
\* session may become completed.
Advance(c) ==
  /\ At(c) = "advance"
  /\ advanced' = TRUE
  /\ Set(c, IF calls[c].state \in {"running", "completed"}
            THEN Writing(calls[c].state, "completed") ELSE Idle)
  /\ UNCHANGED <<session, queues, current, applied, restarts>>

-----------------------------------------------------------------------------
(* Control. *)

\* pauseSync stops the queue, resumeSync rebuilds it from plan and cursor.
Pause(c) ==
  /\ MayPause /\ At(c) = "idle" /\ session.state = "running"
  /\ Set(c, [at |-> "pause"])
  /\ UNCHANGED <<session, queues, current, Elsewhere>>
StopQueue(c) ==
  /\ At(c) = "pause"
  /\ SetQueue([Queue EXCEPT !.paused = TRUE])
  /\ Set(c, Writing("running", "paused"))
  /\ UNCHANGED <<session, Elsewhere>>
Resume(c) ==
  /\ MayPause /\ At(c) = "idle" /\ session.state = "paused" /\ ~session.lapsed
  /\ Set(c, [at |-> "rebuild", cursor |-> session.cursor])
  /\ UNCHANGED <<session, queues, current, Elsewhere>>
Rebuild(c) ==
  /\ At(c) = "rebuild"
  /\ SetQueue(Loaded(EmptyQueue, calls[c].cursor))
  /\ Set(c, Writing("paused", "running"))
  /\ UNCHANGED <<session, Elsewhere>>

\* cancelSync, and sweepExpired of an active session.
Cancel(c) ==
  /\ MayEnd /\ At(c) = "idle" /\ session.state \notin Terminal
  /\ Set(c, Writing(session.state, "cancelled"))
  /\ UNCHANGED <<session, queues, current, Elsewhere>>
Expire(c) ==
  /\ At(c) = "idle" /\ session.state \notin Terminal /\ session.lapsed
  /\ Set(c, Writing(session.state, "expired"))
  /\ UNCHANGED <<session, queues, current, Elsewhere>>

\* _transition writes the state whatever the session is by then; an end drops
\* the queue.
Write(c) ==
  /\ At(c) = "write"
  /\ session' = [session EXCEPT !.state = calls[c].to]
  /\ current' = IF calls[c].to \in Terminal THEN 0 ELSE current
  /\ Set(c, Idle)
  /\ UNCHANGED <<queues, Elsewhere>>

Lapse ==
  /\ MayEnd /\ ~session.lapsed /\ session.state \notin Terminal
  /\ session' = [session EXCEPT !.lapsed = TRUE]
  /\ UNCHANGED <<queues, current, calls, Elsewhere>>

\* The server restarts: queues and requests are gone, but for what the device
\* is applying.
Restart ==
  /\ restarts < MaxRestarts /\ restarts' = restarts + 1
  /\ current' = 0
  /\ calls' = [c \in Callers |-> IF At(c) \in {"apply", "report"} THEN calls[c] ELSE Idle]
  /\ UNCHANGED <<session, queues, advanced, applied>>

Next ==
  \/ \E c \in Callers :
       \/ Pull(c) \/ \E max \in 1..MaxOps : Dequeue(c, max)
       \/ \E ok \in SUBSET Ops : Apply(c, ok)
       \/ LoadPull(c) \/ Lose(c) \/ Report(c) \/ MarkReport(c) \/ LoadReport(c)
       \/ StoreProgress(c) \/ Check(c) \/ Advance(c)
       \/ Pause(c) \/ StopQueue(c) \/ Resume(c) \/ Rebuild(c) \/ Cancel(c) \/ Expire(c) \/ Write(c)
  \/ Lapse \/ Restart

Spec == Init /\ [][Next]_vars

-----------------------------------------------------------------------------
OpStates == {"absent", "pending", "handed", "applied", "failed"}
TypeOK ==
  /\ session \in [state : {"running", "paused"} \cup Terminal, cursor : 0..MaxOps,
                  lapsed : BOOLEAN]
  /\ Len(queues) \in 1..MaxQueues /\ current \in 0..Len(queues)
  /\ \A k \in DOMAIN queues :
       queues[k].ops \in [Ops -> OpStates] /\ queues[k].tries \in [Ops -> Nat]
  /\ DOMAIN calls = Callers /\ applied \subseteq Ops
  /\ advanced \in BOOLEAN /\ restarts \in 0..MaxRestarts

\* "On completion the target replica's versions advance to include every synced
\* entity": a replica whose record claims the entities of the plan has them.
\* Otherwise no later delta would ever bring them.
AdvancedIsApplied == advanced => applied = Ops
=============================================================================
