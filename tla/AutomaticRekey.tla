---------------------------- MODULE AutomaticRekey ----------------------------
(***************************************************************************)
(* Automatic rekeying (server/evolution-policy/manager/                    *)
(* automaticRekeyManager.js and execution/executionEngine.js).  A trigger  *)
(* reads the session's generation and submits an execution; executions of  *)
(* a session run one after the other, and one whose generation is no       *)
(* longer current is coalesced.  An execution evolves forward secrecy and  *)
(* stores its own state in the policy record as it goes.                   *)
(***************************************************************************)
EXTENDS ForwardSecrecy, Sequences

CONSTANTS
  MaxAttempts,    \* RekeyExecutionEngine.maxAttempts
  MaxExecutions,  \* bound: executions
  PersistMayFail  \* whether storing an execution's state may fail

AutomaticRekeyAssumption ==
  MaxAttempts \in Nat \ {0} /\ MaxExecutions \in Nat /\ PersistMayFail \in BOOLEAN

VARIABLES
  triggers,   \* what each caller's trigger is at
  queue,      \* callers in the session's lock, the running one first
  pending,    \* the policy record's pending execution, or None
  executions  \* the policy record's executions, by number

rekey == <<triggers, queue, pending, executions>>
rekeyVars == <<vars, rekey>>

None == [id |-> 0, state |-> "none"]
NoTrigger == [step |-> "idle", expected |-> -1, id |-> 0, attempt |-> 0]
Step(c) == triggers[c].step
Goto(c, step) == triggers' = [triggers EXCEPT ![c].step = step]
Leave(c) ==
  /\ triggers' = [triggers EXCEPT ![c] = NoTrigger]
  /\ queue' = Tail(queue)
Running(c) == queue # <<>> /\ Head(queue) = c

\* Rekeying is configured for a session whose forward secrecy has started.
RekeyInit ==
  /\ store = Fresh /\ record = NewRecord
  /\ calls = [c \in Callers |-> Ended(FALSE)]
  /\ triggers = [c \in Callers |-> NoTrigger]
  /\ queue = <<>>
  /\ pending = None
  /\ executions = <<>>

\* trigger: no execution is pending (assertNoDuplicateExecution).
Trigger(c) ==
  /\ Free(c) /\ Step(c) = "idle"
  /\ pending.state \notin {"pending", "executing"}
  /\ Len(executions) + Cardinality({d \in Callers : Step(d) # "idle"}) < MaxExecutions
  /\ Goto(c, "checked")
  /\ UNCHANGED <<vars, queue, pending, executions>>

\* _currentGeneration
Expect(c) ==
  /\ Step(c) = "checked"
  /\ triggers' = [triggers EXCEPT ![c].step = "expecting", ![c].expected = record.gen]
  /\ UNCHANGED <<vars, queue, pending, executions>>

\* submit, _exclusive
Submit(c) ==
  /\ Step(c) = "expecting"
  /\ queue' = Append(queue, c)
  /\ Goto(c, "queued")
  /\ UNCHANGED <<vars, pending, executions>>

\* _persistExecution
Persist(id, state) ==
  /\ pending' = IF state \in {"pending", "executing"}
                  THEN [id |-> id, state |-> state] ELSE None
  /\ executions' = [executions EXCEPT ![id].state = state]

\* _run: a new execution, stored as pending.
Begin(c) ==
  LET id == Len(executions) + 1
  IN /\ Running(c) /\ Step(c) = "queued"
     /\ id <= MaxExecutions
     /\ pending' = [id |-> id, state |-> "pending"]
     /\ executions' = Append(executions,
          [state |-> "pending", expected |-> triggers[c].expected, cancelled |-> FALSE])
     /\ triggers' = [triggers EXCEPT ![c].step = "begun", ![c].id = id]
     /\ UNCHANGED <<vars, queue>>

\* The session moved on since the trigger.
Coalesce(c) ==
  /\ Running(c) /\ Step(c) = "begun"
  /\ record.gen # triggers[c].expected
  /\ Persist(triggers[c].id, "cancelled")
  /\ Leave(c)
  /\ UNCHANGED vars

\* Mutation: the generation is not compared.
ExecuteAnyway(c) ==
  /\ Running(c) /\ Step(c) = "begun"
  /\ Persist(triggers[c].id, "executing")
  /\ triggers' = [triggers EXCEPT ![c].step = "executing", ![c].attempt = 1]
  /\ UNCHANGED <<vars, queue>>

Execute(c) ==
  /\ Running(c) /\ Step(c) = "begun"
  /\ record.gen = triggers[c].expected
  /\ Persist(triggers[c].id, "executing")
  /\ triggers' = [triggers EXCEPT ![c].step = "executing", ![c].attempt = 1]
  /\ UNCHANGED <<vars, queue>>

\* ops.evolve is called; it refuses a session that is not started.
CallEvolve(c) ==
  /\ Step(c) = "executing"
  /\ Evolve(c) \/ (~ record.started /\ Busy(c, Ended(FALSE)) /\ UNCHANGED <<store, record>>)
  /\ Goto(c, "evolving")
  /\ UNCHANGED <<queue, pending, executions>>

\* It returned, and the execution is stored as completed.
Complete(c) ==
  /\ Step(c) = "evolving" /\ Free(c) /\ calls[c].ok
  /\ Persist(triggers[c].id, "completed")
  /\ Leave(c)
  /\ UNCHANGED vars

\* It threw, or storing the execution as completed threw.
AttemptFailed(c) ==
  Step(c) = "evolving" /\ Free(c) /\ (~ calls[c].ok \/ PersistMayFail)

\* Mutation: one attempt too many.
RetryOnceMore(c) ==
  /\ AttemptFailed(c) /\ triggers[c].attempt <= MaxAttempts
  /\ Persist(triggers[c].id, IF calls[c].ok THEN "completed" ELSE "executing")
  /\ triggers' = [triggers EXCEPT ![c].step = "executing", ![c].attempt = @ + 1]
  /\ UNCHANGED <<vars, queue>>

\* The catch block stores the execution's state, which is "completed" when
\* only the storing had failed, and tries again.
Retry(c) ==
  /\ AttemptFailed(c) /\ triggers[c].attempt < MaxAttempts
  /\ Persist(triggers[c].id, IF calls[c].ok THEN "completed" ELSE "executing")
  /\ triggers' = [triggers EXCEPT ![c].step = "executing", ![c].attempt = @ + 1]
  /\ UNCHANGED <<vars, queue>>

\* Mutation: a failed execution does not pass the lock on.
GiveUpHolding(c) ==
  /\ AttemptFailed(c) /\ triggers[c].attempt = MaxAttempts
  /\ Persist(triggers[c].id, "failed")
  /\ triggers' = [triggers EXCEPT ![c] = NoTrigger]
  /\ UNCHANGED <<vars, queue>>

GiveUp(c) ==
  /\ AttemptFailed(c) /\ triggers[c].attempt = MaxAttempts
  /\ Persist(triggers[c].id, "failed")
  /\ Leave(c)
  /\ UNCHANGED vars

\* Storing the state failed there as well: submit rejects and the lock is free.
Abandon(c) ==
  /\ PersistMayFail /\ AttemptFailed(c)
  /\ Leave(c)
  /\ UNCHANGED <<vars, pending, executions>>

\* cancelPending: the record forgets the pending execution and lists it once
\* more as cancelled; the engine is not told.
CancelPending ==
  /\ pending.state = "pending"
  /\ pending' = None
  /\ executions' = [executions EXCEPT ![pending.id].cancelled = TRUE]
  /\ UNCHANGED <<vars, triggers, queue>>

RekeyRestart ==
  /\ Restart
  /\ triggers' = [c \in Callers |-> NoTrigger]
  /\ queue' = <<>>
  /\ UNCHANGED <<pending, executions>>

\* One step of the trigger of c, from its expectation to its end.
Engine(c) ==
  \/ Expect(c) \/ Submit(c) \/ Begin(c) \/ Coalesce(c) \/ Execute(c)
  \/ CallEvolve(c) \/ Complete(c) \/ Retry(c) \/ GiveUp(c) \/ Abandon(c)
  \/ Proceed(c) /\ UNCHANGED rekey

\* Callers outside the engine evolve or end the session, which is not started
\* anew (bound).
Directly(c) ==
  /\ Step(c) = "idle"
  /\ (Evolve(c) /\ record.gen < MaxGeneration) \/ Destroy(c)
  /\ UNCHANGED rekey

RekeyNext ==
  \/ RekeyRestart \/ CancelPending
  \/ \E c \in Callers : Trigger(c) \/ Directly(c) \/ Engine(c)

RekeySpec == RekeyInit /\ [][RekeyNext]_rekeyVars

-----------------------------------------------------------------------------

RekeyTypeOK ==
  /\ TypeOK
  /\ pending.id \in 0..MaxExecutions
  /\ Len(executions) <= MaxExecutions
  /\ \A c \in Callers : triggers[c].attempt \in 0..MaxAttempts
  /\ \A i, j \in 1..Len(queue) : queue[i] = queue[j] => i = j

\* A trigger reaches its end, whatever fails and whoever is in the lock before
\* it: the lock is passed on (_exclusive).
TriggersEnd == \A c \in Callers : Step(c) = "queued" ~> Step(c) = "idle"

Completed(i) == executions[i].state = "completed"

\* A burst of triggers on one generation rekeys once: no two executions that
\* expected the same generation complete (executionEngine.js).
BurstRekeysOnce ==
  \A i, j \in DOMAIN executions :
    i # j /\ Completed(i) /\ Completed(j) => executions[i].expected # executions[j].expected

\* An execution that cancelPending cancelled does not run.
CancelledNeverRuns ==
  \A i \in DOMAIN executions :
    executions[i].cancelled => executions[i].state \notin {"executing", "completed"}

=============================================================================
