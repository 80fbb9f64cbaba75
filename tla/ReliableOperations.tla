-------------------------- MODULE ReliableOperations --------------------------
(***************************************************************************)
(* Operations of the fabric under the reliability runtime                  *)
(* (server/fabric-reliability): the circuit breaker lets an operation in,  *)
(* the bulkhead gives it a slot, the retry policy runs it, the recovery    *)
(* engine runs it again, and a checkpoint in the database says how it      *)
(* ended.  Operations of one kind and one compartment, so they share       *)
(* breaker and bulkhead.  The store does not fail.                         *)
(***************************************************************************)
EXTENDS Naturals, Sequences, FiniteSets

CONSTANTS
  Callers,           \* each runs one operation after the other
  MaxConcurrent,     \* slots of the bulkhead
  MaxQueue,          \* operations that may wait for one
  MaxAttempts,       \* of the retry policy
  MaxResumes,        \* maxResumeAttempts of the recovery engine
  FailureThreshold,  \* failures in the rolling window that open the breaker
  SuccessThreshold,  \* successes that close it again
  MaxCrashes         \* bound: times the server crashes

ReliableOperationsAssumption ==
  /\ MaxConcurrent \in Nat \ {0} /\ MaxQueue \in Nat
  /\ MaxAttempts \in Nat \ {0} /\ MaxResumes \in Nat
  /\ FailureThreshold \in Nat \ {0} /\ SuccessThreshold \in Nat \ {0}
  /\ MaxCrashes \in Nat

VARIABLES
  breaker,  \* state, recent failures, successes while half-open, and whether
            \* resetTimeoutMs is over since it opened
  active,   \* operations that hold a slot
  queue,    \* those that wait for one
  ops,      \* what each caller's operation is at
  record,   \* state of its checkpoint
  failing,  \* the dependency may fail
  swept,    \* checkpoints recoverInterrupted has listed and not yet written
  crashes

vars == <<breaker, active, queue, ops, record, failing, swept, crashes>>

Closed == {"none", "succeeded", "recovered", "gracefully-failed"}
Idle == [at |-> "idle", attempt |-> 0]
At(c) == ops[c].at
Go(c, at) == ops' = [ops EXCEPT ![c] = [at |-> at, attempt |-> 1]]

Fresh == [state |-> "closed", failures |-> 0, trials |-> 0, ripe |-> FALSE]

Init ==
  /\ breaker = Fresh
  /\ active = 0 /\ queue = <<>>
  /\ ops = [c \in Callers |-> Idle]
  /\ record = [c \in Callers |-> "none"]
  /\ failing = TRUE
  /\ swept = {}
  /\ crashes = 0

-----------------------------------------------------------------------------
(* The circuit breaker. *)

Tripped(b) == [b EXCEPT !.state = "open", !.ripe = FALSE]

\* Mutation: successes while half-open are not counted.
AfterSuccessUncounted(b) ==
  IF b.state = "half-open" /\ SuccessThreshold = 1 THEN Fresh ELSE b
\* recordSuccess: any success counts while half-open, also of an operation
\* that was let in before the breaker opened.
AfterSuccess(b) ==
  IF b.state # "half-open" THEN b
  ELSE IF b.trials + 1 >= SuccessThreshold THEN Fresh
  ELSE [b EXCEPT !.trials = @ + 1]

\* recordFailure: a failed trial opens it again; while open a late failure
\* starts the reset timeout anew.
AfterFailure(b, class) ==
  IF class # "tripping" THEN b
  ELSE IF b.state = "half-open" THEN Tripped(b)
  ELSE IF b.failures + 1 >= FailureThreshold
       THEN Tripped([b EXCEPT !.failures = FailureThreshold])
  ELSE [b EXCEPT !.failures = @ + 1]

\* Failures leave the rolling window, the reset timeout runs out.
Prune ==
  /\ breaker.state = "closed" /\ breaker.failures > 0
  /\ breaker' = [breaker EXCEPT !.failures = @ - 1]
  /\ UNCHANGED <<active, queue, ops, record, failing, swept, crashes>>
Elapse ==
  /\ breaker.state = "open" /\ ~breaker.ripe
  /\ breaker' = [breaker EXCEPT !.ripe = TRUE]
  /\ UNCHANGED <<active, queue, ops, record, failing, swept, crashes>>

\* assertPass.  While it is half-open every operation is let in, not only one.
Admit(c) ==
  /\ At(c) = "idle" /\ record[c] \in Closed
  /\ breaker.state = "open" => breaker.ripe
  /\ breaker' = IF breaker.state = "open"
                THEN [breaker EXCEPT !.state = "half-open", !.trials = 0] ELSE breaker
  /\ Go(c, "begin")
  /\ UNCHANGED <<active, queue, record, failing, swept, crashes>>

-----------------------------------------------------------------------------
(* The bulkhead. *)

\* The checkpoint is written, then the operation asks for a slot; refused, it
\* counts as a failure and goes straight to its recovery.
Begin(c) ==
  /\ At(c) = "begin"
  /\ record' = [record EXCEPT ![c] = "running"]
  /\ \/ /\ active < MaxConcurrent
        /\ active' = active + 1
        /\ Go(c, "run")
        /\ UNCHANGED <<queue, breaker>>
     \/ /\ active >= MaxConcurrent /\ Len(queue) < MaxQueue
        /\ queue' = Append(queue, c)
        /\ Go(c, "queued")
        /\ UNCHANGED <<active, breaker>>
     \/ /\ active >= MaxConcurrent /\ Len(queue) >= MaxQueue
        /\ breaker' = AfterFailure(breaker, "tripping")
        /\ Go(c, "recover")
        /\ UNCHANGED <<active, queue>>
  /\ UNCHANGED <<failing, swept, crashes>>

\* Mutation: the slot is given back, and nobody who waits is called.
LeaveOnly(c, at) ==
  /\ active' = active - 1 /\ UNCHANGED queue
  /\ Go(c, at)
\* The operation leaves its slot, and the first in the queue gets one.
Leave(c, at) ==
  IF queue = <<>>
  THEN active' = active - 1 /\ Go(c, at) /\ UNCHANGED queue
  ELSE /\ queue' = Tail(queue) /\ UNCHANGED active
       /\ ops' = [ops EXCEPT ![c] = [at |-> at, attempt |-> 1],
                             ![Head(queue)] = [at |-> "run", attempt |-> 1]]

-----------------------------------------------------------------------------
(* The executor under retry policy and timeout. *)

Succeed(c) ==
  /\ At(c) = "run"
  /\ Leave(c, "complete")
  /\ breaker' = AfterSuccess(breaker)
  /\ UNCHANGED <<record, failing, swept, crashes>>

\* Failures that count for the breaker (transient, timeout, resource), the
\* unknown ones, and those that are the caller's fault; the last are not
\* retried.  When the retries are used up the failure counts as transient.
Fail(c, class) ==
  /\ failing /\ At(c) = "run"
  /\ IF class # "caller" /\ ops[c].attempt < MaxAttempts
     THEN /\ ops' = [ops EXCEPT ![c].attempt = @ + 1]
          /\ UNCHANGED <<breaker, active, queue>>
     ELSE /\ Leave(c, IF class = "caller" THEN "refused" ELSE "recover")
          /\ breaker' = AfterFailure(breaker,
                          IF class = "caller" THEN "caller" ELSE "tripping")
  /\ UNCHANGED <<record, failing, swept, crashes>>

-----------------------------------------------------------------------------
(* The recovery engine. *)

\* recover.
Recover(c) ==
  /\ At(c) \in {"recover", "refused"}
  /\ record' = [record EXCEPT ![c] = "recovering"]
  /\ Go(c, IF At(c) = "recover" /\ MaxResumes > 0 THEN "resume" ELSE "failed")
  /\ UNCHANGED <<breaker, active, queue, failing, swept, crashes>>

\* The executor again, outside of bulkhead and breaker.
Resume(c) ==
  /\ At(c) = "resume"
  /\ \/ Go(c, "resumed")
     \/ /\ failing
        /\ IF ops[c].attempt < MaxResumes
           THEN ops' = [ops EXCEPT ![c].attempt = @ + 1] ELSE Go(c, "failed")
  /\ UNCHANGED <<breaker, active, queue, record, failing, swept, crashes>>

\* The checkpoint gets the outcome, and the caller its answer.
Outcome == [complete |-> "succeeded", resumed |-> "recovered",
            failed |-> "gracefully-failed"]
Close(c) ==
  /\ At(c) \in DOMAIN Outcome
  /\ record' = [record EXCEPT ![c] = Outcome[At(c)]]
  /\ ops' = [ops EXCEPT ![c] = Idle]
  /\ UNCHANGED <<breaker, active, queue, failing, swept, crashes>>

\* Mutation: only running operations are taken for interrupted.
ListRunning ==
  /\ swept = {}
  /\ swept' = {c \in Callers : record[c] = "running"}
  /\ UNCHANGED <<breaker, active, queue, ops, record, failing, crashes>>
\* recoverInterrupted, which the monitor calls without an executor: whatever
\* is open for stalledAfterMs, still at work or not, is given up.
List ==
  /\ swept = {}
  /\ swept' = {c \in Callers : record[c] \notin Closed}
  /\ UNCHANGED <<breaker, active, queue, ops, record, failing, crashes>>
GiveUp ==
  /\ \E c \in swept :
       /\ record' = [record EXCEPT ![c] = "gracefully-failed"]
       /\ swept' = swept \ {c}
  /\ UNCHANGED <<breaker, active, queue, ops, failing, crashes>>

-----------------------------------------------------------------------------
\* The dependency is well again.
Heal ==
  /\ failing
  /\ failing' = FALSE
  /\ UNCHANGED <<breaker, active, queue, ops, record, swept, crashes>>

\* The checkpoints are in the database, the rest is gone.
Crash ==
  /\ crashes < MaxCrashes
  /\ crashes' = crashes + 1
  /\ breaker' = Fresh
  /\ active' = 0 /\ queue' = <<>>
  /\ ops' = [c \in Callers |-> Idle]
  /\ swept' = {}
  /\ UNCHANGED <<record, failing>>

\* What happens to an operation once it is let in.
Work(c) ==
  \/ Begin(c) \/ Succeed(c) \/ Recover(c) \/ Resume(c) \/ Close(c)
  \/ \E class \in {"tripping", "unknown", "caller"} : Fail(c, class)

Next ==
  \/ \E c \in Callers : Admit(c) \/ Work(c)
  \/ Prune \/ Elapse \/ List \/ GiveUp \/ Heal \/ Crash

\* Executors end or time out, clocks go on, the monitor ticks, callers come
\* again, and the dependency recovers.
Fairness ==
  /\ \A c \in Callers : WF_vars(Admit(c)) /\ WF_vars(Work(c))
  /\ WF_vars(Elapse) /\ WF_vars(List) /\ WF_vars(GiveUp) /\ WF_vars(Heal)

Spec == Init /\ [][Next]_vars /\ Fairness

-----------------------------------------------------------------------------
Holding == {c \in Callers : At(c) = "run"}

TypeOK ==
  /\ breaker.state \in {"closed", "open", "half-open"}
  /\ breaker.failures \in 0..FailureThreshold
  /\ breaker.trials \in 0..SuccessThreshold /\ breaker.ripe \in BOOLEAN
  /\ active \in 0..MaxConcurrent /\ queue \in Seq(Callers)
  /\ \A c \in Callers :
       /\ At(c) \in {"idle", "begin", "queued", "run", "complete", "recover",
                     "refused", "resume", "resumed", "failed"}
       /\ record[c] \in Closed \cup {"running", "recovering"}
  /\ failing \in BOOLEAN /\ swept \subseteq Callers /\ crashes \in 0..MaxCrashes

\* The bulkhead's count is that of the operations with a slot, and nobody waits
\* while a slot is free: else it would shed or strand operations for ever.
SlotsAccounted ==
  /\ active = Cardinality(Holding)
  /\ queue # <<>> => active = MaxConcurrent
  /\ Len(queue) <= MaxQueue
  /\ {queue[i] : i \in DOMAIN queue} = {c \in Callers : At(c) = "queued"}

\* No checkpoint is left dangling, although the server may crash.
NoneDangling ==
  \A c \in Callers : record[c] \notin Closed ~> record[c] \in Closed

\* When the dependency is well again the breaker closes in the end.  Only when
\* there are no more operations than slots and places in the queue: a refused
\* one counts as a failure of the dependency.
ClosesAgain == <>[](breaker.state = "closed")
=============================================================================
