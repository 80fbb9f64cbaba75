-------------------------- MODULE TransferReliability --------------------------
(***************************************************************************)
(* How well a transfer is doing (server/transport-reliability): its        *)
(* record, with the checkpoint it resumes from, and the requests and the   *)
(* stall monitor that interrupt, recover, migrate, complete or abandon it. *)
(* Each reads the record, decides on the copy and writes some fields, the  *)
(* state among them, whatever the record says by then.  One transfer; a    *)
(* step is what happens between two awaits.                                *)
(***************************************************************************)
EXTENDS Integers

CONSTANTS
  Callers,      \* requests that may be in progress at the same time
  MaxAttempts,  \* retryPolicy.maxAttempts
  Chunks,       \* chunks of the transfer
  MaxCrashes    \* bound: times the server crashes

TransferReliabilityAssumption ==
  MaxAttempts \in Nat /\ Chunks \in Nat /\ MaxCrashes \in Nat

VARIABLES
  record,   \* state; recoveryCount; highWaterMark + 1; is recoveringSince set
  calls,    \* what each request does next, and its copy of the record
  crashes

vars == <<record, calls, crashes>>

Working == {"tracking", "degraded"}
UnderRepair == {"recovering", "migrating"}
Terminal == {"completed", "failed", "abandoned"}

\* Where a state may go; to stay is always allowed.
Allowed(state) ==
  CASE state \in Terminal -> {}
    [] state = "interrupted" -> {"recovering", "migrating", "failed", "abandoned"}
    [] state \in Working -> Working \cup Terminal \cup {"interrupted", "migrating"}
    [] state \in UnderRepair -> Working \cup Terminal \cup UnderRepair \cup {"interrupted"}

Idle == [op |-> "idle"]
Is(c, op) == calls[c].op = op
Go(c, call) == calls' = [calls EXCEPT ![c] = call]
End(c) == Go(c, Idle)
Ended == record.state \in Terminal

Init ==
  /\ record = [state |-> "tracking", count |-> 0, high |-> 0, since |-> FALSE]
  /\ calls = [c \in Callers |-> Idle]
  /\ crashes = 0

\* Mutation: the copy is written back as a whole.
OthersOfCopy(c) == calls[c].copy
\* An update leaves the fields that are not in its patch as the record has them.
Others(c) == record
SetState(c, to) == record' = [Others(c) EXCEPT !.state = to]

-----------------------------------------------------------------------------
(* checkpoint: a device reports one after the other.                       *)

Report(c, n) ==
  /\ Is(c, "idle") /\ ~Ended
  /\ \A d \in Callers : ~Is(d, "advance")
  /\ Go(c, [op |-> "advance", upTo |-> n, copy |-> record])
  /\ UNCHANGED <<record, crashes>>

\* advanceCheckpoint on the copy; the health of what the record is after that
\* (_applyHealth) may move it between TRACKING and DEGRADED.
Advance(c) ==
  /\ Is(c, "advance")
  /\ record' = [Others(c) EXCEPT !.high =
       IF calls[c].upTo > calls[c].copy.high THEN calls[c].upTo ELSE calls[c].copy.high]
  /\ \/ End(c)
     \/ /\ record'.state \in Working
        /\ \E to \in Working \ {record'.state} :
             Go(c, [op |-> "answer", to |-> to, copy |-> record'])
  /\ UNCHANGED crashes

-----------------------------------------------------------------------------
(* resume, complete, abandon: one transition, checked on the copy.         *)

Ask(c, to) ==
  /\ Is(c, "idle")
  /\ to \in Allowed(record.state) \ {record.state}
  /\ Go(c, [op |-> "answer", to |-> to, copy |-> record])
  /\ UNCHANGED <<record, crashes>>

Answer(c) ==
  /\ Is(c, "answer")
  /\ SetState(c, calls[c].to)
  /\ End(c)
  /\ UNCHANGED crashes

-----------------------------------------------------------------------------
(* recover and migrate. *)

\* What a recovery does first: give up after too many attempts, or too long
\* after the interruption.
Attempt(copy, late) ==
  [op |-> IF late \/ copy.count >= MaxAttempts THEN "giveUp" ELSE "begin",
   copy |-> copy]

\* Where an attempt ends that failed.
IfNotLast(copy) == IF copy.count >= MaxAttempts THEN "failed" ELSE "interrupted"

Stopped == record.state \in {"interrupted", "recovering"}

\* reportInterruption, of a request or the stall monitor.
Interrupt(c) ==
  /\ Is(c, "idle") /\ ~Ended /\ ~Stopped
  /\ Go(c, [op |-> "interrupt", copy |-> record])
  /\ UNCHANGED <<record, crashes>>

\* Mutation: what is being recovered is left to whoever does it.
RecoverOnce(c) ==
  /\ Is(c, "idle") /\ ~Ended /\ record.state \notin UnderRepair
  /\ \E late \in {FALSE, Stopped /\ record.since} :
       Go(c, IF Stopped THEN Attempt(record, late) ELSE [op |-> "stop", copy |-> record])
  /\ UNCHANGED <<record, crashes>>
Recover(c) ==
  /\ Is(c, "idle") /\ ~Ended
  /\ \E late \in {FALSE, Stopped /\ record.since} :
       Go(c, IF Stopped THEN Attempt(record, late) ELSE [op |-> "stop", copy |-> record])
  /\ UNCHANGED <<record, crashes>>

Stop(c) ==
  /\ Is(c, "interrupt") \/ Is(c, "stop")
  /\ record' = [Others(c) EXCEPT !.state = "interrupted", !.since = TRUE]
  /\ IF Is(c, "stop") THEN Go(c, Attempt(record', FALSE)) ELSE End(c)
  /\ UNCHANGED crashes

\* The attempt is counted; then a hook is asked, or the connection changed.
Begin(c) ==
  /\ Is(c, "begin")
  /\ record' = [Others(c) EXCEPT
       !.state = "recovering", !.count = calls[c].copy.count + 1]
  /\ \E next \in {"hook", "move"} :
       Go(c, [op |-> next, thenConclude |-> TRUE, copy |-> record'])
  /\ UNCHANGED crashes

GiveUp(c) ==
  /\ Is(c, "giveUp")
  /\ SetState(c, "failed")
  /\ End(c)
  /\ UNCHANGED crashes

\* The hook answered that it did what it was asked.
Recovered(c) ==
  /\ Is(c, "hook")
  /\ record' = [Others(c) EXCEPT !.state = "tracking", !.since = FALSE]
  /\ End(c)
  /\ UNCHANGED crashes

\* Mutation: an error of the hook ends the request.
HookThrows(c) ==
  /\ Is(c, "hook")
  /\ End(c)
  /\ UNCHANGED <<record, crashes>>
\* It did not, or threw: another attempt may follow, or this was the last.
HookFails(c) ==
  /\ Is(c, "hook")
  /\ SetState(c, IfNotLast(calls[c].copy))
  /\ End(c)
  /\ UNCHANGED crashes

Migrate(c) ==
  /\ Is(c, "idle") /\ ~Ended
  /\ Go(c, [op |-> "move", thenConclude |-> FALSE, copy |-> record])
  /\ UNCHANGED <<record, crashes>>

\* _migrateInternal: MIGRATING, while the new connection is validated and
\* switched to, then where that ended.
Move(c) ==
  /\ Is(c, "move")
  /\ SetState(c, "migrating")
  /\ Go(c, [calls[c] EXCEPT !.op = "switch"])
  /\ UNCHANGED crashes

Switched(c) ==
  /\ Is(c, "switch")
  /\ \E to \in {"tracking", "interrupted"} :
       /\ SetState(c, to)
       /\ IF calls[c].thenConclude THEN Go(c, [op |-> "conclude", copy |-> record'])
          ELSE End(c)
  /\ UNCHANGED crashes

\* _applyRecoveryOutcome after a migration.
Conclude(c) ==
  /\ Is(c, "conclude")
  /\ IF calls[c].copy.state = "tracking"
       THEN record' = [Others(c) EXCEPT !.since = FALSE]
       ELSE SetState(c, IfNotLast(calls[c].copy))
  /\ End(c)
  /\ UNCHANGED crashes

Crash ==
  /\ crashes < MaxCrashes
  /\ crashes' = crashes + 1
  /\ calls' = [c \in Callers |-> Idle]
  /\ UNCHANGED record

\* The awaited steps of a request.
Step(c) ==
  \/ Advance(c) \/ Answer(c) \/ Stop(c) \/ Begin(c) \/ GiveUp(c)
  \/ Recovered(c) \/ HookFails(c) \/ Move(c) \/ Switched(c) \/ Conclude(c)

Next ==
  \/ \E c \in Callers :
       \/ \E n \in 0..Chunks : Report(c, n)
       \/ \E to \in {"tracking", "completed", "abandoned"} : Ask(c, to)
       \/ Interrupt(c) \/ Recover(c) \/ Migrate(c)
       \/ Step(c)
  \/ Crash

\* Requests are answered, and the device goes on asking for recovery.
RecoverStopped(c) == record.state \notin Working /\ Recover(c)
Fairness ==
  \A c \in Callers : WF_vars(Step(c)) /\ SF_vars(RecoverStopped(c))

Spec == Init /\ [][Next]_vars /\ Fairness

-----------------------------------------------------------------------------
TypeOK ==
  /\ record.state \in Working \cup UnderRepair \cup Terminal \cup {"interrupted"}
  /\ record.count \in 0..MaxAttempts
  /\ record.high \in 0..Chunks /\ record.since \in BOOLEAN
  /\ \A c \in Callers :
       calls[c].op \in {"idle", "advance", "answer", "interrupt", "stop", "begin",
                        "giveUp", "hook", "move", "switch", "conclude"}
  /\ crashes \in 0..MaxCrashes

\* A recovery resumes and never starts over: whatever overlaps, no request takes
\* the checkpoint back, not even one that writes after a newer checkpoint.
ResumesForward == record'.high >= record.high

\* A transfer that says it is being recovered or migrated is: in a server that
\* keeps running, no attempt, however it fails and whatever overlaps with it,
\* leaves the record behind in such a state, where the stall monitor does not look.
RepairIsAttended ==
  record.state \in UnderRepair /\ crashes = 0
    => \E c \in Callers : calls[c].op \in {"hook", "move", "switch"}

\* An interrupted transfer whose device goes on asking for recovery does not stay
\* so: it works again or is given up, also when the server crashed in between.
RepairEnds == []<>(record.state \in Working \cup Terminal)
=============================================================================
