---------------------------- MODULE SessionEvolution ----------------------------
(***************************************************************************)
(* The record of how the keys of one session evolve                        *)
(* (server/session-evolution): its state, its generation and the history   *)
(* of its generations.  Events of the session (a bridge listens to them),  *)
(* the forward secrecy manager and requests change it and may overlap:     *)
(* each reads the record, decides on the copy and writes some fields, the  *)
(* advance of a generation in three writes.  A step is what happens        *)
(* between two awaits.                                                     *)
(***************************************************************************)
EXTENDS Integers, Sequences

CONSTANTS
  Callers,       \* calls that may be in progress at the same time
  MaxGeneration  \* bound: generations

SessionEvolutionAssumption == MaxGeneration \in Nat

VARIABLES
  record,  \* the record: state, generation, versionHistory, pending
  calls    \* what each call does next, and its copy of the record

vars == <<record, calls>>

NoRecord == [state |-> "none"]
Kept == record # NoRecord
Ready == {"stable", "scheduled", "pending"}

\* Where a state may go (FAILED, for records that are corrupted, is left out).
Allowed(state) ==
  CASE state = "initialized" -> {"stable", "retired"}
    [] state = "stable" -> {"scheduled", "pending", "evolving", "retired"}
    [] state = "scheduled" -> {"pending", "evolving", "cancelled", "stable", "retired"}
    [] state = "pending" -> {"evolving", "cancelled", "stable", "retired"}
    [] state = "evolving" -> {"evolved", "retired"}
    [] state = "evolved" -> {"stable", "retired"}
    [] state = "cancelled" -> {"stable", "scheduled", "pending", "retired"}
    [] state = "retired" -> {}

Idle == [op |-> "idle"]
Is(c, op) == calls[c].op = op
Go(c, call) == calls' = [calls EXCEPT ![c] = call]
End(c) == Go(c, Idle)

Init ==
  /\ record = NoRecord
  /\ calls = [c \in Callers |-> Idle]

\* session.created, which a session's id sees once.
Create(c) ==
  /\ Is(c, "idle") /\ ~Kept
  /\ \A d \in Callers : Is(d, "idle")
  /\ record' = [state |-> "initialized", generation |-> 0, history |-> <<>>,
                pending |-> FALSE]
  /\ Go(c, [op |-> "settle"])

-----------------------------------------------------------------------------
(* A call reads the record and decides. *)

Ask(c, to) ==
  /\ Is(c, "idle") /\ Kept
  /\ to \in Allowed(record.state)
  /\ Go(c, [op |-> to, copy |-> record])
  /\ UNCHANGED record

Schedule(c) == \E to \in {"scheduled", "pending"} : Ask(c, to)
Cancel(c) == Ask(c, "cancelled")
Retire(c) == Ask(c, "retired")
\* advanceGeneration
Advance(c) ==
  /\ Kept /\ record.state \in Ready
  /\ record.generation < MaxGeneration
  /\ Ask(c, "evolving")

-----------------------------------------------------------------------------
(* _transition: the writes. *)

Set(c, to, pending) == record' = [record EXCEPT !.state = to, !.pending = pending]

Scheduled(c) ==
  /\ Kept
  /\ \E to \in {"scheduled", "pending"} : Is(c, to) /\ Set(c, to, TRUE)
  /\ End(c)

Cancelled(c) ==
  /\ Is(c, "cancelled") /\ Kept
  /\ Set(c, "cancelled", FALSE)
  /\ Go(c, [op |-> "settle"])

Evolving(c) ==
  /\ Is(c, "evolving") /\ Kept
  /\ Set(c, "evolving", record.pending)
  /\ Go(c, [op |-> "evolved", copy |-> calls[c].copy])

\* Mutation: the new generation is pushed onto the history there is by then.
HistoryOfRecord(c) == Append(record.history, calls[c].copy.generation + 1)
\* The history that was read goes on.
HistoryOfCopy(c) == Append(calls[c].copy.history, calls[c].copy.generation + 1)

Evolved(c) ==
  /\ Is(c, "evolved") /\ Kept
  /\ record' = [state |-> "evolved", generation |-> calls[c].copy.generation + 1,
                history |-> HistoryOfCopy(c), pending |-> FALSE]
  /\ Go(c, [op |-> "settle"])

\* STABLE, after a creation, a cancellation or an advance.
Settled(c) ==
  /\ Is(c, "settle") /\ Kept
  /\ Set(c, "stable", record.pending)
  /\ End(c)

RetireWrites(c) ==
  /\ Is(c, "retired") /\ Kept
  /\ Set(c, "retired", FALSE)
  /\ End(c)

Delete ==
  /\ Kept
  /\ record' = NoRecord
  /\ UNCHANGED calls

\* There is no record to update.
NotFound(c) ==
  /\ ~Is(c, "idle") /\ ~Kept
  /\ End(c)
  /\ UNCHANGED record

Next ==
  \/ \E c \in Callers :
       \/ Create(c) \/ Schedule(c) \/ Cancel(c) \/ Advance(c) \/ Retire(c)
       \/ Scheduled(c) \/ Cancelled(c) \/ Evolving(c) \/ Evolved(c) \/ Settled(c)
       \/ RetireWrites(c) \/ NotFound(c)
  \/ Delete

Spec == Init /\ [][Next]_vars

-----------------------------------------------------------------------------
TypeOK ==
  /\ Kept => /\ record.state \in Ready \cup {"initialized", "evolving", "evolved",
                                             "cancelled", "retired"}
             /\ record.generation \in 0..MaxGeneration
             /\ record.history \in Seq(1..MaxGeneration)
             /\ record.pending \in BOOLEAN
  /\ \A c \in Callers :
       calls[c].op \in Ready \cup {"idle", "settle", "cancelled", "evolving",
                                   "evolved", "retired"}

\* The history lists every generation up to that of the record, in order and
\* once, whichever of the advances that overlap was written last: what
\* validateEvolution would call corrupted never comes about.
HistoryTells ==
  Kept => record.history = [i \in 1..record.generation |-> i]
=============================================================================
