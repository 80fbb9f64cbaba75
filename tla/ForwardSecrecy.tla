---------------------------- MODULE ForwardSecrecy ----------------------------
(***************************************************************************)
(* Forward secrecy of one session on a device                              *)
(* (server/forward-secrecy/manager/forwardSecrecyManager.js with its key   *)
(* store and repository).  Evolving derives the next generation of keys,   *)
(* wipes the chain secret it came from and keeps the keys of the last few  *)
(* generations.  The key store lives in memory; the record of the          *)
(* generations is in a repository, read before and written after the key   *)
(* store changes.  Callers may overlap and the device may restart.         *)
(***************************************************************************)
EXTENDS Integers, FiniteSets

CONSTANTS
  Callers,        \* calls that may be in flight at the same time
  Retained,       \* retainedGenerations
  MaxGeneration,  \* bound: evolutions that callers ask for go to this generation
  UpdateMayFail   \* whether writing the record may fail

ForwardSecrecyAssumption ==
  Retained \in Nat /\ MaxGeneration \in Nat /\ UpdateMayFail \in BOOLEAN

VARIABLES
  store,  \* the key store: generation it stands at and those it has keys of
  record, \* the repository's record: "live" generations are not destroyed
  calls   \* the call each caller is in; an idle one shows how the last ended

vars == <<store, record, calls>>

Gone == [gen |-> -1, held |-> {}]
Fresh == [gen |-> 0, held |-> {0}]
NoRecord == [started |-> FALSE, gen |-> -1, live |-> {}]
NewRecord == [started |-> TRUE, gen |-> 0, live |-> {0}]

Ended(ok) == [op |-> "idle", ok |-> ok]
Free(c) == calls[c].op = "idle"
Busy(c, call) == calls' = [calls EXCEPT ![c] = call]
With(op, copy) == [op |-> op, copy |-> copy]

Init ==
  /\ store = Gone
  /\ record = NoRecord
  /\ calls = [c \in Callers |-> Ended(FALSE)]

\* start: reads that there is no record, fills the store, creates the record.
Start(c) ==
  /\ Free(c) /\ record = NoRecord
  /\ Busy(c, With("start", record))
  /\ UNCHANGED <<store, record>>

StartWrite(c) ==
  /\ calls[c].op = "start"
  /\ store' = Fresh /\ record' = NewRecord
  /\ Busy(c, Ended(TRUE))

\* evolve: the record as it is now.
Evolve(c) ==
  /\ Free(c) /\ record.started
  /\ Busy(c, With("evolve", record))
  /\ UNCHANGED <<store, record>>

\* commitEvolution and pruneOlderThan
Committed(gen) ==
  [gen |-> gen, held |-> {g \in store.held \cup {gen} : g >= gen - Retained}]

\* Mutation: the store is not compared with the record.
CommitUnchecked(c) ==
  LET copy == calls[c].copy
      after == Committed(copy.gen + 1)
  IN /\ calls[c].op = "evolve" /\ store # Gone
     /\ store' = after
     /\ Busy(c, With("write", [gen |-> copy.gen + 1,
          live |-> (copy.live \ (store.held \ after.held)) \cup {copy.gen + 1}]))
     /\ UNCHANGED record

\* Store and record agree: evolve the store, then the record is to follow.
Commit(c) ==
  LET copy == calls[c].copy
      after == Committed(copy.gen + 1)
  IN /\ calls[c].op = "evolve" /\ store.gen = copy.gen
     /\ store' = after
     /\ Busy(c, With("write", [gen |-> copy.gen + 1,
          live |-> (copy.live \ (store.held \ after.held)) \cup {copy.gen + 1}]))
     /\ UNCHANGED record

\* assertVersionConsistency: another call evolved, or the store was lost.
CommitRefused(c) ==
  /\ calls[c].op = "evolve" /\ store.gen # calls[c].copy.gen
  /\ Busy(c, Ended(FALSE))
  /\ UNCHANGED <<store, record>>

\* Mutation: pruned generations stay listed.
WriteKeepingPruned(c) ==
  /\ calls[c].op = "write" /\ record # NoRecord
  /\ record' = [record EXCEPT !.gen = calls[c].copy.gen,
                              !.live = @ \cup {calls[c].copy.gen}]
  /\ Busy(c, Ended(TRUE))
  /\ UNCHANGED store

\* The update of the record, which says nothing about "started".
Write(c) ==
  /\ calls[c].op = "write" /\ record # NoRecord
  /\ record' = [record EXCEPT !.gen = calls[c].copy.gen,
                              !.live = calls[c].copy.live]
  /\ Busy(c, Ended(TRUE))
  /\ UNCHANGED store

\* The record is missing, or the repository fails.
WriteFails(c) ==
  /\ calls[c].op = "write" /\ (UpdateMayFail \/ record = NoRecord)
  /\ Busy(c, Ended(FALSE))
  /\ UNCHANGED <<store, record>>

\* destroy: reads the record, wipes the store, updates the record.
Destroy(c) ==
  /\ Free(c) /\ record # NoRecord
  /\ store' = Gone
  /\ Busy(c, With("destroy", record))
  /\ UNCHANGED record

DestroyWrite(c) ==
  /\ calls[c].op = "destroy"
  /\ record' = IF record = NoRecord THEN NoRecord
               ELSE [record EXCEPT !.started = FALSE, !.live = {}]
  /\ Busy(c, Ended(record # NoRecord))
  /\ UNCHANGED store

\* deleteState: wipes the store, deletes the record.
Delete(c) ==
  /\ Free(c)
  /\ store' = Gone
  /\ Busy(c, With("delete", record))
  /\ UNCHANGED record

DeleteWrite(c) ==
  /\ calls[c].op = "delete"
  /\ record' = NoRecord
  /\ Busy(c, Ended(TRUE))
  /\ UNCHANGED store

\* The process ends; only the record stays.
Restart ==
  /\ store' = Gone
  /\ calls' = [c \in Callers |-> Ended(FALSE)]
  /\ UNCHANGED record

\* The steps of a call under way.
Proceed(c) ==
  \/ StartWrite(c) \/ Commit(c) \/ CommitRefused(c) \/ Write(c)
  \/ WriteFails(c) \/ DestroyWrite(c) \/ DeleteWrite(c)

Next ==
  \/ Restart
  \/ \E c \in Callers :
       \/ Start(c) \/ Destroy(c) \/ Delete(c) \/ Proceed(c)
       \/ Evolve(c) /\ record.gen < MaxGeneration

Spec == Init /\ [][Next]_vars

-----------------------------------------------------------------------------

TypeOK ==
  /\ store.gen \in Nat \cup {-1} /\ store.held \subseteq Nat
  /\ record.started \in BOOLEAN /\ record.gen \in Nat \cup {-1}
  /\ record.live \subseteq Nat
  /\ \A c \in Callers : calls[c].op \in
       {"idle", "start", "evolve", "write", "destroy", "delete"}

\* Where record and key store stand at the same generation of a started
\* session, the record lists exactly the generations whose keys can still be
\* had, whatever failed or overlapped on the way (evolve, destroy).
RecordTellsHeld ==
  record.started /\ record.gen = store.gen => record.live = store.held

\* The keys only move forward, one generation at a time, until the session is
\* started anew: overlapping evolutions never derive a generation twice
\* (assertVersionConsistency).
OneGenerationOn ==
  store # Gone /\ store' \notin {store, Gone, Fresh} =>
     store'.gen = store.gen + 1
OneGenerationAtATime == [][OneGenerationOn]_vars

=============================================================================
