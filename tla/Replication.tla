---------------------------- MODULE Replication ----------------------------
(***************************************************************************)
(* The replica manager (server/replication/manager/replicaManager.js):     *)
(* each device has a replica at the server, devices register their own     *)
(* records, and replicas are brought together pairwise by synchronizing,   *)
(* by deltas and by resolving single conflicts.                            *)
(*                                                                         *)
(* A call reads the source, reads the target, works on the two copies and  *)
(* writes them back, with an await between each; nothing compares what it  *)
(* writes over.  The counters replicaVersion and version, which nothing    *)
(* reads, and the history are left out.                                    *)
(***************************************************************************)
EXTENDS ReplicaRecords

CONSTANTS
  Times,           \* what the devices' clocks may show
  Sources,         \* replicas the devices name as the source of a call
  CategoryChoices, \* the categories a call may be limited to
  Counts,          \* what a call may give for maxItems or cursor
  MaxCalls,        \* bound: calls at work at the same time
  MaxEdits,        \* bound: edits on all devices
  MaxIncidents     \* bound: explicit resolutions, and calls cut short by an
                   \* error or a restart, taken together

ASSUME ReplicationAssumption ==
  /\ Times \subseteq Nat /\ Sources \subseteq Replicas
  /\ CategoryChoices \subseteq SUBSET Categories /\ Counts \subseteq Nat
  /\ {MaxCalls, MaxEdits, MaxIncidents} \subseteq Nat

VARIABLES
  device,   \* the records each device's app keeps of its own edits
  replica,  \* the replicas snapshots in the repository
  reading,  \* calls that have read the source
  writing,  \* calls that have read both and write the outcome
  reads,    \* history: readers that came to a replica from its own device and
            \* were not dropped by an explicit choice of one record
  edits, resolves, failures \* what has been used of the bounds

vars == <<device, replica, reading, writing, reads, edits, resolves, failures>>
bounds == <<edits, resolves, failures>>

\* A call that has read its source; n is maxItems or the cursor.
IsRequest(q) ==
  /\ q = [op |-> q.op, s |-> q.s, t |-> q.t, cats |-> q.cats, n |-> q.n,
          copy |-> q.copy]
  /\ q.op \in {"synchronize", "delta", "resume", "resolve"}
  /\ q.s \in Replicas /\ q.t \in Replicas /\ q.cats \subseteq Categories
  /\ q.n \in Nat /\ IsSnapshot(q.copy)

\* What a call writes: forTarget, and after it forSource where it stores both.
IsOutcome(w) ==
  /\ w = [s |-> w.s, t |-> w.t, forTarget |-> w.forTarget,
          forSource |-> w.forSource, both |-> w.both]
  /\ w.s \in Replicas /\ w.t \in Replicas /\ w.both \in BOOLEAN
  /\ IsSnapshot(w.forTarget) /\ IsSnapshot(w.forSource)

\* No record has more versions than there were edits.
Bounded(m) == \A c \in Categories : m[c].version <= MaxEdits

TypeOK ==
  /\ device = [r \in Replicas |-> device[r]]
  /\ replica = [r \in Replicas |-> replica[r]]
  /\ \A r \in Replicas :
       /\ IsSnapshot(device[r]) /\ IsSnapshot(replica[r])
       /\ Bounded(device[r]) /\ Bounded(replica[r])
  /\ \A q \in reading : IsRequest(q)
  /\ \A w \in writing : IsOutcome(w)
  /\ reads \in [Replicas -> SUBSET Readers]
  /\ edits \in 0..MaxEdits
  /\ resolves \in 0..MaxIncidents /\ failures \in 0..MaxIncidents

\* Every device is registered, with nothing to tell yet.
Init ==
  /\ device = [r \in Replicas |-> [c \in Categories |-> Absent(c)]]
  /\ replica = device
  /\ reading = {} /\ writing = {}
  /\ reads = [r \in Replicas |-> {}]
  /\ edits = 0 /\ resolves = 0 /\ failures = 0

MayCall == Cardinality(reading) + Cardinality(writing) < MaxCalls

(***************************************************************************)
(* Devices.                                                                *)
(***************************************************************************)

\* What an edit may make of the content of a device's record.
Edited(r, c) ==
  CASE c = "read-receipts" ->
         {device[r][c].data \cup {u} : u \in Readers \ device[r][c].data}
    [] c = "delivery" -> {d \in 1..3 : d > device[r][c].data}
    [] OTHER -> {r}

\* The app edits a record of its own: nextVersion.  It hears only counts back
\* from the server, so it builds on its own records.
Edit(r, c) ==
  /\ edits < MaxEdits
  /\ \E d \in Edited(r, c), now \in Times :
       device' = [device EXCEPT ![r][c] =
         [version |-> @.version + 1, data |-> d,
          at |-> IF c = "messages" THEN now ELSE 0]]
  /\ edits' = edits + 1
  /\ UNCHANGED <<replica, reading, writing, reads, resolves, failures>>

\* registerReplica of a registered device, updateReplica: its records meet
\* the replica as it is read here.
Register(r) ==
  /\ MayCall
  /\ LET updated == [c \in Categories |->
                       applyRecord(replica[r][c], device[r][c])] IN
       writing' = writing \cup
            {[s |-> r, t |-> r, forTarget |-> updated, forSource |-> updated,
              both |-> FALSE]}
  /\ UNCHANGED <<device, replica, reading, reads, bounds>>

(***************************************************************************)
(* Calls on two replicas.                                                  *)
(***************************************************************************)

\* The source is read.
Call(op, s, t, cats, n) ==
  /\ MayCall
  /\ s # t
  /\ reading' = reading \cup {[op |-> op, s |-> s, t |-> t, cats |-> cats,
                               n |-> n, copy |-> replica[s]]}
  /\ UNCHANGED <<device, replica, writing, reads, edits, failures>>

CallSynchronize(s, t, cats) ==
  Call("synchronize", s, t, cats, 0) /\ UNCHANGED resolves

CallDelta(s, t, cats, n) == Call("delta", s, t, cats, n) /\ UNCHANGED resolves

CallResume(s, t, cats, n) == Call("resume", s, t, cats, n) /\ UNCHANGED resolves

CallResolve(s, t, c) ==
  /\ resolves + failures < MaxIncidents
  /\ Call("resolve", s, t, {c}, 0)
  /\ resolves' = resolves + 1

\* The target is read and the outcome worked out.
Decide(q, forTarget, forSource, both) ==
  /\ reading' = reading \ {q}
  /\ writing' = writing \cup
       {[s |-> q.s, t |-> q.t, forTarget |-> forTarget,
         forSource |-> forSource, both |-> both]}
  /\ UNCHANGED <<device, replica, bounds>>

\* Mutation: only the target gets the outcome.
SynchronizeTargetOnly(q) ==
  /\ q.op = "synchronize"
  /\ LET merged == mergeReplicas(q.copy, replica[q.t], q.cats) IN
       Decide(q, merged, merged, FALSE) /\ UNCHANGED reads

\* synchronizeReplicas: both replicas get what the merge produced.
Synchronize(q) ==
  /\ q.op = "synchronize"
  /\ LET merged == mergeReplicas(q.copy, replica[q.t], q.cats) IN
       Decide(q, merged, merged, TRUE) /\ UNCHANGED reads

\* replicateDelta, at most n items.
ReplicateDelta(q) ==
  /\ q.op = "delta"
  /\ LET delta == FirstItems(Missing(q.copy, replica[q.t], q.cats), q.n)
         updated == applyDelta(replica[q.t], q.copy, delta) IN
       Decide(q, updated, updated, FALSE) /\ UNCHANGED reads

\* resumeSynchronization: the delta is made anew and n of its items skipped.
Resume(q) ==
  /\ q.op = "resume"
  /\ LET delta == AfterCursor(Missing(q.copy, replica[q.t], q.cats), q.n)
         updated == applyDelta(replica[q.t], q.copy, delta) IN
       Decide(q, updated, updated, FALSE) /\ UNCHANGED reads

\* Both replicas get record w of category c.
DecideFor(q, c, w) ==
  Decide(q, [replica[q.t] EXCEPT ![c] = w], [q.copy EXCEPT ![c] = w], TRUE)

\* What is left of the history where one of the two records is chosen.
KeepReaders(q, c, w) ==
  reads' = [r \in Replicas |-> IF c = "read-receipts" /\ r \in {q.s, q.t}
                                 THEN reads[r] \cap w.data ELSE reads[r]]

\* resolveConflict of an entity both replicas hold, concurrent or not.  The
\* policy that the caller names takes precedence over that of the category: to
\* merge the two, or to take one of them, the newest or the authority's.
Resolve(q) ==
  /\ q.op = "resolve"
  /\ \E c \in q.cats :
       LET s == q.copy[c]
           t == replica[q.t][c]
           merged == IF Mergeable(c) THEN mergeRecords(c, s, t) ELSE mergeMessages(s, t)
       IN /\ s.version > 0 /\ t.version > 0
          /\ \/ DecideFor(q, c, merged) /\ UNCHANGED reads
             \/ \E w \in {s, t} : DecideFor(q, c, w) /\ KeepReaders(q, c, w)

\* It is an error where one of them does not.
ResolveRefused(q) ==
  /\ q.op = "resolve"
  /\ \E c \in q.cats : q.copy[c].version = 0 \/ replica[q.t][c].version = 0
  /\ reading' = reading \ {q}
  /\ UNCHANGED <<device, replica, writing, reads, bounds>>

Work(q) == Synchronize(q) \/ ReplicateDelta(q) \/ Resume(q) \/ Resolve(q)
           \/ ResolveRefused(q)

\* What a call that stores both has left to write.
ForSource(w) == [s |-> w.s, t |-> w.s, forTarget |-> w.forSource,
                 forSource |-> w.forSource, both |-> FALSE]

\* _store of the target; a call that stores both goes on with the source.
StoreTarget(w) ==
  /\ w.s # w.t
  /\ replica' = [replica EXCEPT ![w.t] = w.forTarget]
  /\ writing' = (writing \ {w}) \cup (IF w.both THEN {ForSource(w)} ELSE {})
  /\ UNCHANGED <<device, reading, reads, bounds>>

\* _store of the source, or of the replica a device updates.
StoreOwn(w) ==
  /\ w.s = w.t
  /\ replica' = [replica EXCEPT ![w.t] = w.forTarget]
  /\ writing' = writing \ {w}
  /\ reads' = IF "read-receipts" \in Categories
                THEN [reads EXCEPT ![w.t] = @ \cup
                        (device[w.t]["read-receipts"].data
                           \cap w.forTarget["read-receipts"].data)]
                ELSE reads
  /\ UNCHANGED <<device, reading, bounds>>

Store(w) == StoreTarget(w) \/ StoreOwn(w)

\* The call ends where it is: nothing is undone.
FailReading(q) ==
  /\ resolves + failures < MaxIncidents
  /\ failures' = failures + 1
  /\ reading' = reading \ {q}
  /\ UNCHANGED <<device, replica, writing, reads, edits, resolves>>

FailWriting(w) ==
  /\ resolves + failures < MaxIncidents
  /\ failures' = failures + 1
  /\ writing' = writing \ {w}
  /\ UNCHANGED <<device, replica, reading, reads, edits, resolves>>

Next ==
  \/ \E r \in Replicas : Register(r) \/ \E c \in Categories : Edit(r, c)
  \/ \E s \in Sources, t \in Replicas :
       \/ \E cats \in CategoryChoices :
            \/ CallSynchronize(s, t, cats)
            \/ \E n \in Counts : \/ CallDelta(s, t, cats, n)
                                 \/ CallResume(s, t, cats, n)
       \/ \E c \in Categories : CallResolve(s, t, c)
  \/ \E q \in reading : Work(q) \/ FailReading(q)
  \/ \E w \in writing : Store(w) \/ FailWriting(w)

Spec == Init /\ [][Next]_vars

\* Calls get their answers, and every device synchronizes again and again
\* (startAutoReplication); that it comes to its turn in spite of the other
\* calls is owed to MaxCalls being a bound of the model.
Fairness ==
  /\ WF_vars(\E q \in reading : Work(q))
  /\ WF_vars(\E w \in writing : Store(w))
  /\ \A s \in Sources, t \in Replicas, cats \in CategoryChoices :
       SF_vars(CallSynchronize(s, t, cats))

FairSpec == Spec /\ Fairness

(***************************************************************************)
(* Properties.                                                             *)
(***************************************************************************)

\* What the properties rest on: calls do not overlap, and none of them is
\* limited to some of the categories.
Serial == MaxCalls <= 1
Unlimited == CategoryChoices \subseteq {Categories}

\* "Lossless (nobody un-reads)": a reader that a device has put into its
\* replica stays there, whatever is synchronized with it.  The exception is the
\* explicit resolution by a policy that takes one of two receipts and not their
\* merge: it drops the readers of the other.
ReadsKept ==
  "read-receipts" \in Categories =>
    \A r \in Replicas : reads[r] \subseteq replica[r]["read-receipts"].data

\* b may take the place of a: a later version, or at the same version the
\* same message or the one that wins the conflict.
MayReplace(a, b) ==
  \/ b.version > a.version
  \/ b.version = a.version /\ (b.data = a.data \/ Winner(a, b) = b)

\* What a step may make of the messages.
Forward ==
  ("messages" \in Categories /\ resolves' = 0) =>
     \A r \in Replicas :
       MayReplace(replica[r]["messages"], replica'[r]["messages"])

\* No replica goes back to an older message, or to one that has lost a
\* conflict, except by explicit resolution, which may.
NeverBack == [][Forward]_vars

\* Eventual consistency: once there are no more edits, all replicas come to
\* hold the same, as compareStamps compares it, and stay so.
Converges ==
  <>[](\A r, s \in Replicas, c \in Categories :
         /\ replica[r][c].version = replica[s][c].version
         /\ replica[r][c].data = replica[s][c].data)
=============================================================================
