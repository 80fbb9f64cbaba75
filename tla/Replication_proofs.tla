------------------------- MODULE Replication_proofs -------------------------
(***************************************************************************)
(* Proofs about replication, for every set of replicas and readers, every  *)
(* clock and every number of edits, calls and failures (Replication); of   *)
(* the sessions that synchronize replicas, for any number of operations,   *)
(* callers and restarts: a replica's record claims what its device has     *)
(* applied (Synchronization); of the scheduler, for all requests and       *)
(* budgets: what is allocated is what is reserved, and no younger request  *)
(* goes first (ResourceScheduler).                                         *)
(***************************************************************************)
EXTENDS Replication, TLAPS, FiniteSetTheorems, SequenceTheorems

CONSTANTS
  Callers, MaxOps, MaxOpRetries, Drains, MayFail, MayPause, MayEnd, MaxRestarts,
  MaxQueues,
  Communications, LaneCapacity, Executions, Bandwidth, MaxWait
VARIABLES
  session, queues, current, calls, advanced, applied, restarts,
  lanes, state, reserved, allocated

Sync == INSTANCE Synchronization
Schedule == INSTANCE ResourceScheduler WITH Requests <- Communications

-----------------------------------------------------------------------------
(* Replicas (Replication). *)

(***************************************************************************)
(* Laws of the records.                                                    *)
(***************************************************************************)

\* The merge of two records of a category is one, of no higher version.
LEMMA MergeTyped ==
  ASSUME NEW c \in Categories, NEW a \in Record(c), NEW b \in Record(c)
  PROVE  /\ mergeRecords(c, a, b) \in Record(c)
         /\ \A n \in Nat : (a.version <= n /\ b.version <= n)
              => mergeRecords(c, a, b).version <= n
<1>1. CASE c = "read-receipts"
  BY <1>1 DEF mergeRecords, Record, Content, Greater
<1>2. CASE c = "delivery"
  BY <1>2 DEF mergeRecords, Record, Content, Greater
<1>3. CASE c # "read-receipts" /\ c # "delivery"
  BY <1>3 DEF mergeRecords, Record, Content, Greater, Dominates
<1> QED
  BY <1>1, <1>2, <1>3

\* So is that of two messages.
LEMMA MessagesMerged ==
  ASSUME NEW a \in Record("messages"), NEW b \in Record("messages")
  PROVE  /\ mergeMessages(a, b) \in Record("messages")
         /\ \A n \in Nat : (a.version <= n /\ b.version <= n)
              => mergeMessages(a, b).version <= n
BY DEF mergeMessages, Newest, Record, Greater

\* A conflict is won by one of its records.
LEMMA WinnerIsOne ==
  ASSUME NEW a, NEW b
  PROVE  Winner(a, b) \in {a, b}
BY DEF Winner, Newest

\* It does not matter which replica is called the source.
LEMMA WinnerSymmetric ==
  ASSUME NEW a \in Record("messages"), NEW b \in Record("messages"),
         a.data # b.data
  PROVE  Winner(a, b) = Winner(b, a)
<1>1. a.data \in Nat /\ b.data \in Nat /\ a.at \in Nat /\ b.at \in Nat
  BY RecordsAssumption DEF Record, Content
<1> QED
  BY <1>1 DEF Winner, Newest

\* Both records of a conflict may give way to its winner.
LEMMA WinnerMayReplace ==
  ASSUME NEW a \in Record("messages"), NEW b \in Record("messages"),
         Concurrent(a, b)
  PROVE  MayReplace(a, Winner(a, b)) /\ MayReplace(b, Winner(a, b))
<1>1. a.data # b.data /\ a.version = b.version
  BY DEF Concurrent
<1>2. Winner(a, b) = Winner(b, a)
  BY <1>1, WinnerSymmetric
<1>3. CASE Winner(a, b) = a
  BY <1>1, <1>2, <1>3 DEF MayReplace
<1>4. CASE Winner(a, b) = b
  BY <1>1, <1>2, <1>4 DEF MayReplace
<1> QED
  BY <1>3, <1>4, WinnerIsOne

\* The merges of receipts and of delivery states are commutative, associative
\* and idempotent: replicas agree whoever merges and in whatever order.
THEOREM MergeLaws ==
  ASSUME NEW c \in Categories, c \in {"read-receipts", "delivery"},
         NEW x \in Record(c), NEW y \in Record(c), NEW z \in Record(c)
  PROVE  /\ mergeRecords(c, x, y) = mergeRecords(c, y, x)
         /\ mergeRecords(c, mergeRecords(c, x, y), z)
              = mergeRecords(c, x, mergeRecords(c, y, z))
         /\ mergeRecords(c, x, x) = x
<1>1. CASE c = "read-receipts"
  BY <1>1 DEF mergeRecords, Record, Content, Greater
<1>2. CASE c = "delivery"
  BY <1>2 DEF mergeRecords, Record, Content, Greater
<1> QED
  BY <1>1, <1>2

(***************************************************************************)
(* Type correctness.  No record anywhere has more versions than there were *)
(* edits, because merging makes none.                                      *)
(***************************************************************************)

Fits(m, n) == IsSnapshot(m) /\ \A c \in Categories : m[c].version <= n

LEMMA AbsentTyped ==
  ASSUME NEW c \in Categories
  PROVE  Absent(c) \in Record(c) /\ Absent(c).version = 0
BY DEF Absent, Record, Content

\* Two records of an entity give one of no higher version.
LEMMA EntityFits ==
  ASSUME NEW n \in Nat, NEW c \in Categories, NEW s \in Record(c),
         NEW t \in Record(c), s.version <= n, t.version <= n
  PROVE  mergeEntity(c, s, t) \in Record(c) /\ mergeEntity(c, s, t).version <= n
<1>1. CASE Mergeable(c)
  BY <1>1, MergeTyped DEF mergeEntity
<1>2. CASE ~ Mergeable(c)
  BY <1>2, WinnerIsOne DEF mergeEntity
<1> QED
  BY <1>1, <1>2

LEMMA MergeFits ==
  ASSUME NEW n \in Nat, NEW s, NEW t, NEW cats, Fits(s, n), Fits(t, n)
  PROVE  Fits(mergeReplicas(s, t, cats), n)
<1> DEFINE m == mergeReplicas(s, t, cats)
<1>1. \A c \in Categories : m[c] \in Record(c) /\ m[c].version <= n
  <2> SUFFICES ASSUME NEW c \in Categories
               PROVE  m[c] \in Record(c) /\ m[c].version <= n
    OBVIOUS
  <2>1. CASE c \in cats
    <3>1. mergeEntity(c, s[c], t[c]) \in Record(c)
          /\ mergeEntity(c, s[c], t[c]).version <= n
      BY EntityFits DEF Fits, IsSnapshot
    <3> QED
      BY <2>1, <3>1 DEF mergeReplicas
  <2>2. CASE c \notin cats
    BY <2>2, AbsentTyped DEF mergeReplicas
  <2> QED
    BY <2>1, <2>2
<1>2. m = [c \in Categories |-> m[c]]
  BY DEF mergeReplicas
<1> HIDE DEF m
<1>3. Fits(m, n)
  BY <1>1, <1>2 DEF Fits, IsSnapshot
<1> QED
  BY <1>3 DEF m

LEMMA DeltaFits ==
  ASSUME NEW n \in Nat, NEW s, NEW t, NEW items, Fits(s, n), Fits(t, n)
  PROVE  Fits(applyDelta(t, s, items), n)
<1> DEFINE m == applyDelta(t, s, items)
<1>1. \A c \in Categories : m[c] \in Record(c) /\ m[c].version <= n
  <2> SUFFICES ASSUME NEW c \in Categories
               PROVE  m[c] \in Record(c) /\ m[c].version <= n
    OBVIOUS
  <2>1. /\ s[c] \in Record(c) /\ s[c].version <= n
        /\ t[c] \in Record(c) /\ t[c].version <= n
    BY DEF Fits, IsSnapshot
  <2>2. mergeRecords(c, t[c], s[c]) \in Record(c)
        /\ mergeRecords(c, t[c], s[c]).version <= n
    BY <2>1, MergeTyped
  <2>3. applyRecord(t[c], s[c]) \in {s[c], t[c]}
    BY DEF applyRecord
  <2>4. m[c] \in {mergeRecords(c, t[c], s[c]), applyRecord(t[c], s[c]), t[c]}
    BY DEF applyDelta
  <2> HIDE DEF m
  <2> QED
    BY <2>1, <2>2, <2>3, <2>4
<1>2. m = [c \in Categories |-> m[c]]
  BY DEF applyDelta
<1> HIDE DEF m
<1>3. Fits(m, n)
  BY <1>1, <1>2 DEF Fits, IsSnapshot
<1> QED
  BY <1>3 DEF m

\* What a device's registration makes of its replica.
LEMMA UpdateFits ==
  ASSUME NEW n \in Nat, NEW s, NEW t, Fits(s, n), Fits(t, n)
  PROVE  Fits([c \in Categories |-> applyRecord(t[c], s[c])], n)
<1> DEFINE m == [c \in Categories |-> applyRecord(t[c], s[c])]
<1>1. \A c \in Categories : m[c] \in {s[c], t[c]}
  BY DEF applyRecord
<1>2. m = [c \in Categories |-> m[c]]
  OBVIOUS
<1> HIDE DEF m
<1>3. Fits(m, n)
  BY <1>1, <1>2 DEF Fits, IsSnapshot
<1> QED
  BY <1>3 DEF m

\* A snapshot with the record of one category replaced.
LEMMA ReplaceFits ==
  ASSUME NEW n \in Nat, NEW m, NEW c \in Categories, NEW v \in Record(c),
         Fits(m, n), v.version <= n
  PROVE  Fits([m EXCEPT ![c] = v], n)
<1>1. m = [d \in Categories |-> m[d]]
  BY DEF Fits, IsSnapshot
<1>2. \A d \in Categories :
        [m EXCEPT ![c] = v][d] = IF d = c THEN v ELSE m[d]
  BY <1>1
<1>3. [m EXCEPT ![c] = v] = [d \in Categories |-> [m EXCEPT ![c] = v][d]]
  BY <1>1
<1> HIDE DEF Fits
<1> QED
  BY <1>2, <1>3 DEF Fits, IsSnapshot

TypeInv ==
  /\ device = [r \in Replicas |-> device[r]]
  /\ replica = [r \in Replicas |-> replica[r]]
  /\ \A r \in Replicas : Fits(device[r], edits) /\ Fits(replica[r], edits)
  /\ \A q \in reading : IsRequest(q) /\ Fits(q.copy, edits)
  /\ \A w \in writing :
       IsOutcome(w) /\ Fits(w.forTarget, edits) /\ Fits(w.forSource, edits)
  /\ reads \in [Replicas -> SUBSET Readers]
  /\ edits \in 0..MaxEdits
  /\ resolves \in 0..MaxIncidents /\ failures \in 0..MaxIncidents

LEMMA TypeInvImplies ==
  ASSUME TypeInv
  PROVE  TypeOK
<1>1. edits \in Nat /\ edits <= MaxEdits /\ MaxEdits \in Nat
  BY ReplicationAssumption DEF TypeInv
<1>2. ASSUME NEW m, Fits(m, edits)
      PROVE  IsSnapshot(m) /\ Bounded(m)
  <2>1. \A c \in Categories : m[c].version \in Nat /\ m[c].version <= edits
    BY <1>2 DEF Fits, IsSnapshot, Record
  <2> QED
    BY <1>1, <1>2, <2>1 DEF Fits, Bounded
<1> QED
  BY <1>2 DEF TypeInv, TypeOK

LEMMA TypeInit ==
  ASSUME Init
  PROVE  TypeInv
<1> DEFINE empty == [c \in Categories |-> Absent(c)]
<1>1. Fits(empty, 0)
  BY AbsentTyped DEF Fits, IsSnapshot
<1> HIDE DEF empty
<1>2. device = [r \in Replicas |-> empty]
  BY DEF Init, empty
<1> QED
  BY <1>1, <1>2, ReplicationAssumption DEF Init, TypeInv

\* A call that has decided writes what it worked out.
LEMMA DecideTyped ==
  ASSUME TypeInv, NEW q \in reading, NEW f, NEW g, NEW both \in BOOLEAN,
         Fits(f, edits), Fits(g, edits), Decide(q, f, g, both),
         reads' \in [Replicas -> SUBSET Readers]
  PROVE  TypeInv'
<1> DEFINE w == [s |-> q.s, t |-> q.t, forTarget |-> f, forSource |-> g,
                 both |-> both]
<1>1. IsOutcome(w) /\ Fits(w.forTarget, edits) /\ Fits(w.forSource, edits)
  BY DEF TypeInv, IsRequest, IsOutcome, Fits
<1> HIDE DEF w
<1>2. writing' = writing \cup {w} /\ reading' \subseteq reading
  BY DEF Decide, w
<1> QED
  BY <1>1, <1>2 DEF TypeInv, Decide, bounds

LEMMA CallTyped ==
  ASSUME TypeInv, NEW op \in {"synchronize", "delta", "resume", "resolve"},
         NEW s \in Sources, NEW t \in Replicas, NEW cats \in SUBSET Categories,
         NEW n \in Nat, Call(op, s, t, cats, n), resolves' \in 0..MaxIncidents
  PROVE  TypeInv'
<1> DEFINE q == [op |-> op, s |-> s, t |-> t, cats |-> cats, n |-> n,
                 copy |-> replica[s]]
<1>1. s \in Replicas
  BY ReplicationAssumption
<1>2. IsRequest(q) /\ Fits(q.copy, edits)
  BY <1>1 DEF TypeInv, IsRequest, Fits
<1> HIDE DEF q
<1>3. reading' = reading \cup {q}
  BY DEF Call, q
<1> QED
  BY <1>2, <1>3 DEF TypeInv, Call

LEMMA EditTyped ==
  ASSUME TypeInv, NEW r \in Replicas, NEW c \in Categories, Edit(r, c)
  PROVE  TypeInv'
<1>1. PICK d \in Edited(r, c), now \in Times :
        device' = [device EXCEPT ![r][c] =
          [version |-> @.version + 1, data |-> d,
           at |-> IF c = "messages" THEN now ELSE 0]]
  BY DEF Edit
<1> DEFINE v == [version |-> device[r][c].version + 1, data |-> d,
                 at |-> IF c = "messages" THEN now ELSE 0]
<1>2. edits \in Nat /\ edits' = edits + 1 /\ edits' \in 0..MaxEdits
  BY ReplicationAssumption DEF Edit, TypeInv
<1>3. device[r][c] \in Record(c) /\ device[r][c].version <= edits
  BY DEF TypeInv, Fits, IsSnapshot
<1>4. d \in Content(c)
  BY <1>3 DEF Edited, Content, Record
<1>5. v \in Record(c) /\ v.version <= edits'
  BY <1>2, <1>3, <1>4, ReplicationAssumption DEF Record
<1>6. ASSUME NEW m, Fits(m, edits)
      PROVE  Fits(m, edits')
  <2>1. \A k \in Categories : m[k].version \in Nat /\ m[k].version <= edits
    BY <1>6 DEF Fits, IsSnapshot, Record
  <2> QED
    BY <1>2, <1>6, <2>1 DEF Fits
<1>7. Fits([device[r] EXCEPT ![c] = v], edits')
  <2>1. Fits(device[r], edits') /\ edits' \in Nat
    BY <1>2, <1>6 DEF TypeInv
  <2> HIDE DEF v
  <2> QED
    BY <1>5, <2>1, ReplaceFits
<1>8. device' = [device EXCEPT ![r] = [device[r] EXCEPT ![c] = v]]
  BY <1>1 DEF TypeInv
<1> HIDE DEF v
<1>9. /\ device' = [k \in Replicas |-> device'[k]]
      /\ \A k \in Replicas : Fits(device'[k], edits')
  BY <1>6, <1>7, <1>8 DEF TypeInv
<1> QED
  BY <1>2, <1>6, <1>9 DEF TypeInv, Edit

LEMMA RegisterTyped ==
  ASSUME TypeInv, NEW r \in Replicas, Register(r)
  PROVE  TypeInv'
<1> DEFINE u == [c \in Categories |-> applyRecord(replica[r][c], device[r][c])]
           w == [s |-> r, t |-> r, forTarget |-> u, forSource |-> u,
                 both |-> FALSE]
<1>1. Fits(u, edits)
  <2>1. Fits(device[r], edits) /\ Fits(replica[r], edits) /\ edits \in Nat
    BY DEF TypeInv
  <2> QED
    BY <2>1, UpdateFits
<1>2. writing' = writing \cup {w}
  BY DEF Register
<1> HIDE DEF u
<1>3. IsOutcome(w) /\ Fits(w.forTarget, edits) /\ Fits(w.forSource, edits)
  BY <1>1 DEF IsOutcome, Fits
<1> HIDE DEF w
<1> QED
  BY <1>2, <1>3 DEF TypeInv, Register, bounds

\* What an explicit resolution makes of the two records.
LEMMA ResolvesTo ==
  ASSUME NEW q, NEW n \in Nat, q.cats \subseteq Categories, Fits(q.copy, n),
         Fits(replica[q.t], n), Resolve(q)
  PROVE  \E c \in q.cats : \E v \in Record(c) :
           /\ v.version <= n /\ DecideFor(q, c, v)
           /\ \/ reads' = reads /\ (c = "read-receipts" =>
                   v.data = q.copy[c].data \cup replica[q.t][c].data)
              \/ KeepReaders(q, c, v)
<1> DEFINE m(c) == IF Mergeable(c) THEN mergeRecords(c, q.copy[c], replica[q.t][c])
                   ELSE mergeMessages(q.copy[c], replica[q.t][c])
<1>1. PICK c \in q.cats :
        \/ DecideFor(q, c, m(c)) /\ UNCHANGED reads
        \/ \E v \in {q.copy[c], replica[q.t][c]} :
             DecideFor(q, c, v) /\ KeepReaders(q, c, v)
  BY DEF Resolve
<1>2. /\ q.copy[c] \in Record(c) /\ q.copy[c].version <= n
      /\ replica[q.t][c] \in Record(c) /\ replica[q.t][c].version <= n
  BY DEF Fits, IsSnapshot
<1>3. CASE DecideFor(q, c, m(c)) /\ UNCHANGED reads
  <2>1. m(c) \in Record(c) /\ m(c).version <= n
    BY <1>2, MergeTyped, MessagesMerged DEF Mergeable
  <2>2. c = "read-receipts" =>
          m(c).data = q.copy[c].data \cup replica[q.t][c].data
    BY DEF Mergeable, mergeRecords
  <2> HIDE DEF m
  <2> QED
    BY <1>3, <2>1, <2>2
<1>4. CASE \E v \in {q.copy[c], replica[q.t][c]} :
             DecideFor(q, c, v) /\ KeepReaders(q, c, v)
  BY <1>2, <1>4
<1> QED
  BY <1>1, <1>3, <1>4

LEMMA WorkTyped ==
  ASSUME TypeInv, NEW q \in reading, Work(q)
  PROVE  TypeInv'
<1>1. /\ edits \in Nat /\ q.cats \subseteq Categories
      /\ Fits(q.copy, edits) /\ Fits(replica[q.t], edits)
      /\ reads \in [Replicas -> SUBSET Readers]
  BY ReplicationAssumption DEF TypeInv, IsRequest
<1>2. CASE Synchronize(q)
  <2> DEFINE m == mergeReplicas(q.copy, replica[q.t], q.cats)
  <2>1. Fits(m, edits) /\ Decide(q, m, m, TRUE)
    BY <1>1, <1>2, MergeFits DEF Synchronize
  <2>2. UNCHANGED reads
    BY <1>2 DEF Synchronize
  <2> HIDE DEF m
  <2> QED
    BY <1>1, <2>1, <2>2, DecideTyped
<1>3. CASE ReplicateDelta(q)
  <2> DEFINE m == applyDelta(replica[q.t], q.copy,
                    FirstItems(Missing(q.copy, replica[q.t], q.cats), q.n))
  <2>1. Fits(m, edits) /\ Decide(q, m, m, FALSE)
    BY <1>1, <1>3, DeltaFits DEF ReplicateDelta
  <2>2. UNCHANGED reads
    BY <1>3 DEF ReplicateDelta
  <2> HIDE DEF m
  <2> QED
    BY <1>1, <2>1, <2>2, DecideTyped
<1>4. CASE Resume(q)
  <2> DEFINE m == applyDelta(replica[q.t], q.copy,
                    AfterCursor(Missing(q.copy, replica[q.t], q.cats), q.n))
  <2>1. Fits(m, edits) /\ Decide(q, m, m, FALSE)
    BY <1>1, <1>4, DeltaFits DEF Resume
  <2>2. UNCHANGED reads
    BY <1>4 DEF Resume
  <2> HIDE DEF m
  <2> QED
    BY <1>1, <2>1, <2>2, DecideTyped
<1>5. CASE Resolve(q)
  <2>0. PICK c \in q.cats : \E v \in Record(c) :
          /\ v.version <= edits /\ DecideFor(q, c, v)
          /\ reads' = reads \/ KeepReaders(q, c, v)
    <3>1. \E c \in q.cats : \E v \in Record(c) :
            /\ v.version <= edits /\ DecideFor(q, c, v)
            /\ \/ reads' = reads /\ (c = "read-receipts" =>
                    v.data = q.copy[c].data \cup replica[q.t][c].data)
               \/ KeepReaders(q, c, v)
      BY <1>1, <1>5, ResolvesTo
    <3> QED
      BY <3>1
  <2>1. PICK v \in Record(c) :
          /\ v.version <= edits /\ DecideFor(q, c, v)
          /\ reads' = reads \/ KeepReaders(q, c, v)
    BY <2>0
  <2>2. c \in Categories
    BY <1>1
  <2>3. Fits([replica[q.t] EXCEPT ![c] = v], edits)
        /\ Fits([q.copy EXCEPT ![c] = v], edits)
    BY <1>1, <2>1, <2>2, ReplaceFits
  <2>4. reads' \in [Replicas -> SUBSET Readers]
    BY <1>1, <2>1 DEF KeepReaders
  <2> QED
    BY <2>1, <2>3, <2>4, DecideTyped DEF DecideFor
<1>6. CASE ResolveRefused(q)
  BY <1>6 DEF ResolveRefused, TypeInv, bounds
<1> QED
  BY <1>2, <1>3, <1>4, <1>5, <1>6 DEF Work

LEMMA StoreTyped ==
  ASSUME TypeInv, NEW w \in writing, Store(w)
  PROVE  TypeInv'
<1>1. /\ IsOutcome(w) /\ Fits(w.forTarget, edits) /\ Fits(w.forSource, edits)
      /\ w.t \in Replicas /\ w.s \in Replicas
  BY DEF TypeInv, IsOutcome
<1>2. replica' = [replica EXCEPT ![w.t] = w.forTarget]
      /\ UNCHANGED <<device, reading, edits, resolves, failures>>
  BY DEF Store, StoreTarget, StoreOwn, bounds
<1>3. /\ replica' = [r \in Replicas |-> replica'[r]]
      /\ \A r \in Replicas : Fits(replica'[r], edits)
  BY <1>1, <1>2 DEF TypeInv
<1>4. \A u \in writing' :
        IsOutcome(u) /\ Fits(u.forTarget, edits) /\ Fits(u.forSource, edits)
  <2>1. IsOutcome(ForSource(w)) /\ Fits(ForSource(w).forTarget, edits)
        /\ Fits(ForSource(w).forSource, edits)
    BY <1>1 DEF IsOutcome, ForSource
  <2>2. writing' \subseteq writing \cup {ForSource(w)}
    BY DEF Store, StoreTarget, StoreOwn
  <2> QED
    BY <2>1, <2>2 DEF TypeInv
<1>5. reads' \in [Replicas -> SUBSET Readers]
  <2>1. CASE StoreTarget(w)
    BY <2>1 DEF StoreTarget, TypeInv
  <2>2. CASE StoreOwn(w)
    <3>1. CASE "read-receipts" \in Categories
      <4>1. device[w.t]["read-receipts"].data \subseteq Readers
        BY <1>1, <3>1 DEF TypeInv, Fits, IsSnapshot, Record, Content
      <4> QED
        BY <1>1, <2>2, <3>1, <4>1 DEF StoreOwn, TypeInv
    <3>2. CASE "read-receipts" \notin Categories
      BY <2>2, <3>2 DEF StoreOwn, TypeInv
    <3> QED
      BY <3>1, <3>2
  <2> QED
    BY <2>1, <2>2 DEF Store
<1> QED
  BY <1>2, <1>3, <1>4, <1>5 DEF TypeInv

LEMMA FailTyped ==
  ASSUME TypeInv, (\E q \in reading : FailReading(q))
                  \/ (\E w \in writing : FailWriting(w))
  PROVE  TypeInv'
<1>1. /\ UNCHANGED <<device, replica, reads, edits, resolves>>
      /\ reading' \subseteq reading /\ writing' \subseteq writing
  BY DEF FailReading, FailWriting
<1>2. failures' \in 0..MaxIncidents
  BY ReplicationAssumption DEF FailReading, FailWriting, TypeInv
<1> QED
  BY <1>1, <1>2 DEF TypeInv

LEMMA TypeStep ==
  ASSUME TypeInv, [Next]_vars
  PROVE  TypeInv'
<1>1. ASSUME NEW r \in Replicas, Register(r) PROVE TypeInv'
  BY <1>1, RegisterTyped
<1>2. ASSUME NEW r \in Replicas, NEW c \in Categories, Edit(r, c) PROVE TypeInv'
  BY <1>2, EditTyped
<1>3. ASSUME NEW s \in Sources, NEW t \in Replicas, NEW cats \in CategoryChoices,
             CallSynchronize(s, t, cats)
      PROVE  TypeInv'
  <2>1. cats \in SUBSET Categories /\ 0 \in Nat /\ resolves' \in 0..MaxIncidents
    BY <1>3, ReplicationAssumption DEF CallSynchronize, TypeInv
  <2> QED
    BY <1>3, <2>1, CallTyped DEF CallSynchronize
<1>4. ASSUME NEW s \in Sources, NEW t \in Replicas, NEW cats \in CategoryChoices,
             NEW n \in Counts, CallDelta(s, t, cats, n) \/ CallResume(s, t, cats, n)
      PROVE  TypeInv'
  <2>1. cats \in SUBSET Categories /\ n \in Nat /\ resolves' \in 0..MaxIncidents
    BY <1>4, ReplicationAssumption DEF CallDelta, CallResume, TypeInv
  <2> QED
    BY <1>4, <2>1, CallTyped DEF CallDelta, CallResume
<1>5. ASSUME NEW s \in Sources, NEW t \in Replicas, NEW c \in Categories,
             CallResolve(s, t, c)
      PROVE  TypeInv'
  <2>1. {c} \in SUBSET Categories /\ 0 \in Nat
    OBVIOUS
  <2>2. resolves' \in 0..MaxIncidents
    BY <1>5, ReplicationAssumption DEF CallResolve, TypeInv
  <2> QED
    BY <1>5, <2>1, <2>2, CallTyped DEF CallResolve
<1>6. ASSUME NEW q \in reading, Work(q) PROVE TypeInv'
  BY <1>6, WorkTyped
<1>7. ASSUME NEW w \in writing, Store(w) PROVE TypeInv'
  BY <1>7, StoreTyped
<1>8. CASE (\E q \in reading : FailReading(q)) \/ (\E w \in writing : FailWriting(w))
  BY <1>8, FailTyped
<1>9. CASE UNCHANGED vars
  BY <1>9 DEF TypeInv, vars
<1> QED
  BY <1>1, <1>2, <1>3, <1>4, <1>5, <1>6, <1>7, <1>8, <1>9 DEF Next

\* Every replica stays a well-formed snapshot and no record gets a version
\* that was not given to it by an edit.
THEOREM TypeCorrect == Spec => []TypeOK
<1>1. Init => TypeInv
  BY TypeInit
<1>2. TypeInv /\ [Next]_vars => TypeInv'
  BY TypeStep
<1>3. TypeInv => TypeOK
  BY TypeInvImplies
<1> QED
  BY <1>1, <1>2, <1>3, PTL DEF Spec

(***************************************************************************)
(* Calls one after the other: the copy a call works on is what its source  *)
(* still holds.                                                            *)
(***************************************************************************)

Alone ==
  \/ reading = {} /\ writing = {}
  \/ writing = {} /\ \E q : reading = {q}
  \/ reading = {} /\ \E w : writing = {w}

SerialInv ==
  /\ Alone
  /\ \A q \in reading :
       /\ q.s # q.t
       /\ q.copy = replica[q.s]
       /\ q.op = "synchronize" => q.cats = Categories
       /\ q.op = "resolve" => resolves > 0
  /\ \A w \in writing : w.both => w.s # w.t

LEMMA MayCallIdle ==
  ASSUME Serial, Alone, MayCall
  PROVE  reading = {} /\ writing = {}
<1>1. Cardinality({}) = 0
  BY FS_EmptySet
<1>2. \A x : Cardinality({x}) = 1
  BY FS_Singleton
<1>3. MaxCalls \in Nat
  BY ReplicationAssumption
<1>4. ASSUME NEW x, reading = {x}, writing = {}
      PROVE  FALSE
  <2>1. Cardinality(reading) = 1 /\ Cardinality(writing) = 0
    BY <1>1, <1>2, <1>4
  <2> QED
    BY <1>3, <2>1 DEF Serial, MayCall
<1>5. ASSUME NEW x, writing = {x}, reading = {}
      PROVE  FALSE
  <2>1. Cardinality(writing) = 1 /\ Cardinality(reading) = 0
    BY <1>1, <1>2, <1>5
  <2> QED
    BY <1>3, <2>1 DEF Serial, MayCall
<1> QED
  BY <1>4, <1>5 DEF Alone

LEMMA OnlyReading ==
  ASSUME Alone, NEW q \in reading
  PROVE  reading = {q} /\ writing = {}
BY DEF Alone

LEMMA OnlyWriting ==
  ASSUME Alone, NEW w \in writing
  PROVE  writing = {w} /\ reading = {}
BY DEF Alone

LEMMA SerialStep ==
  ASSUME Serial, Unlimited, TypeInv, SerialInv, [Next]_vars
  PROVE  SerialInv'
<1> resolves \in Nat
  BY ReplicationAssumption DEF TypeInv
<1>a. ASSUME NEW x, reading' = {x}, writing' = {}
      PROVE  Alone'
  BY <1>a DEF Alone
<1>b. ASSUME NEW x, writing' = {x}, reading' = {}
      PROVE  Alone'
  BY <1>b DEF Alone
<1>1. ASSUME NEW r \in Replicas, Register(r) PROVE SerialInv'
  <2>1. reading = {} /\ writing = {}
    BY <1>1, MayCallIdle DEF Register, SerialInv
  <2> DEFINE u == [c \in Categories |-> applyRecord(replica[r][c], device[r][c])]
             w == [s |-> r, t |-> r, forTarget |-> u, forSource |-> u,
                   both |-> FALSE]
  <2>2. writing' = {w} /\ reading' = {}
    BY <1>1, <2>1 DEF Register
  <2>3. w.both = FALSE
    OBVIOUS
  <2> HIDE DEF w
  <2> QED
    BY <1>b, <2>2, <2>3 DEF SerialInv
<1>2. ASSUME NEW r \in Replicas, NEW c \in Categories, Edit(r, c) PROVE SerialInv'
  BY <1>2 DEF Edit, SerialInv, Alone
<1>3. ASSUME NEW op, NEW s, NEW t, NEW cats, NEW n, Call(op, s, t, cats, n),
             op = "synchronize" => cats = Categories,
             op = "resolve" => resolves' > 0
      PROVE  SerialInv'
  <2>1. reading = {} /\ writing = {}
    BY <1>3, MayCallIdle DEF Call, SerialInv
  <2> DEFINE q == [op |-> op, s |-> s, t |-> t, cats |-> cats, n |-> n,
                   copy |-> replica[s]]
  <2>2. reading' = {q} /\ writing' = {} /\ replica' = replica
    BY <1>3, <2>1 DEF Call
  <2>3. /\ q.s # q.t /\ q.copy = replica[q.s]
        /\ q.op = "synchronize" => q.cats = Categories
        /\ q.op = "resolve" => resolves' > 0
    BY <1>3 DEF Call
  <2> HIDE DEF q
  <2> QED
    BY <1>a, <2>2, <2>3 DEF SerialInv
<1>4. ASSUME NEW s \in Sources, NEW t \in Replicas, NEW cats \in CategoryChoices,
             CallSynchronize(s, t, cats)
      PROVE  SerialInv'
  <2>1. cats = Categories
    BY DEF Unlimited
  <2> QED
    BY <1>3, <1>4, <2>1 DEF CallSynchronize
<1>5. ASSUME NEW s \in Sources, NEW t \in Replicas, NEW cats \in CategoryChoices,
             NEW n \in Counts, CallDelta(s, t, cats, n) \/ CallResume(s, t, cats, n)
      PROVE  SerialInv'
  BY <1>3, <1>5 DEF CallDelta, CallResume
<1>6. ASSUME NEW s \in Sources, NEW t \in Replicas, NEW c \in Categories,
             CallResolve(s, t, c)
      PROVE  SerialInv'
  BY <1>3, <1>6 DEF CallResolve
<1>7. ASSUME NEW q \in reading, Work(q) PROVE SerialInv'
  <2>1. reading = {q} /\ writing = {}
    BY OnlyReading DEF SerialInv
  <2>2. ASSUME NEW f, NEW g, NEW both \in BOOLEAN, Decide(q, f, g, both)
        PROVE  SerialInv'
    <3>1. reading' = {} /\ writing' = {[s |-> q.s, t |-> q.t, forTarget |-> f,
                                        forSource |-> g, both |-> both]}
      BY <2>1, <2>2 DEF Decide
    <3> QED
      BY <3>1 DEF SerialInv, Alone
  <2>3. CASE ResolveRefused(q)
    BY <2>1, <2>3 DEF ResolveRefused, SerialInv, Alone
  <2> QED
    BY <1>7, <2>2, <2>3
       DEF Work, Synchronize, ReplicateDelta, Resume, Resolve, DecideFor
<1>8. ASSUME NEW w \in writing, Store(w) PROVE SerialInv'
  <2>1. writing = {w} /\ reading = {}
    BY OnlyWriting DEF SerialInv
  <2>2. reading' = {} /\ (writing' = {} \/ writing' = {ForSource(w)})
    BY <1>8, <2>1 DEF Store, StoreTarget, StoreOwn
  <2>3. ForSource(w).both = FALSE
    BY DEF ForSource
  <2>4. Alone'
    BY <1>b, <2>2 DEF Alone
  <2> QED
    BY <2>2, <2>3, <2>4 DEF SerialInv
<1>9. ASSUME NEW q \in reading, FailReading(q) PROVE SerialInv'
  BY <1>9, OnlyReading DEF FailReading, SerialInv, Alone
<1>10. ASSUME NEW w \in writing, FailWriting(w) PROVE SerialInv'
  BY <1>10, OnlyWriting DEF FailWriting, SerialInv, Alone
<1>11. CASE UNCHANGED vars
  BY <1>11 DEF SerialInv, Alone, vars
<1> QED
  BY <1>1, <1>2, <1>4, <1>5, <1>6, <1>7, <1>8, <1>9, <1>10, <1>11 DEF Next

LEMMA SerialInit ==
  ASSUME Init
  PROVE  SerialInv
BY DEF Init, SerialInv, Alone

(***************************************************************************)
(* Read receipts.                                                          *)
(***************************************************************************)

Receipts(m) == m["read-receipts"].data

\* What a call is going to write has the readers it must keep.
ReadsInv ==
  /\ \A r \in Replicas : /\ reads[r] \subseteq Receipts(device[r])
                         /\ reads[r] \subseteq Receipts(replica[r])
  /\ \A w \in writing : /\ reads[w.t] \subseteq Receipts(w.forTarget)
                        /\ w.both => reads[w.s] \subseteq Receipts(w.forSource)

LEMMA ReceiptsUnited ==
  ASSUME NEW a, NEW b
  PROVE  mergeRecords("read-receipts", a, b).data = a.data \cup b.data
BY DEF mergeRecords

LEMMA ReadsStep ==
  ASSUME "read-receipts" \in Categories, Serial, Unlimited,
         TypeInv, SerialInv, ReadsInv, [Next]_vars
  PROVE  ReadsInv'
<1> DEFINE rr == "read-receipts"
<1>1. ASSUME NEW r \in Replicas, Register(r) PROVE ReadsInv'
  <2> DEFINE u == [c \in Categories |-> applyRecord(replica[r][c], device[r][c])]
             w == [s |-> r, t |-> r, forTarget |-> u, forSource |-> u,
                   both |-> FALSE]
  <2>1. reads[r] \subseteq Receipts(u)
    BY DEF ReadsInv, Receipts, applyRecord
  <2>2. writing' = writing \cup {w}
        /\ UNCHANGED <<device, replica, reading, reads, bounds>>
    BY <1>1 DEF Register
  <2> HIDE DEF u
  <2>3. w.t = r /\ w.forTarget = u /\ w.both = FALSE
    OBVIOUS
  <2> HIDE DEF w
  <2> QED
    BY <2>1, <2>2, <2>3 DEF ReadsInv
<1>2. ASSUME NEW r \in Replicas, NEW c \in Categories, Edit(r, c) PROVE ReadsInv'
  <2>0. PICK d \in Edited(r, c), now \in Times :
          device' = [device EXCEPT ![r][c] =
            [version |-> @.version + 1, data |-> d,
             at |-> IF c = "messages" THEN now ELSE 0]]
    BY <1>2 DEF Edit
  <2> DEFINE v == [version |-> device[r][c].version + 1, data |-> d,
                   at |-> IF c = "messages" THEN now ELSE 0]
  <2>1. /\ device' = [device EXCEPT ![r][c] = v]
        /\ c = rr => device[r][rr].data \subseteq v.data
    BY <2>0 DEF Edited
  <2> HIDE DEF v
  <2>2. \A k \in Replicas : Receipts(device[k]) \subseteq Receipts(device'[k])
    <3>1. device = [k \in Replicas |-> device[k]]
          /\ device[r] = [k \in Categories |-> device[r][k]]
      BY DEF TypeInv, Fits, IsSnapshot
    <3> QED
      BY <2>1, <3>1 DEF Receipts
  <2>3. UNCHANGED <<replica, writing, reads>>
    BY <1>2 DEF Edit
  <2> QED
    BY <2>2, <2>3 DEF ReadsInv
<1>3. ASSUME NEW op, NEW s, NEW t, NEW cats, NEW n, Call(op, s, t, cats, n)
      PROVE  ReadsInv'
  BY <1>3 DEF Call, ReadsInv
<1>4. ASSUME NEW q \in reading, Work(q) PROVE ReadsInv'
  <2> DEFINE S == q.copy
             T == replica[q.t]
  <2>1. /\ q.s \in Replicas /\ q.t \in Replicas /\ q.cats \subseteq Categories
        /\ reads[q.s] \subseteq Receipts(S) /\ reads[q.t] \subseteq Receipts(T)
    BY DEF TypeInv, IsRequest, SerialInv, ReadsInv
  <2>2. ASSUME NEW f, NEW g, NEW both \in BOOLEAN, Decide(q, f, g, both),
               \A r \in Replicas : reads'[r] \subseteq reads[r],
               reads'[q.t] \subseteq Receipts(f),
               both => reads'[q.s] \subseteq Receipts(g)
        PROVE  ReadsInv'
    <3> DEFINE w == [s |-> q.s, t |-> q.t, forTarget |-> f, forSource |-> g,
                     both |-> both]
    <3>1. /\ writing' = writing \cup {w}
          /\ UNCHANGED <<device, replica>>
      BY <2>2 DEF Decide
    <3>0. \A u \in writing : u.t \in Replicas /\ u.s \in Replicas
      BY DEF TypeInv, IsOutcome
    <3>2. /\ w.t = q.t /\ w.s = q.s /\ w.forTarget = f /\ w.forSource = g
          /\ w.both = both
      OBVIOUS
    <3> HIDE DEF w
    <3> QED
      BY <2>1, <2>2, <3>0, <3>1, <3>2 DEF ReadsInv
  <2>3. CASE Synchronize(q)
    <3> DEFINE m == mergeReplicas(S, T, q.cats)
    <3>1. q.cats = Categories
      BY <2>3 DEF Synchronize, SerialInv
    <3>2. m[rr] = mergeRecords(rr, S[rr], T[rr])
      BY <3>1 DEF mergeReplicas, mergeEntity, Mergeable
    <3>3. Receipts(S) \subseteq Receipts(m) /\ Receipts(T) \subseteq Receipts(m)
      BY <3>2, ReceiptsUnited DEF Receipts
    <3>4. Decide(q, m, m, TRUE) /\ UNCHANGED reads
      BY <2>3 DEF Synchronize
    <3> HIDE DEF m
    <3> QED
      BY <2>1, <2>2, <3>3, <3>4
  <2>4. ASSUME NEW items, Decide(q, applyDelta(T, S, items),
                                 applyDelta(T, S, items), FALSE),
               UNCHANGED reads
        PROVE  ReadsInv'
    <3> DEFINE m == applyDelta(T, S, items)
    <3>1. m[rr] \in {T[rr], mergeRecords(rr, T[rr], S[rr])}
      BY DEF applyDelta, Mergeable
    <3>2. Receipts(T) \subseteq Receipts(m)
      BY <3>1, ReceiptsUnited DEF Receipts
    <3>3. Decide(q, m, m, FALSE)
      BY <2>4
    <3> HIDE DEF m
    <3> QED
      BY <2>1, <2>2, <2>4, <3>2, <3>3
  <2>5. CASE Resolve(q)
    <3>0. PICK c \in q.cats : \E v \in Record(c) :
            /\ v.version <= edits /\ DecideFor(q, c, v)
            /\ \/ reads' = reads /\ (c = rr => v.data = S[c].data \cup T[c].data)
               \/ KeepReaders(q, c, v)
      <4>1. edits \in Nat /\ Fits(S, edits) /\ Fits(T, edits)
        BY <2>1, ReplicationAssumption DEF TypeInv
      <4> QED
        BY <2>1, <2>5, <4>1, ResolvesTo
    <3>1. PICK v \in Record(c) :
            /\ v.version <= edits /\ DecideFor(q, c, v)
            /\ \/ reads' = reads /\ (c = rr => v.data = S[c].data \cup T[c].data)
               \/ KeepReaders(q, c, v)
      BY <3>0
    <3>2. S = [k \in Categories |-> S[k]] /\ T = [k \in Categories |-> T[k]]
      BY <2>1 DEF TypeInv, Fits, IsSnapshot
    <3>3. Decide(q, [T EXCEPT ![c] = v], [S EXCEPT ![c] = v], TRUE)
      BY <3>1 DEF DecideFor
    <3>4. \A r \in Replicas : reads'[r] \subseteq reads[r]
      BY <3>1 DEF KeepReaders
    <3>5. c = rr => reads'[q.t] \subseteq v.data /\ reads'[q.s] \subseteq v.data
      BY <2>1, <3>1 DEF KeepReaders, Receipts
    <3> HIDE DEF S, T
    <3>6. /\ reads'[q.t] \subseteq Receipts([T EXCEPT ![c] = v])
          /\ reads'[q.s] \subseteq Receipts([S EXCEPT ![c] = v])
      BY <2>1, <3>2, <3>4, <3>5 DEF Receipts
    <3> QED
      BY <2>2, <3>3, <3>4, <3>6
  <2>6. CASE ResolveRefused(q)
    BY <2>6 DEF ResolveRefused, ReadsInv
  <2> QED
    BY <1>4, <2>3, <2>4, <2>5, <2>6 DEF Work, ReplicateDelta, Resume
<1>5. ASSUME NEW w \in writing, StoreTarget(w) PROVE ReadsInv'
  <2>1. writing' = {} \/ (w.both /\ writing' = {ForSource(w)})
    BY <1>5, OnlyWriting DEF StoreTarget, SerialInv
  <2>2. \A r \in Replicas : reads[r] \subseteq Receipts(replica'[r])
    BY <1>5 DEF StoreTarget, ReadsInv, TypeInv
  <2>3. UNCHANGED <<device, reads>>
    BY <1>5 DEF StoreTarget
  <2> QED
    BY <2>1, <2>2, <2>3 DEF ReadsInv, ForSource
<1>6. ASSUME NEW w \in writing, StoreOwn(w) PROVE ReadsInv'
  <2>1. writing' = {}
    BY <1>6, OnlyWriting DEF StoreOwn, SerialInv
  <2>2. /\ w.t \in Replicas /\ UNCHANGED device
        /\ replica' = [replica EXCEPT ![w.t] = w.forTarget]
        /\ reads' = [reads EXCEPT ![w.t] = @ \cup
                       (Receipts(device[w.t]) \cap Receipts(w.forTarget))]
    BY <1>6 DEF StoreOwn, TypeInv, IsOutcome, Receipts
  <2>3. \A r \in Replicas : /\ reads'[r] \subseteq Receipts(device[r])
                            /\ reads'[r] \subseteq Receipts(replica'[r])
    <3> TAKE r \in Replicas
    <3>1. CASE r = w.t
      BY <2>2, <3>1 DEF ReadsInv, TypeInv
    <3>2. CASE r # w.t
      BY <2>2, <3>2 DEF ReadsInv, TypeInv
    <3> QED
      BY <3>1, <3>2
  <2> QED
    BY <2>1, <2>2, <2>3 DEF ReadsInv
<1>7. CASE (\E q \in reading : FailReading(q)) \/ (\E w \in writing : FailWriting(w))
  BY <1>7 DEF FailReading, FailWriting, ReadsInv
<1>8. CASE UNCHANGED vars
  BY <1>8 DEF ReadsInv, vars
<1> QED
  BY <1>1, <1>2, <1>3, <1>4, <1>5, <1>6, <1>7, <1>8
     DEF Next, CallSynchronize, CallDelta, CallResume, CallResolve, Store

\* As long as calls do not overlap and none is limited to some categories, a
\* read receipt that a device has put into its replica is never lost, but to
\* an explicit resolution whose caller asks for one of two records.
THEOREM ReceiptsAreKept ==
  ASSUME Serial, Unlimited
  PROVE  Spec => []ReadsKept
<1>1. CASE "read-receipts" \notin Categories
  <2>1. ReadsKept
    BY <1>1 DEF ReadsKept
  <2> QED
    BY <2>1, PTL
<1>2. CASE "read-receipts" \in Categories
  <2> DEFINE IInv == TypeInv /\ SerialInv /\ ReadsInv
  <2>1. Init => IInv
    <3> SUFFICES ASSUME Init PROVE IInv
      OBVIOUS
    <3>1. ReadsInv
      BY DEF Init, ReadsInv
    <3> QED
      BY <3>1, TypeInit, SerialInit
  <2>2. IInv /\ [Next]_vars => IInv'
    BY <1>2, TypeStep, SerialStep, ReadsStep
  <2>3. IInv => ReadsKept
    BY DEF ReadsInv, ReadsKept, Receipts
  <2> QED
    BY <2>1, <2>2, <2>3, PTL DEF Spec
<1> QED
  BY <1>1, <1>2

(***************************************************************************)
(* Messages.                                                               *)
(***************************************************************************)

\* What a call is going to write may take the place of what is there.
MessagesInv ==
  \A w \in writing : resolves = 0 =>
    /\ MayReplace(replica[w.t]["messages"], w.forTarget["messages"])
    /\ w.both => MayReplace(replica[w.s]["messages"], w.forSource["messages"])

\* Merging takes neither replica back to an older message.
LEMMA MergeForward ==
  ASSUME NEW s \in Record("messages"), NEW t \in Record("messages")
  PROVE  /\ MayReplace(s, mergeEntity("messages", s, t))
         /\ MayReplace(t, mergeEntity("messages", s, t))
<1> DEFINE m == mergeEntity("messages", s, t)
<1>1. s.version \in Nat /\ t.version \in Nat
  BY DEF Record
<1>2. CASE Concurrent(s, t)
  <2>1. m = Winner(s, t)
    BY <1>2 DEF mergeEntity, Mergeable
  <2> QED
    BY <1>2, <2>1, WinnerMayReplace
<1>3. CASE Dominates(s, t)
  <2>1. m = s
    BY <1>1, <1>3 DEF mergeEntity, Mergeable, Dominates, Concurrent
  <2> QED
    BY <1>1, <1>3, <2>1 DEF MayReplace, Dominates
<1>4. CASE ~ Concurrent(s, t) /\ ~ Dominates(s, t)
  <2>1. m = t
    BY <1>4 DEF mergeEntity, Mergeable
  <2> QED
    BY <1>1, <1>4, <2>1 DEF MayReplace, Dominates, Concurrent
<1> QED
  BY <1>2, <1>3, <1>4

LEMMA ApplyForward ==
  ASSUME NEW a, NEW b
  PROVE  MayReplace(a, applyRecord(a, b))
BY DEF MayReplace, applyRecord, Dominates

LEMMA MessagesStep ==
  ASSUME "messages" \in Categories, Serial, Unlimited,
         TypeInv, SerialInv, MessagesInv, [Next]_vars
  PROVE  MessagesInv' /\ Forward
<1> DEFINE mm == "messages"
<1> USE DEF MayReplace
<1>0. ASSUME UNCHANGED replica PROVE Forward
  BY <1>0 DEF Forward
<1>1. ASSUME NEW r \in Replicas, Register(r) PROVE MessagesInv' /\ Forward
  <2> DEFINE u == [c \in Categories |-> applyRecord(replica[r][c], device[r][c])]
             w == [s |-> r, t |-> r, forTarget |-> u, forSource |-> u,
                   both |-> FALSE]
  <2>1. MayReplace(replica[r][mm], u[mm])
    BY ApplyForward
  <2>2. writing' = writing \cup {w} /\ UNCHANGED <<replica, resolves>>
    BY <1>1 DEF Register, bounds
  <2> HIDE DEF u
  <2>3. w.t = r /\ w.forTarget = u /\ w.both = FALSE
    OBVIOUS
  <2> HIDE DEF w
  <2> QED
    BY <1>0, <2>1, <2>2, <2>3 DEF MessagesInv
<1>2. ASSUME NEW r \in Replicas, NEW c \in Categories, Edit(r, c)
      PROVE  MessagesInv' /\ Forward
  BY <1>0, <1>2 DEF Edit, MessagesInv
<1>3. ASSUME NEW op, NEW s, NEW t, NEW cats, NEW n, Call(op, s, t, cats, n)
      PROVE  MessagesInv' /\ Forward
  <2>1. writing = {} /\ UNCHANGED <<replica, writing>>
    BY <1>3, MayCallIdle DEF Call, SerialInv
  <2> QED
    BY <1>0, <2>1 DEF MessagesInv
<1>4. ASSUME NEW q \in reading, Work(q) PROVE MessagesInv' /\ Forward
  <2> DEFINE S == q.copy
             T == replica[q.t]
  <2>1. /\ S = replica[q.s] /\ S[mm] \in Record(mm) /\ T[mm] \in Record(mm)
        /\ writing = {}
    BY OnlyReading DEF TypeInv, IsRequest, SerialInv, Fits, IsSnapshot
  <2>2. ASSUME NEW f, NEW g, NEW both \in BOOLEAN, Decide(q, f, g, both),
               resolves = 0 => MayReplace(T[mm], f[mm]),
               (both /\ resolves = 0) => MayReplace(S[mm], g[mm])
        PROVE  MessagesInv' /\ Forward
    <3> DEFINE w == [s |-> q.s, t |-> q.t, forTarget |-> f, forSource |-> g,
                     both |-> both]
    <3>1. writing' = {w} /\ UNCHANGED <<replica, resolves>>
      BY <2>1, <2>2 DEF Decide, bounds
    <3>2. /\ w.t = q.t /\ w.s = q.s /\ w.forTarget = f /\ w.forSource = g
          /\ w.both = both
      OBVIOUS
    <3> HIDE DEF w
    <3> QED
      BY <1>0, <2>1, <2>2, <3>1, <3>2 DEF MessagesInv
  <2>3. CASE Synchronize(q)
    <3> DEFINE m == mergeReplicas(S, T, q.cats)
    <3>1. m[mm] = mergeEntity(mm, S[mm], T[mm])
      BY <2>3 DEF Synchronize, SerialInv, mergeReplicas
    <3>2. MayReplace(S[mm], m[mm]) /\ MayReplace(T[mm], m[mm])
      BY <2>1, <3>1, MergeForward
    <3>3. Decide(q, m, m, TRUE)
      BY <2>3 DEF Synchronize
    <3> HIDE DEF m
    <3> QED
      BY <2>2, <3>2, <3>3
  <2>4. ASSUME NEW items, Decide(q, applyDelta(T, S, items),
                                 applyDelta(T, S, items), FALSE)
        PROVE  MessagesInv' /\ Forward
    <3> DEFINE m == applyDelta(T, S, items)
    <3>1. m[mm] \in {T[mm], applyRecord(T[mm], S[mm])}
      BY DEF applyDelta, Mergeable
    <3>2. MayReplace(T[mm], m[mm])
      BY <3>1, ApplyForward
    <3>3. Decide(q, m, m, FALSE)
      BY <2>4
    <3> HIDE DEF m
    <3> QED
      BY <2>2, <3>2, <3>3
  <2>5. CASE Resolve(q)
    <3>1. resolves > 0 /\ resolves \in Nat
      BY <2>5, ReplicationAssumption DEF Resolve, SerialInv, TypeInv
    <3>2. ~ (resolves = 0)
      BY <3>1
    <3> QED
      BY <2>2, <2>5, <3>2 DEF Resolve, DecideFor
  <2>6. CASE ResolveRefused(q)
    BY <1>0, <2>6 DEF ResolveRefused, MessagesInv, bounds
  <2> QED
    BY <1>4, <2>3, <2>4, <2>5, <2>6 DEF Work, ReplicateDelta, Resume
<1>5. ASSUME NEW w \in writing, Store(w) PROVE MessagesInv' /\ Forward
  <2>1. /\ w.t \in Replicas /\ w.s \in Replicas /\ UNCHANGED resolves
        /\ replica' = [replica EXCEPT ![w.t] = w.forTarget]
        /\ writing' = {} \/ (w.both /\ writing' = {ForSource(w)})
    BY <1>5, OnlyWriting
       DEF Store, StoreTarget, StoreOwn, SerialInv, TypeInv, IsOutcome, bounds
  <2>2. \A r \in Replicas : replica'[r] = IF r = w.t THEN w.forTarget
                                          ELSE replica[r]
    BY <2>1 DEF TypeInv
  <2>3. Forward
    BY <2>1, <2>2 DEF Forward, MessagesInv
  <2>4. CASE writing' = {}
    BY <2>3, <2>4 DEF MessagesInv
  <2>5. CASE w.both /\ writing' = {ForSource(w)}
    <3>1. replica'[w.s] = replica[w.s]
      BY <2>1, <2>2, <2>5 DEF SerialInv
    <3>2. /\ ForSource(w).t = w.s /\ ForSource(w).forTarget = w.forSource
          /\ ForSource(w).both = FALSE
      BY DEF ForSource
    <3> QED
      BY <2>1, <2>3, <2>5, <3>1, <3>2 DEF MessagesInv
  <2> QED
    BY <2>1, <2>4, <2>5
<1>6. CASE (\E q \in reading : FailReading(q)) \/ (\E w \in writing : FailWriting(w))
  BY <1>0, <1>6 DEF FailReading, FailWriting, MessagesInv
<1>7. CASE UNCHANGED vars
  BY <1>0, <1>7 DEF MessagesInv, vars
<1> QED
  BY <1>1, <1>2, <1>3, <1>4, <1>5, <1>6, <1>7
     DEF Next, CallSynchronize, CallDelta, CallResume, CallResolve

\* As long as calls do not overlap and none is limited to some categories, no
\* replica goes back to an older message or to one that lost a conflict, but
\* by explicit resolution.
THEOREM MessagesNeverGoBack ==
  ASSUME Serial, Unlimited
  PROVE  Spec => NeverBack
<1>1. CASE "messages" \notin Categories
  <2>1. Forward
    BY <1>1 DEF Forward
  <2> QED
    BY <2>1, PTL DEF NeverBack
<1>2. CASE "messages" \in Categories
  <2> DEFINE IInv == TypeInv /\ SerialInv /\ MessagesInv
  <2>1. Init => IInv
    <3> SUFFICES ASSUME Init PROVE IInv
      OBVIOUS
    <3>1. MessagesInv
      BY DEF Init, MessagesInv
    <3> QED
      BY <3>1, TypeInit, SerialInit
  <2>2. IInv /\ [Next]_vars => IInv' /\ Forward
    BY <1>2, TypeStep, SerialStep, MessagesStep
  <2> QED
    BY <2>1, <2>2, PTL DEF Spec, NeverBack
<1> QED
  BY <1>1, <1>2

-----------------------------------------------------------------------------
(* Counting is the same in each component. *)

LEMMA SameCount ==
  /\ \A S : Sync!Cardinality(S) = Cardinality(S)
  /\ \A S : Schedule!Cardinality(S) = Cardinality(S)
  /\ \A S : Schedule!IsFiniteSet(S) <=> IsFiniteSet(S)
BY DEF Sync!Cardinality, Sync!IsFiniteSet, Schedule!Cardinality, Schedule!IsFiniteSet,
   Cardinality, IsFiniteSet

-----------------------------------------------------------------------------
(***************************************************************************)
(* A synchronization session: its types.                                   *)
(***************************************************************************)
SyncStates == {"running", "paused"} \cup Sync!Terminal
SyncQueues == [paused : BOOLEAN, ops : [Sync!Ops -> Sync!OpStates], tries : [Sync!Ops -> Nat]]
SyncCalls ==
  [at : {"idle", "pause"}]
    \cup [at : {"pull", "rebuild"}, cursor : 0..MaxOps]
    \cup [at : {"load pull"}, queue : Nat, cursor : 0..MaxOps, max : 1..MaxOps]
    \cup [at : {"apply"}, ops : SUBSET Sync!Ops]
    \cup [at : {"report"}, ok : SUBSET Sync!Ops, failed : SUBSET Sync!Ops]
    \cup [at : {"mark"}, ok : SUBSET Sync!Ops, failed : SUBSET Sync!Ops, state : SyncStates,
          cursor : 0..MaxOps]
    \cup [at : {"load report"}, queue : Nat, cursor : 0..MaxOps, ok : SUBSET Sync!Ops,
          failed : SUBSET Sync!Ops]
    \cup [at : {"store"}, queue : Nat, cursor : 0..MaxOps]
    \cup [at : {"check"}, queue : Nat, state : SyncStates]
    \cup [at : {"advance"}, state : SyncStates]
    \cup [at : {"write"}, from : SyncStates, to : SyncStates]

\* A call holds a queue that was made.
Holds(call, qs) ==
  call.at \in {"load pull", "load report", "store", "check"} => call.queue \in DOMAIN qs
SyncTyped ==
  /\ session \in [state : SyncStates, cursor : 0..MaxOps, lapsed : BOOLEAN]
  /\ queues \in Seq(SyncQueues) /\ Len(queues) \in 1..MaxQueues
  /\ current \in 0..Len(queues)
  /\ calls \in [Callers -> SyncCalls]
  /\ \A c \in Callers : Holds(calls[c], queues)
  /\ advanced \in BOOLEAN /\ applied \in SUBSET Sync!Ops /\ restarts \in 0..MaxRestarts

-----------------------------------------------------------------------------
(* One drain of a device that applies all it is given. *)

Full(q) == \A o \in Sync!Ops : q.ops[o] # "absent"
\* No operation is missing below one of the set.
Closed(S) == \A o \in S, r \in Sync!Ops : r < o => r \in S
\* What the device is about to apply.
InHand == {o \in Sync!Ops : \E c \in Callers : Sync!At(c) = "apply" /\ o \in calls[c].ops}

\* A queue marks nothing that was not applied, and nothing is handed out twice.
QueueFits(q, done, hand) ==
  /\ Full(q) \/ Sync!IsEmpty(q)
  /\ \A o \in Sync!Ops : /\ q.tries[o] = 0 /\ q.ops[o] # "failed"
                         /\ q.ops[o] = "applied" => o \in done
                         /\ q.ops[o] = "handed" => o \in done \cup hand

CallFits(call, done, qs) ==
  /\ call.at \in {"pull", "rebuild", "load pull", "mark", "load report", "store"} =>
       1..call.cursor \subseteq done
  /\ call.at \in {"report", "mark", "load report"} =>
       call.failed = {} /\ call.ok \subseteq done
  /\ call.at = "apply" => Closed(done \cup call.ops)
  /\ call.at \in {"store", "check"} => Full(qs[call.queue]) \/ done = Sync!Ops
  /\ call.at = "advance" => done = Sync!Ops
  /\ MayPause = FALSE =>
       /\ call.at \notin {"pause", "rebuild"}
       /\ call.at = "mark" => call.state = "running"
       /\ call.at = "write" => call.to # "paused"
  /\ MayPause = TRUE /\ call.at = "write" =>
       call.to \in {"running", "paused"} \/ done = Sync!Ops

OneDrain ==
  /\ Drains = 1 /\ MayFail = FALSE
  /\ MayPause = FALSE \/ (MayPause = TRUE /\ MayEnd = FALSE /\ MaxRestarts = 0)
DrainInv ==
  /\ SyncTyped
  /\ Closed(applied) /\ 1..session.cursor \subseteq applied
  /\ \A k \in DOMAIN queues : QueueFits(queues[k], applied, InHand)
  /\ \A c \in Callers : CallFits(calls[c], applied, queues)
  /\ \A c, d \in Sync!Draining : c = d
  /\ advanced => applied = Sync!Ops
  /\ MayPause = FALSE => session.state # "paused"
  /\ MayPause = TRUE =>
       /\ session.lapsed = FALSE
       /\ applied = Sync!Ops \/ (current = 1 /\ Full(queues[1]) /\ session.state \notin Sync!Terminal)

-----------------------------------------------------------------------------
(* Drains that overlap, of a session that is not paused and outlives the
   server's process. *)

\* What the first queue counts as applied, and what it has handed out.
First(qs) == Sync!Applied(qs[1])
Out(qs) == {o \in Sync!Ops : qs[1].ops[o] = "handed"}
Running == session.state = "running"
\* What a call has been handed.
Given(call) ==
  IF call.at = "apply" THEN call.ops
  ELSE IF call.at \in {"report", "mark", "load report"} THEN call.ok \cup call.failed
  ELSE {}

CountFits(call, done, qs, run) ==
  /\ call.at \in {"pull", "load pull", "mark", "load report"} =>
       call.cursor <= Cardinality(First(qs))
  /\ call.at = "store" => (call.queue = 1 => call.cursor <= Cardinality(First(qs)))
  /\ call.at \in {"load pull", "load report"} => call.queue # 1
  /\ call.at \in {"store", "check"} => Full(qs[call.queue])
  /\ call.at \in {"mark", "load report"} => Given(call) \subseteq Out(qs)
  /\ call.at \in {"apply", "report"} => (run => Given(call) \subseteq Out(qs))
  /\ call.at \in {"report", "mark", "load report"} => call.ok \subseteq done
  /\ call.at = "mark" => call.state = "running"
  /\ call.at \notin {"pause", "rebuild"}
  /\ call.at = "write" => call.to \in Sync!Terminal
  /\ call.at = "advance" => done = Sync!Ops

\* What a later queue may count: no more than the first, and what was applied
\* besides.
Later(done, qs) == 1..Cardinality(First(qs)) \cup (done \ First(qs))
NoPause == MayPause = FALSE /\ MaxRestarts = 0
CountInv ==
  /\ SyncTyped
  /\ session.state # "paused"
  /\ Running => /\ current = 1 /\ Len(queues) = 1
                /\ session.cursor <= Cardinality(First(queues))
  /\ ~Running => current # 1
  /\ Full(queues[1])
  /\ \A k \in DOMAIN queues : Full(queues[k]) \/ Sync!IsEmpty(queues[k])
  /\ First(queues) \subseteq applied
  /\ \A k \in DOMAIN queues : k # 1 => Sync!Applied(queues[k]) \subseteq Later(applied, queues)
  /\ \A c \in Callers : CountFits(calls[c], applied, queues, Running)
  /\ Running => \A c, d \in Callers :
                  c # d => Given(calls[c]) \cap Given(calls[d]) = {}
  /\ advanced => applied = Sync!Ops

\* A queue of the session becomes q, the others stay.
Puts(k, q) ==
  /\ queues' \in Seq(SyncQueues) /\ Len(queues') \in 1..MaxQueues
  /\ k \in DOMAIN queues' /\ queues'[k] = q
  /\ DOMAIN queues \subseteq DOMAIN queues'
  /\ \A j \in DOMAIN queues' \ {k} : j \in DOMAIN queues /\ queues'[j] = queues[j]

LEMMA LoadedIs ==
  ASSUME NEW q \in SyncQueues, NEW n \in 0..MaxOps
  PROVE  /\ Sync!Loaded(q, n) \in SyncQueues
         /\ \A o \in Sync!Ops : /\ Sync!Loaded(q, n).ops[o] = IF o <= n THEN "applied" ELSE "pending"
                                /\ Sync!Loaded(q, n).tries[o] = 0
BY DEF Sync!Loaded, SyncQueues, Sync!OpStates

LEMMA ReloadedIs ==
  ASSUME NEW q \in SyncQueues, NEW n \in 0..MaxOps
  PROVE  /\ Sync!Reloaded(q, n) \in SyncQueues
         /\ Sync!Reloaded(q, n) = IF Sync!IsEmpty(q) THEN Sync!Loaded(q, n) ELSE q
BY LoadedIs DEF Sync!Reloaded

LEMMA EmptyIs ==
  ASSUME Sync!SynchronizationAssumption
  PROVE  /\ Sync!EmptyQueue \in SyncQueues /\ Sync!IsEmpty(Sync!EmptyQueue) /\ ~Full(Sync!EmptyQueue)
         /\ \A o \in Sync!Ops : Sync!EmptyQueue.ops[o] = "absent" /\ Sync!EmptyQueue.tries[o] = 0
<1>1. 1 \in Sync!Ops
  BY DEF Sync!SynchronizationAssumption, Sync!Ops
<1> QED
  BY <1>1 DEF Sync!EmptyQueue, SyncQueues, Sync!OpStates, Sync!IsEmpty, Full

LEMMA MarkedIs ==
  ASSUME NEW q \in SyncQueues, NEW ok \in SUBSET Sync!Ops, NEW failed \in SUBSET Sync!Ops
  PROVE  /\ Sync!Marked(q, ok, failed) \in SyncQueues
         /\ \A o \in Sync!Ops :
              /\ Sync!Marked(q, ok, failed).ops[o] =
                        IF q.ops[o] = "absent" THEN "absent"
                        ELSE IF o \in failed THEN "failed"
                        ELSE IF o \in ok THEN "applied" ELSE q.ops[o]
              /\ Sync!Marked(q, ok, failed).tries[o] =
                        IF o \in failed /\ q.ops[o] # "absent" THEN q.tries[o] + 1 ELSE q.tries[o]
<1> DEFINE tries == [o \in Sync!Ops |-> IF o \in failed /\ q.ops[o] # "absent"
                                        THEN q.tries[o] + 1 ELSE q.tries[o]]
           ops == [o \in Sync!Ops |->
            IF q.ops[o] = "absent" THEN "absent"
            ELSE IF o \in failed THEN "failed"
            ELSE IF o \in ok THEN "applied" ELSE q.ops[o]]
<1>1. tries \in [Sync!Ops -> Nat] /\ ops \in [Sync!Ops -> Sync!OpStates]
  BY DEF SyncQueues, Sync!OpStates
<1>2. Sync!Marked(q, ok, failed) = [q EXCEPT !.tries = tries, !.ops = ops]
  BY DEF Sync!Marked
<1> HIDE DEF tries, ops
<1>3. /\ Sync!Marked(q, ok, failed) \in SyncQueues
      /\ Sync!Marked(q, ok, failed).ops = ops /\ Sync!Marked(q, ok, failed).tries = tries
  BY <1>1, <1>2 DEF SyncQueues
<1> QED
  BY <1>3 DEF tries, ops

LEMMA MarkedTyped ==
  ASSUME NEW q \in SyncQueues, NEW ok \in SUBSET Sync!Ops, NEW failed \in SUBSET Sync!Ops
  PROVE  Sync!Marked(q, ok, failed) \in SyncQueues
BY MarkedIs, Zenon

\* What the queue hands out, as the queue is after it.
Taken(q, out) ==
  [q EXCEPT !.ops = [o \in Sync!Ops |-> IF o \in out THEN "handed" ELSE q.ops[o]]]
LEMMA TakenIs ==
  ASSUME NEW q \in SyncQueues, NEW out \in SUBSET Sync!Ops
  PROVE  /\ Taken(q, out) \in SyncQueues
         /\ \A o \in Sync!Ops : /\ Taken(q, out).ops[o] = IF o \in out THEN "handed" ELSE q.ops[o]
                                /\ Taken(q, out).tries[o] = q.tries[o]
BY DEF Taken, SyncQueues, Sync!OpStates

LEMMA HandedIs ==
  ASSUME NEW q \in SyncQueues, NEW max \in 1..MaxOps
  PROVE  /\ Sync!Handed(q, max) \in SUBSET Sync!Ops
         /\ \A o \in Sync!Handed(q, max) : q.ops[o] \in {"pending", "failed"}
BY DEF Sync!Handed

\* Replacing a queue, or adding one.
LEMMA PutsOld ==
  ASSUME SyncTyped, NEW k \in DOMAIN queues, NEW q \in SyncQueues,
         queues' = [queues EXCEPT ![k] = q]
  PROVE  Puts(k, q) /\ Len(queues') = Len(queues)
BY ExceptSeq DEF Puts, SyncTyped

LEMMA PutsNew ==
  ASSUME SyncTyped, NEW q \in SyncQueues, Len(queues) < MaxQueues,
         Sync!SynchronizationAssumption, queues' = Append(queues, q)
  PROVE  Puts(Len(queues) + 1, q) /\ Len(queues') = Len(queues) + 1
<1>1. queues \in Seq(SyncQueues) /\ Len(queues) \in Nat /\ MaxQueues \in Nat
  BY DEF SyncTyped, Sync!SynchronizationAssumption
<1>2. /\ queues' \in Seq(SyncQueues) /\ Len(queues') = Len(queues) + 1
      /\ \A i \in 1..Len(queues) : queues'[i] = queues[i]
      /\ queues'[Len(queues) + 1] = q
  BY <1>1, AppendProperties
<1>3. DOMAIN queues = 1..Len(queues) /\ DOMAIN queues' = 1..(Len(queues) + 1)
  BY <1>1, <1>2
<1> QED
  BY <1>1, <1>2, <1>3 DEF Puts, SyncTyped

LEMMA QueueIs ==
  ASSUME Sync!SynchronizationAssumption, SyncTyped
  PROVE  /\ Sync!Queue \in SyncQueues
         /\ current # 0 => current \in DOMAIN queues /\ Sync!Queue = queues[current]
         /\ current = 0 => Sync!Queue = Sync!EmptyQueue
<1>1. current # 0 => current \in DOMAIN queues /\ queues[current] \in SyncQueues
  BY ElementOfSeq DEF SyncTyped
<1> QED
  BY <1>1, EmptyIs DEF Sync!Queue

LEMMA SetQueueDoes ==
  ASSUME Sync!SynchronizationAssumption, SyncTyped, NEW q \in SyncQueues, Sync!SetQueue(q)
  PROVE  /\ Puts(current', q) /\ current' \in DOMAIN queues'
         /\ current # 0 => current' = current /\ Len(queues') = Len(queues)
         /\ current = 0 => current' = Len(queues) + 1 /\ Len(queues') = current'
<1>1. current # 0 => current \in DOMAIN queues
  BY QueueIs
<1>2. CASE current # 0
  BY <1>1, <1>2, PutsOld DEF Sync!SetQueue, Puts
<1>3. CASE current = 0
  BY <1>3, PutsNew DEF Sync!SetQueue, Puts
<1> QED
  BY <1>2, <1>3

LEMMA SyncCallTyped ==
  ASSUME NEW r \in SyncCalls
  PROVE  /\ r.at \in {"idle", "pause", "pull", "rebuild", "load pull", "apply", "report",
                      "mark", "load report", "store", "check", "advance", "write"}
         /\ r.at \in {"pull", "rebuild", "load pull", "mark", "load report", "store"} =>
              r.cursor \in 0..MaxOps
         /\ r.at \in {"load pull", "load report", "store", "check"} => r.queue \in Nat
         /\ r.at = "load pull" => r.max \in 1..MaxOps
         /\ r.at = "apply" => r.ops \in SUBSET Sync!Ops
         /\ r.at \in {"report", "mark", "load report"} =>
              r.ok \in SUBSET Sync!Ops /\ r.failed \in SUBSET Sync!Ops
         /\ r.at \in {"mark", "check", "advance"} => r.state \in SyncStates
         /\ r.at = "write" => r.to \in SyncStates
BY DEF SyncCalls

\* The step of one request.
Calling(c) ==
  \/ Sync!Pull(c) \/ \E max \in 1..MaxOps : Sync!Dequeue(c, max)
  \/ \E ok \in SUBSET Sync!Ops : Sync!Apply(c, ok)
  \/ Sync!LoadPull(c) \/ Sync!Lose(c) \/ Sync!Report(c) \/ Sync!MarkReport(c) \/ Sync!LoadReport(c)
  \/ Sync!StoreProgress(c) \/ Sync!Check(c) \/ Sync!Advance(c)
  \/ Sync!Pause(c) \/ Sync!StopQueue(c) \/ Sync!Resume(c) \/ Sync!Rebuild(c) \/ Sync!Cancel(c) \/ Sync!Expire(c) \/ Sync!Write(c)

LEMMA SyncKeeps ==
  ASSUME SyncTyped, NEW c \in Callers, NEW call \in SyncCalls, Sync!Set(c, call),
         queues' \in Seq(SyncQueues), Len(queues') \in 1..MaxQueues,
         DOMAIN queues \subseteq DOMAIN queues', Holds(call, queues'),
         current' \in 0..Len(queues'),
         session' \in [state : SyncStates, cursor : 0..MaxOps, lapsed : BOOLEAN],
         advanced' \in BOOLEAN, applied' \in SUBSET Sync!Ops, restarts' = restarts
  PROVE  SyncTyped'
<1>1. /\ calls' \in [Callers -> SyncCalls] /\ calls'[c] = call
      /\ \A d \in Callers \ {c} : calls'[d] = calls[d]
  BY DEF SyncTyped, Sync!Set
<1>2. \A d \in Callers : Holds(calls'[d], queues')
  BY <1>1 DEF Holds, SyncTyped
<1> QED
  BY <1>1, <1>2 DEF SyncTyped

\* What a request hands out, and what becomes of it.
LEMMA GiveDoes ==
  ASSUME SyncTyped, NEW c \in Callers, NEW k \in DOMAIN queues, NEW q \in SyncQueues,
         NEW max \in 1..MaxOps, Sync!Give(c, k, q, max)
  PROVE  /\ Puts(k, Taken(q, Sync!Handed(q, max))) /\ Len(queues') = Len(queues)
         /\ Sync!Set(c, IF Sync!Handed(q, max) = {} THEN Sync!Idle
                        ELSE [at |-> "apply", ops |-> Sync!Handed(q, max)])
<1>1. queues' = [queues EXCEPT ![k] = Taken(q, Sync!Handed(q, max))]
  BY DEF Sync!Give, Taken
<1>2. Sync!Set(c, IF Sync!Handed(q, max) = {} THEN Sync!Idle
                  ELSE [at |-> "apply", ops |-> Sync!Handed(q, max)])
  BY DEF Sync!Give
<1>3. Taken(q, Sync!Handed(q, max)) \in SyncQueues
  BY HandedIs, TakenIs
<1> QED
  BY <1>1, <1>2, <1>3, PutsOld

LEMMA CountTyped ==
  ASSUME Sync!SynchronizationAssumption, NEW S \in SUBSET Sync!Ops
  PROVE  IsFiniteSet(S) /\ Cardinality(S) \in 0..MaxOps
<1>1. MaxOps \in Nat /\ IsFiniteSet(Sync!Ops) /\ Cardinality(Sync!Ops) = MaxOps
  BY FS_Interval DEF Sync!SynchronizationAssumption, Sync!Ops
<1> QED
  BY <1>1, FS_Subset, FS_CardinalityType

\* What a report marks.
LEMMA MarkDoes ==
  ASSUME Sync!SynchronizationAssumption, SyncTyped, NEW c \in Callers,
         NEW k \in 1..(Len(queues) + 1),
         NEW q \in SyncQueues, NEW ok \in SUBSET Sync!Ops, NEW failed \in SUBSET Sync!Ops,
         calls[c].ok = ok, calls[c].failed = failed,
         k = Len(queues) + 1 => Len(queues) < MaxQueues,
         Sync!Mark(c, k, q), NEW new, new = Sync!Marked(q, ok, failed)
  PROVE  /\ new \in SyncQueues /\ Puts(k, new)
         /\ Sync!Applied(new) \in SUBSET Sync!Ops /\ Cardinality(Sync!Applied(new)) \in 0..MaxOps
         /\ Sync!Set(c, [at |-> "store", queue |-> k, cursor |-> Cardinality(Sync!Applied(new))])
         /\ k \in DOMAIN queues => Len(queues') = Len(queues)
         /\ k \notin DOMAIN queues => Len(queues') = k
<1>0. Sync!Marked(q, ok, failed) \in SyncQueues
  BY MarkedTyped
<1>1. new \in SyncQueues
  BY <1>0, Zenon
<1>2. Sync!Applied(new) \in SUBSET Sync!Ops
  BY DEF Sync!Applied
<1>3. /\ queues' = IF k > Len(queues) THEN Append(queues, new) ELSE [queues EXCEPT ![k] = new]
      /\ Sync!Set(c, [at |-> "store", queue |-> k, cursor |-> Cardinality(Sync!Applied(new))])
  BY SameCount DEF Sync!Mark
<1>4. Len(queues) \in Nat /\ DOMAIN queues = 1..Len(queues)
  BY DEF SyncTyped
<1>5. CASE k > Len(queues)
  <2>1. k = Len(queues) + 1 /\ k \notin DOMAIN queues
    BY <1>4, <1>5
  <2>2. queues' = Append(queues, new)
    BY <1>3, <1>5
  <2>3. Puts(k, new) /\ Len(queues') = k
    BY <1>1, <2>1, <2>2, PutsNew
  <2> QED
    BY <1>1, <1>2, <1>3, <2>1, <2>3, CountTyped
<1>6. CASE k \in DOMAIN queues
  <2>0. ~(k > Len(queues))
    BY <1>4, <1>6
  <2>1. queues' = [queues EXCEPT ![k] = new]
    BY <1>3, <2>0, Zenon
  <2>2. Puts(k, new) /\ Len(queues') = Len(queues)
    BY <1>1, <1>6, <2>1, PutsOld
  <2> QED
    BY <1>1, <1>2, <1>3, <1>6, <2>2, CountTyped
<1> QED
  BY <1>4, <1>5, <1>6

LEMMA InitSyncTypes ==
  ASSUME Sync!SynchronizationAssumption, Sync!Init
  PROVE  SyncTyped /\ queues[1] = Sync!Loaded(Sync!EmptyQueue, 0) /\ Len(queues) = 1
<1>1. Sync!Loaded(Sync!EmptyQueue, 0) \in SyncQueues
  BY EmptyIs, LoadedIs DEF Sync!SynchronizationAssumption
<1>2. /\ queues \in Seq(SyncQueues) /\ Len(queues) = 1 /\ queues[1] = Sync!Loaded(Sync!EmptyQueue, 0)
  BY <1>1 DEF Sync!Init
<1>3. calls \in [Callers -> SyncCalls] /\ \A c \in Callers : Holds(calls[c], queues)
  BY DEF Sync!Init, Sync!Idle, SyncCalls, Holds
<1>4. session \in [state : SyncStates, cursor : 0..MaxOps, lapsed : BOOLEAN]
  BY DEF Sync!Init, SyncStates, Sync!SynchronizationAssumption
<1>5. advanced \in BOOLEAN /\ applied \in SUBSET Sync!Ops
  BY DEF Sync!Init
<1>6. Len(queues) \in 1..MaxQueues /\ current \in 0..Len(queues) /\ restarts \in 0..MaxRestarts
  BY <1>2 DEF Sync!Init, Sync!SynchronizationAssumption
<1> QED
  BY <1>2, <1>3, <1>4, <1>5, <1>6 DEF SyncTyped

\* The actions that leave the queues alone.
LEMMA SmallTypes ==
  ASSUME Sync!SynchronizationAssumption, SyncTyped, NEW c \in Callers,
         \/ Sync!Pull(c) \/ \E ok \in SUBSET Sync!Ops : Sync!Apply(c, ok)
         \/ Sync!Lose(c) \/ Sync!Report(c) \/ Sync!StoreProgress(c) \/ Sync!Check(c) \/ Sync!Advance(c)
         \/ Sync!Pause(c) \/ Sync!Resume(c) \/ Sync!Cancel(c) \/ Sync!Expire(c) \/ Sync!Write(c)
  PROVE  SyncTyped'
<1>1. /\ calls[c] \in SyncCalls /\ Holds(calls[c], queues)
      /\ session \in [state : SyncStates, cursor : 0..MaxOps, lapsed : BOOLEAN]
      /\ queues \in Seq(SyncQueues) /\ Len(queues) \in 1..MaxQueues
      /\ current \in 0..Len(queues)
      /\ advanced \in BOOLEAN /\ applied \in SUBSET Sync!Ops
  BY DEF SyncTyped
<1>2. Sync!Idle \in SyncCalls /\ Holds(Sync!Idle, queues)
  BY DEF Sync!Idle, SyncCalls, Holds
<1>3. ASSUME NEW call \in SyncCalls, Holds(call, queues), Sync!Set(c, call),
             UNCHANGED <<session, queues, current, advanced, restarts>>,
             applied' \in SUBSET Sync!Ops
      PROVE SyncTyped'
  BY <1>1, <1>3, SyncKeeps
<1>4. ASSUME Sync!Pull(c) PROVE SyncTyped'
  <2>1. [at |-> "pull", cursor |-> session.cursor] \in SyncCalls
    BY <1>1 DEF SyncCalls
  <2> QED
    BY <1>1, <1>3, <1>4, <2>1 DEF Sync!Pull, Sync!Elsewhere, Holds
<1>5. ASSUME NEW ok \in SUBSET Sync!Ops, Sync!Apply(c, ok) PROVE SyncTyped'
  <2>1. calls[c].ops \in SUBSET Sync!Ops
    BY <1>1, <1>5, SyncCallTyped DEF Sync!Apply, Sync!At
  <2>2. [at |-> "report", ok |-> ok, failed |-> calls[c].ops \ ok] \in SyncCalls
    BY <2>1 DEF SyncCalls
  <2> QED
    BY <1>1, <1>3, <1>5, <2>2 DEF Sync!Apply, Holds
<1>6. ASSUME Sync!Lose(c) PROVE SyncTyped'
  BY <1>1, <1>2, <1>3, <1>6 DEF Sync!Lose, Sync!Elsewhere
<1>7. ASSUME Sync!Report(c) PROVE SyncTyped'
  <2>1. calls[c].ok \in SUBSET Sync!Ops /\ calls[c].failed \in SUBSET Sync!Ops
    BY <1>1, <1>7, SyncCallTyped DEF Sync!Report, Sync!At
  <2>2. [at |-> "mark", ok |-> calls[c].ok, failed |-> calls[c].failed,
         state |-> session.state, cursor |-> session.cursor] \in SyncCalls
    BY <1>1, <2>1 DEF SyncCalls
  <2> QED
    BY <1>1, <1>2, <1>3, <1>7, <2>2 DEF Sync!Report, Sync!Elsewhere, Holds
<1>8. ASSUME Sync!StoreProgress(c) PROVE SyncTyped'
  <2>1. calls[c].cursor \in 0..MaxOps /\ calls[c].queue \in DOMAIN queues
        /\ calls[c].queue \in Nat
    BY <1>1, <1>8, SyncCallTyped DEF Sync!StoreProgress, Sync!At, Holds
  <2>2. /\ [at |-> "check", queue |-> calls[c].queue, state |-> session.state] \in SyncCalls
        /\ Holds([at |-> "check", queue |-> calls[c].queue, state |-> session.state], queues)
    BY <1>1, <2>1 DEF SyncCalls, Holds
  <2>3. session' \in [state : SyncStates, cursor : 0..MaxOps, lapsed : BOOLEAN]
    BY <1>1, <1>8, <2>1 DEF Sync!StoreProgress
  <2> QED
    BY <1>1, <1>8, <2>2, <2>3, SyncKeeps DEF Sync!StoreProgress, Sync!Elsewhere
<1>9. ASSUME NEW from \in SyncStates, NEW to \in SyncStates
      PROVE Sync!Writing(from, to) \in SyncCalls /\ Holds(Sync!Writing(from, to), queues)
  BY DEF Sync!Writing, SyncCalls, Holds
<1>10. {"failed", "completed", "cancelled", "expired"} \subseteq SyncStates
  BY DEF SyncStates, Sync!Terminal
<1>11. ASSUME Sync!Check(c) PROVE SyncTyped'
  <2>1. calls[c].state \in SyncStates
    BY <1>1, <1>11, SyncCallTyped DEF Sync!Check, Sync!At
  <2>2. /\ [at |-> "advance", state |-> calls[c].state] \in SyncCalls
        /\ Holds([at |-> "advance", state |-> calls[c].state], queues)
    BY <2>1 DEF SyncCalls, Holds
  <2>3. PICK call : /\ Sync!Set(c, call)
                    /\ call \in {[at |-> "advance", state |-> calls[c].state],
                                 Sync!Writing(calls[c].state, "failed"), Sync!Idle}
    BY <1>11 DEF Sync!Check
  <2>4. call \in SyncCalls /\ Holds(call, queues)
    BY <1>2, <1>9, <1>10, <2>1, <2>2, <2>3
  <2> QED
    BY <1>1, <1>3, <1>11, <2>3, <2>4 DEF Sync!Check, Sync!Elsewhere
<1>12. ASSUME Sync!Advance(c) PROVE SyncTyped'
  <2>1. calls[c].state \in SyncStates
    BY <1>1, <1>12, SyncCallTyped DEF Sync!Advance, Sync!At
  <2>2. PICK call : Sync!Set(c, call) /\ call \in {Sync!Writing(calls[c].state, "completed"), Sync!Idle}
    BY <1>12 DEF Sync!Advance
  <2>3. call \in SyncCalls /\ Holds(call, queues)
    BY <1>2, <1>9, <1>10, <2>1, <2>2
  <2> QED
    BY <1>1, <1>12, <2>2, <2>3, SyncKeeps DEF Sync!Advance
<1>13. ASSUME Sync!Pause(c) PROVE SyncTyped'
  <2>1. [at |-> "pause"] \in SyncCalls
    BY DEF SyncCalls
  <2> QED
    BY <1>1, <1>3, <1>13, <2>1 DEF Sync!Pause, Sync!Elsewhere, Holds
<1>14. ASSUME Sync!Resume(c) PROVE SyncTyped'
  <2>1. [at |-> "rebuild", cursor |-> session.cursor] \in SyncCalls
    BY <1>1 DEF SyncCalls
  <2> QED
    BY <1>1, <1>3, <1>14, <2>1 DEF Sync!Resume, Sync!Elsewhere, Holds
<1>15. ASSUME Sync!Cancel(c) \/ Sync!Expire(c) PROVE SyncTyped'
  <2>1. PICK to \in {"cancelled", "expired"} : Sync!Set(c, Sync!Writing(session.state, to))
    BY <1>15 DEF Sync!Cancel, Sync!Expire
  <2>2. Sync!Writing(session.state, to) \in SyncCalls /\ Holds(Sync!Writing(session.state, to), queues)
    BY <1>1, <1>9, <1>10
  <2> QED
    BY <1>1, <1>3, <1>15, <2>1, <2>2 DEF Sync!Cancel, Sync!Expire, Sync!Elsewhere
<1>16. ASSUME Sync!Write(c) PROVE SyncTyped'
  <2>1. calls[c].to \in SyncStates
    BY <1>1, <1>16, SyncCallTyped DEF Sync!Write, Sync!At
  <2>2. session' \in [state : SyncStates, cursor : 0..MaxOps, lapsed : BOOLEAN]
        /\ current' \in 0..Len(queues)
    BY <1>1, <1>16, <2>1 DEF Sync!Write
  <2> QED
    BY <1>1, <1>2, <1>16, <2>2, SyncKeeps DEF Sync!Write, Sync!Elsewhere
<1> QED
  BY <1>4, <1>5, <1>6, <1>7, <1>8, <1>11, <1>12, <1>13, <1>14, <1>15, <1>16

LEMMA EnoughRoom ==
  ASSUME SyncTyped
  PROVE  DOMAIN queues = 1..Len(queues) /\ Len(queues) \in Nat /\ Len(queues) >= 1
         /\ \A k \in DOMAIN queues : queues[k] \in SyncQueues
BY ElementOfSeq DEF SyncTyped

LEMMA PlaceIs ==
  ASSUME SyncTyped, NEW k \in 1..(Len(queues) + 1)
  PROVE  k \in Nat
BY EnoughRoom

LEMMA OldPlace ==
  ASSUME SyncTyped, NEW k \in DOMAIN queues
  PROVE  k \in 1..(Len(queues) + 1) /\ k # Len(queues) + 1
BY EnoughRoom

LEMMA RoomStays ==
  ASSUME SyncTyped, NEW k, NEW q, Puts(k, q)
  PROVE  current \in 0..Len(queues')
<1>1. Len(queues) \in Nat /\ Len(queues') \in Nat /\ current \in 0..Len(queues)
  BY EnoughRoom DEF Puts, SyncTyped
<1>2. Len(queues) <= Len(queues')
  BY <1>1, EnoughRoom DEF Puts
<1> QED
  BY <1>1, <1>2

LEMMA PutsMeans ==
  ASSUME NEW k, NEW q, Puts(k, q)
  PROVE  k \in 1..Len(queues') /\ k \in 0..Len(queues') /\ k \in Nat
         /\ k \in DOMAIN queues' /\ Len(queues') \in Nat
         /\ DOMAIN queues' = 1..Len(queues')
BY DEF Puts

\* A request that put a queue in its place.
LEMMA PutTypes ==
  ASSUME SyncTyped, NEW c \in Callers, NEW call \in SyncCalls, Sync!Set(c, call),
         NEW k, NEW q, Puts(k, q), Holds(call, queues'), current' \in 0..Len(queues'),
         UNCHANGED <<session, advanced, applied, restarts>>
  PROVE  SyncTyped'
BY SyncKeeps DEF Puts, SyncTyped

LEMMA GiveTypes ==
  ASSUME SyncTyped, NEW c \in Callers, NEW k \in DOMAIN queues, NEW q \in SyncQueues,
         NEW max \in 1..MaxOps, Sync!Give(c, k, q, max),
         UNCHANGED <<session, current, advanced, applied, restarts>>
  PROVE  SyncTyped'
<1>1. /\ Puts(k, Taken(q, Sync!Handed(q, max))) /\ Len(queues') = Len(queues)
      /\ Sync!Set(c, IF Sync!Handed(q, max) = {} THEN Sync!Idle ELSE [at |-> "apply", ops |-> Sync!Handed(q, max)])
  BY GiveDoes
<1>2. PICK call : Sync!Set(c, call) /\ call \in {Sync!Idle, [at |-> "apply", ops |-> Sync!Handed(q, max)]}
  BY <1>1
<1>3. Sync!Handed(q, max) \in SUBSET Sync!Ops
  BY HandedIs
<1>4. call \in SyncCalls /\ Holds(call, queues')
  <2>1. Sync!Idle \in SyncCalls /\ Holds(Sync!Idle, queues')
    BY DEF Sync!Idle, SyncCalls, Holds
  <2>2. \A S \in SUBSET Sync!Ops : [at |-> "apply", ops |-> S] \in SyncCalls
    BY DEF SyncCalls
  <2>3. Holds([at |-> "apply", ops |-> Sync!Handed(q, max)], queues')
    BY DEF Holds
  <2> QED
    BY <1>2, <1>3, <2>1, <2>2, <2>3
<1>5. current' \in 0..Len(queues')
  BY <1>1 DEF SyncTyped
<1> QED
  BY <1>1, <1>2, <1>4, <1>5, PutTypes

LEMMA MarkTypes ==
  ASSUME Sync!SynchronizationAssumption, SyncTyped, NEW c \in Callers,
         NEW k \in 1..(Len(queues) + 1),
         NEW q \in SyncQueues, calls[c].at \in {"mark", "load report"},
         k = Len(queues) + 1 => Len(queues) < MaxQueues,
         Sync!Mark(c, k, q), current' \in {current, k},
         UNCHANGED <<session, advanced, applied, restarts>>
  PROVE  SyncTyped'
<1>1. calls[c].ok \in SUBSET Sync!Ops /\ calls[c].failed \in SUBSET Sync!Ops
  BY SyncCallTyped DEF SyncTyped
<1>2. PICK new : new = Sync!Marked(q, calls[c].ok, calls[c].failed)
  OBVIOUS
<1>3. /\ Puts(k, new) /\ Cardinality(Sync!Applied(new)) \in 0..MaxOps
      /\ Sync!Set(c, [at |-> "store", queue |-> k, cursor |-> Cardinality(Sync!Applied(new))])
      /\ k \in DOMAIN queues => Len(queues') = Len(queues)
      /\ k \notin DOMAIN queues => Len(queues') = k
  BY <1>1, <1>2, MarkDoes
<1>4. [at |-> "store", queue |-> k, cursor |-> Cardinality(Sync!Applied(new))] \in SyncCalls
  <2>1. \A n \in 0..MaxOps, j \in Nat :
          [at |-> "store", queue |-> j, cursor |-> n] \in SyncCalls
    BY DEF SyncCalls
  <2>2. k \in Nat
    BY PlaceIs, Zenon
  <2> QED
    BY <1>3, <2>1, <2>2
<1>5. Holds([at |-> "store", queue |-> k, cursor |-> Cardinality(Sync!Applied(new))], queues')
  BY <1>3 DEF Holds, Puts
<1>6. current' \in 0..Len(queues')
  BY <1>3, RoomStays, PutsMeans, Zenon
<1> QED
  BY <1>3, <1>4, <1>5, <1>6, PutTypes

\* Where a request finds its queue, or makes it.
LEMMA DequeueDoes ==
  ASSUME Sync!SynchronizationAssumption, SyncTyped, NEW c \in Callers,
         NEW max \in 1..MaxOps,
         Sync!Dequeue(c, max)
  PROVE  \/ /\ current \in DOMAIN queues /\ ~Sync!IsEmpty(queues[current])
            /\ queues[current] \in SyncQueues
            /\ Sync!Give(c, current, queues[current], max) /\ current' = current
         \/ /\ Sync!IsEmpty(Sync!Queue) /\ Sync!Queue \in SyncQueues /\ Puts(current', Sync!Queue)
            /\ current' \in DOMAIN queues'
            /\ current = 0 => current' = Len(queues) + 1 /\ Len(queues') = current'
            /\ current # 0 => current' = current /\ Len(queues') = Len(queues)
            /\ Sync!Set(c, [at |-> "load pull", queue |-> current', cursor |-> calls[c].cursor,
                            max |-> max])
<1>1. CASE current # 0 /\ ~Sync!IsEmpty(queues[current])
  BY <1>1, QueueIs DEF Sync!Dequeue
<1>2. CASE ~(current # 0 /\ ~Sync!IsEmpty(queues[current]))
  <2>1. /\ Sync!SetQueue(Sync!Queue)
        /\ Sync!Set(c, [at |-> "load pull", queue |-> current', cursor |-> calls[c].cursor,
                        max |-> max])
    BY <1>2 DEF Sync!Dequeue
  <2>2. Sync!IsEmpty(Sync!Queue)
    BY <1>2, QueueIs, EmptyIs
  <2> QED
    BY <2>1, <2>2, QueueIs, SetQueueDoes
<1> QED
  BY <1>1, <1>2

LEMMA MarkReportDoes ==
  ASSUME Sync!SynchronizationAssumption, SyncTyped, NEW c \in Callers, Sync!MarkReport(c)
  PROVE  \/ /\ current \in DOMAIN queues /\ queues[current] \in SyncQueues
            /\ calls[c].state # "running" \/ ~Sync!IsEmpty(queues[current])
            /\ Sync!Mark(c, current, queues[current]) /\ current' = current
         \/ /\ current = 0 /\ calls[c].state # "running" /\ Len(queues) < MaxQueues
            /\ current' = Len(queues) + 1 /\ Sync!Mark(c, current', Sync!EmptyQueue)
         \/ /\ calls[c].state = "running"
            /\ Sync!IsEmpty(Sync!Queue) /\ Sync!Queue \in SyncQueues /\ Puts(current', Sync!Queue)
            /\ current' \in DOMAIN queues'
            /\ current = 0 => current' = Len(queues) + 1 /\ Len(queues') = current'
            /\ current # 0 => current' = current /\ Len(queues') = Len(queues)
            /\ Sync!Set(c, [at |-> "load report", queue |-> current', cursor |-> calls[c].cursor,
                            ok |-> calls[c].ok, failed |-> calls[c].failed])
<1>1. CASE current # 0 /\ (calls[c].state # "running" \/ ~Sync!IsEmpty(queues[current]))
  BY <1>1, QueueIs DEF Sync!MarkReport
<1>2. CASE /\ ~(current # 0 /\ (calls[c].state # "running" \/ ~Sync!IsEmpty(queues[current])))
           /\ calls[c].state # "running"
  BY <1>2 DEF Sync!MarkReport
<1>3. CASE /\ ~(current # 0 /\ (calls[c].state # "running" \/ ~Sync!IsEmpty(queues[current])))
           /\ calls[c].state = "running"
  <2>1. /\ Sync!SetQueue(Sync!Queue)
        /\ Sync!Set(c, [at |-> "load report", queue |-> current', cursor |-> calls[c].cursor,
                        ok |-> calls[c].ok, failed |-> calls[c].failed])
    BY <1>3 DEF Sync!MarkReport
  <2>2. Sync!IsEmpty(Sync!Queue)
    BY <1>3, QueueIs, EmptyIs
  <2> QED
    BY <1>3, <2>1, <2>2, QueueIs, SetQueueDoes
<1> QED
  BY <1>1, <1>2, <1>3

LEMMA QueueTypes ==
  ASSUME Sync!SynchronizationAssumption, SyncTyped, NEW c \in Callers,
         \/ \E max \in 1..MaxOps : Sync!Dequeue(c, max)
         \/ Sync!LoadPull(c) \/ Sync!MarkReport(c) \/ Sync!LoadReport(c) \/ Sync!StopQueue(c) \/ Sync!Rebuild(c)
  PROVE  SyncTyped'
<1>1. /\ calls[c] \in SyncCalls /\ Holds(calls[c], queues)
      /\ queues \in Seq(SyncQueues) /\ Len(queues) \in 1..MaxQueues
      /\ current \in 0..Len(queues)
      /\ calls[c].at \in {"load pull", "load report"} => queues[calls[c].queue] \in SyncQueues
  BY EnoughRoom DEF SyncTyped, Holds
<1>2. ASSUME NEW max \in 1..MaxOps, Sync!Dequeue(c, max) PROVE SyncTyped'
  <2>1. UNCHANGED <<session, advanced, applied, restarts>> /\ calls[c].cursor \in 0..MaxOps
    BY <1>1, <1>2, SyncCallTyped DEF Sync!Dequeue, Sync!Elsewhere, Sync!At
  <2>2. CASE /\ current \in DOMAIN queues /\ queues[current] \in SyncQueues
             /\ Sync!Give(c, current, queues[current], max) /\ current' = current
    BY <2>1, <2>2, GiveTypes
  <2>3. CASE /\ Puts(current', Sync!Queue) /\ current' \in DOMAIN queues'
             /\ Sync!Set(c, [at |-> "load pull", queue |-> current', cursor |-> calls[c].cursor,
                             max |-> max])
    <3>1. current' \in 1..Len(queues') /\ current' \in Nat /\ current' \in 0..Len(queues')
      BY <2>3, PutsMeans, Zenon
    <3>2. \A n \in 0..MaxOps, j \in Nat :
            [at |-> "load pull", queue |-> j, cursor |-> n, max |-> max] \in SyncCalls
      BY DEF SyncCalls
    <3>3. [at |-> "load pull", queue |-> current', cursor |-> calls[c].cursor, max |-> max]
            \in SyncCalls
      BY <2>1, <3>1, <3>2
    <3>4. Holds([at |-> "load pull", queue |-> current', cursor |-> calls[c].cursor,
                 max |-> max], queues')
      BY <2>3 DEF Holds
    <3> QED
      BY <2>1, <2>3, <3>1, <3>3, <3>4, PutTypes
  <2> QED
    BY <1>2, <2>2, <2>3, DequeueDoes
<1>3. ASSUME Sync!LoadPull(c) PROVE SyncTyped'
  <2>1. /\ calls[c].at = "load pull"
        /\ calls[c].queue \in DOMAIN queues /\ calls[c].cursor \in 0..MaxOps
        /\ calls[c].max \in 1..MaxOps
        /\ UNCHANGED <<session, current, advanced, applied, restarts>>
        /\ Sync!Give(c, calls[c].queue, Sync!Reloaded(queues[calls[c].queue], calls[c].cursor),
                     calls[c].max)
    BY <1>1, <1>3, SyncCallTyped DEF Sync!LoadPull, Sync!Elsewhere, Sync!At, Holds
  <2>2. Sync!Reloaded(queues[calls[c].queue], calls[c].cursor) \in SyncQueues
    BY <1>1, <2>1, ReloadedIs
  <2> QED
    BY <2>1, <2>2, GiveTypes
<1>4. ASSUME Sync!LoadReport(c) PROVE SyncTyped'
  <2>1. /\ calls[c].at = "load report"
        /\ calls[c].queue \in DOMAIN queues /\ calls[c].cursor \in 0..MaxOps
        /\ UNCHANGED <<session, current, advanced, applied, restarts>>
        /\ Sync!Mark(c, calls[c].queue, Sync!Reloaded(queues[calls[c].queue], calls[c].cursor))
    BY <1>1, <1>4, SyncCallTyped DEF Sync!LoadReport, Sync!Elsewhere, Sync!At, Holds
  <2>2. Sync!Reloaded(queues[calls[c].queue], calls[c].cursor) \in SyncQueues
    BY <1>1, <2>1, ReloadedIs
  <2> QED
    BY <1>1, <2>1, <2>2, MarkTypes, OldPlace
<1>5. ASSUME Sync!MarkReport(c) PROVE SyncTyped'
  <2>1. UNCHANGED <<session, advanced, applied, restarts>> /\ calls[c].at = "mark"
        /\ calls[c].cursor \in 0..MaxOps
        /\ calls[c].ok \in SUBSET Sync!Ops /\ calls[c].failed \in SUBSET Sync!Ops
    BY <1>1, <1>5, SyncCallTyped DEF Sync!MarkReport, Sync!Elsewhere, Sync!At
  <2>2. CASE /\ current \in DOMAIN queues /\ queues[current] \in SyncQueues
             /\ Sync!Mark(c, current, queues[current]) /\ current' = current
    BY <1>1, <2>1, <2>2, MarkTypes, OldPlace
  <2>3. CASE /\ Len(queues) < MaxQueues /\ current' = Len(queues) + 1
             /\ Sync!Mark(c, current', Sync!EmptyQueue)
    <3>1. Sync!Mark(c, Len(queues) + 1, Sync!EmptyQueue) /\ Len(queues) + 1 \in 1..(Len(queues) + 1)
          /\ Len(queues) + 1 \notin DOMAIN queues
      BY <2>3, EnoughRoom
    <3> QED
      BY <2>1, <2>3, <3>1, MarkTypes, EmptyIs
  <2>4. CASE /\ Puts(current', Sync!Queue) /\ current' \in DOMAIN queues'
             /\ Sync!Set(c, [at |-> "load report", queue |-> current', cursor |-> calls[c].cursor,
                             ok |-> calls[c].ok, failed |-> calls[c].failed])
    <3>1. current' \in 1..Len(queues') /\ current' \in Nat /\ current' \in 0..Len(queues')
      BY <2>4, PutsMeans, Zenon
    <3>2. \A n \in 0..MaxOps, j \in Nat, S \in SUBSET Sync!Ops, T \in SUBSET Sync!Ops :
            [at |-> "load report", queue |-> j, cursor |-> n, ok |-> S, failed |-> T]
              \in SyncCalls
      BY DEF SyncCalls
    <3>3. [at |-> "load report", queue |-> current', cursor |-> calls[c].cursor,
           ok |-> calls[c].ok, failed |-> calls[c].failed] \in SyncCalls
      BY <2>1, <3>1, <3>2
    <3>4. Holds([at |-> "load report", queue |-> current', cursor |-> calls[c].cursor,
                 ok |-> calls[c].ok, failed |-> calls[c].failed], queues')
      BY <2>4 DEF Holds
    <3> QED
      BY <2>1, <2>4, <3>1, <3>3, <3>4, PutTypes
  <2> QED
    BY <1>5, <2>2, <2>3, <2>4, MarkReportDoes
<1>6. {"running", "paused"} \subseteq SyncStates
  BY DEF SyncStates
<1>7. ASSUME NEW from \in SyncStates, NEW to \in SyncStates
      PROVE Sync!Writing(from, to) \in SyncCalls /\ Holds(Sync!Writing(from, to), queues')
  BY DEF Sync!Writing, SyncCalls, Holds
<1>8. ASSUME Sync!StopQueue(c) PROVE SyncTyped'
  <2>1. [Sync!Queue EXCEPT !.paused = TRUE] \in SyncQueues
    BY QueueIs DEF SyncQueues
  <2>2. Puts(current', [Sync!Queue EXCEPT !.paused = TRUE]) /\ current' \in DOMAIN queues'
    BY <1>8, <2>1, SetQueueDoes DEF Sync!StopQueue
  <2>3. current' \in 0..Len(queues')
    BY <2>2 DEF Puts
  <2> QED
    BY <1>6, <1>7, <1>8, <2>2, <2>3, PutTypes DEF Sync!StopQueue, Sync!Elsewhere
<1>9. ASSUME Sync!Rebuild(c) PROVE SyncTyped'
  <2>1. Sync!Loaded(Sync!EmptyQueue, calls[c].cursor) \in SyncQueues
    BY <1>1, <1>9, SyncCallTyped, EmptyIs, LoadedIs DEF Sync!Rebuild, Sync!At
  <2>2. Puts(current', Sync!Loaded(Sync!EmptyQueue, calls[c].cursor)) /\ current' \in DOMAIN queues'
    BY <1>9, <2>1, SetQueueDoes DEF Sync!Rebuild
  <2>3. current' \in 0..Len(queues')
    BY <2>2 DEF Puts
  <2> QED
    BY <1>6, <1>7, <1>9, <2>2, <2>3, PutTypes DEF Sync!Rebuild, Sync!Elsewhere
<1> QED
  BY <1>2, <1>3, <1>4, <1>5, <1>8, <1>9

LEMMA SyncTypesStep ==
  ASSUME Sync!SynchronizationAssumption, SyncTyped, [Sync!Next]_Sync!vars
  PROVE  SyncTyped'
<1>1. ASSUME NEW c \in Callers, Calling(c) PROVE SyncTyped'
  BY <1>1, SmallTypes, QueueTypes DEF Calling
<1>2. ASSUME Sync!Lapse PROVE SyncTyped'
  BY <1>2 DEF Sync!Lapse, SyncTyped, Sync!Elsewhere
<1>3. ASSUME Sync!Restart PROVE SyncTyped'
  <2>1. /\ calls' \in [Callers -> SyncCalls]
        /\ \A c \in Callers : calls'[c] \in {calls[c], Sync!Idle}
    BY <1>3 DEF Sync!Restart, SyncTyped, Sync!Idle, SyncCalls
  <2>4. Holds(Sync!Idle, queues)
    BY DEF Holds, Sync!Idle
  <2>2. \A c \in Callers : Holds(calls'[c], queues)
    BY <2>1, <2>4 DEF SyncTyped
  <2>3. restarts' \in 0..MaxRestarts /\ current' \in 0..Len(queues)
    BY <1>3 DEF Sync!Restart, SyncTyped, Sync!SynchronizationAssumption
  <2> QED
    BY <1>3, <2>1, <2>2, <2>3 DEF Sync!Restart, SyncTyped
<1>4. ASSUME UNCHANGED Sync!vars PROVE SyncTyped'
  BY <1>4 DEF Sync!vars, SyncTyped
<1> QED
  BY <1>1, <1>2, <1>3, <1>4 DEF Sync!Next, Calling

LEMMA SyncTypesMean == SyncTyped => Sync!TypeOK
  BY EnoughRoom DEF SyncTyped, Sync!TypeOK, SyncStates, SyncQueues

\* The session, its queues and the requests keep their types, for any plan and
\* any requests, failures, restarts and drains.
THEOREM SessionsTyped == Sync!SynchronizationAssumption /\ Sync!Spec => []Sync!TypeOK
<1> SUFFICES ASSUME Sync!SynchronizationAssumption PROVE Sync!Spec => []Sync!TypeOK
  OBVIOUS
<1>1. Sync!Init => SyncTyped
  BY InitSyncTypes
<1> QED
  BY <1>1, SyncTypesStep, SyncTypesMean, PTL DEF Sync!Spec

-----------------------------------------------------------------------------
(* One drain of a device that applies all it is given. *)

InDrain(call) == call.at \notin {"idle", "pause", "rebuild", "write"}

LEMMA CallStays ==
  ASSUME NEW r, NEW done, CallFits(r, done, queues), Holds(r, queues),
         \A k \in DOMAIN queues : Full(queues[k]) => Full(queues'[k])
  PROVE  CallFits(r, done, queues')
BY DEF CallFits, Holds

LEMMA DrainFrame ==
  ASSUME OneDrain, DrainInv, SyncTyped', NEW c \in Callers, NEW call \in SyncCalls,
         Sync!Set(c, call), applied' = applied,
         \A k \in DOMAIN queues : Full(queues[k]) => Full(queues'[k]),
         \A k \in DOMAIN queues' : QueueFits(queues'[k], applied, InHand'),
         CallFits(call, applied, queues'),
         InDrain(call) => c \in Sync!Draining \/ Sync!Draining = {},
         1..session'.cursor \subseteq applied, advanced' => applied = Sync!Ops,
         MayPause = FALSE => session'.state # "paused",
         MayPause = TRUE =>
           /\ session'.lapsed = FALSE
           /\ applied = Sync!Ops \/ (current' = 1 /\ Full(queues'[1]) /\ session'.state \notin Sync!Terminal)
  PROVE  DrainInv'
<1>1. /\ calls'[c] = call /\ \A d \in Callers \ {c} : calls'[d] = calls[d]
      /\ \A d \in Callers : CallFits(calls[d], applied, queues) /\ Holds(calls[d], queues)
  BY DEF DrainInv, SyncTyped, Sync!Set
<1>2. \A d \in Callers : CallFits(calls'[d], applied, queues')
  BY <1>1, CallStays
<1>3. \A d, e \in Sync!Draining' : d = e
  BY <1>1 DEF DrainInv, Sync!Draining, Sync!At, InDrain
<1> QED
  BY <1>2, <1>3 DEF DrainInv

LEMMA HandsStay ==
  ASSUME SyncTyped, NEW c \in Callers, NEW call, Sync!Set(c, call), calls[c].at # "apply",
         call.at # "apply"
  PROVE  InHand' = InHand
<1>1. calls'[c] = call /\ \A d \in Callers \ {c} : calls'[d] = calls[d]
  BY DEF SyncTyped, Sync!Set
<1> QED
  BY <1>1 DEF InHand, Sync!At

\* A step of a request that changes nothing but the request and the session.
LEMMA DrainRests ==
  ASSUME OneDrain, DrainInv, SyncTyped', NEW c \in Callers, NEW call \in SyncCalls,
         Sync!Set(c, call), queues' = queues, applied' = applied,
         calls[c].at # "apply", call.at # "apply",
         CallFits(call, applied, queues),
         InDrain(call) => c \in Sync!Draining \/ Sync!Draining = {},
         1..session'.cursor \subseteq applied, advanced' => applied = Sync!Ops,
         MayPause = FALSE => session'.state # "paused",
         MayPause = TRUE =>
           /\ session'.lapsed = FALSE
           /\ applied = Sync!Ops \/ (current' = current /\ session'.state \notin Sync!Terminal)
  PROVE  DrainInv'
<1>1. InHand' = InHand
  BY HandsStay DEF DrainInv
<1>2. \A k \in DOMAIN queues' : QueueFits(queues'[k], applied, InHand')
  BY <1>1 DEF DrainInv
<1>3. MayPause = TRUE =>
        /\ session'.lapsed = FALSE
        /\ applied = Sync!Ops \/ (current' = 1 /\ Full(queues'[1]) /\ session'.state \notin Sync!Terminal)
  BY DEF DrainInv
<1> QED
  BY <1>2, <1>3, DrainFrame

LEMMA NoDrain ==
  ASSUME OneDrain, DrainInv, Cardinality(Sync!Draining) < Drains
  PROVE  Sync!Draining = {}
<1> SUFFICES ASSUME NEW c \in Sync!Draining PROVE FALSE
  OBVIOUS
<1>1. Sync!Draining = {c}
  BY DEF DrainInv
<1>2. Cardinality({c}) = 1
  BY FS_Singleton
<1> QED
  BY <1>1, <1>2 DEF OneDrain

LEMMA DrainsOfInv ==
  ASSUME OneDrain, DrainInv, NEW c \in Callers
  PROVE  /\ calls[c] \in SyncCalls /\ CallFits(calls[c], applied, queues)
         /\ Holds(calls[c], queues)
         /\ session \in [state : SyncStates, cursor : 0..MaxOps, lapsed : BOOLEAN]
         /\ Closed(applied) /\ 1..session.cursor \subseteq applied
         /\ advanced => applied = Sync!Ops
         /\ MayPause = FALSE => session.state # "paused"
         /\ MayPause = TRUE =>
              /\ session.lapsed = FALSE
              /\ applied = Sync!Ops \/ (current = 1 /\ Full(queues[1]) /\ session.state \notin Sync!Terminal)
         /\ InDrain(calls[c]) => c \in Sync!Draining
BY DEF DrainInv, SyncTyped, Sync!Draining, InDrain, Sync!At

LEMMA DrainSmall ==
  ASSUME Sync!SynchronizationAssumption, OneDrain, DrainInv, SyncTyped', NEW c \in Callers,
         \/ Sync!Pull(c) \/ Sync!Report(c) \/ Sync!StoreProgress(c) \/ Sync!Check(c) \/ Sync!Advance(c)
         \/ Sync!Pause(c) \/ Sync!Resume(c) \/ Sync!Cancel(c) \/ Sync!Expire(c) \/ Sync!Write(c)
  PROVE  DrainInv'
<1>1. /\ calls[c] \in SyncCalls /\ CallFits(calls[c], applied, queues)
      /\ Holds(calls[c], queues)
      /\ session \in [state : SyncStates, cursor : 0..MaxOps, lapsed : BOOLEAN]
      /\ 1..session.cursor \subseteq applied
      /\ advanced => applied = Sync!Ops
      /\ MayPause = FALSE => session.state # "paused"
      /\ MayPause = TRUE =>
           /\ session.lapsed = FALSE
           /\ applied = Sync!Ops \/ (current = 1 /\ session.state \notin Sync!Terminal)
      /\ InDrain(calls[c]) => c \in Sync!Draining
  BY DrainsOfInv
<1>2. ASSUME NEW call \in SyncCalls, Sync!Set(c, call), calls[c].at # "apply",
             call.at # "apply",
             CallFits(call, applied, queues),
             InDrain(call) => c \in Sync!Draining \/ Sync!Draining = {},
             UNCHANGED <<session, queues, current, advanced, applied>>
      PROVE DrainInv'
  BY <1>1, <1>2, DrainRests
<1>3. Sync!Idle \in SyncCalls /\ CallFits(Sync!Idle, applied, queues) /\ ~InDrain(Sync!Idle) /\ Sync!Idle.at = "idle"
  BY DEF Sync!Idle, SyncCalls, CallFits, InDrain
<1>4. ASSUME Sync!Pull(c) PROVE DrainInv'
  <2>1. /\ [at |-> "pull", cursor |-> session.cursor] \in SyncCalls
        /\ CallFits([at |-> "pull", cursor |-> session.cursor], applied, queues)
    BY <1>1 DEF SyncCalls, CallFits
  <2>2. Sync!Draining = {}
    BY <1>4, NoDrain, SameCount DEF Sync!Pull
  <2> QED
    BY <1>2, <1>4, <2>1, <2>2 DEF Sync!Pull, Sync!Elsewhere, Sync!At
<1>5. ASSUME Sync!Report(c) PROVE DrainInv'
  <2>1. /\ calls[c].ok \in SUBSET Sync!Ops /\ calls[c].failed \in SUBSET Sync!Ops
        /\ calls[c].at = "report" /\ c \in Sync!Draining
    BY <1>1, <1>5, SyncCallTyped DEF Sync!Report, Sync!At, InDrain
  <2>2. PICK mark : mark = [at |-> "mark", ok |-> calls[c].ok, failed |-> calls[c].failed,
                            state |-> session.state, cursor |-> session.cursor]
    OBVIOUS
  <2>3. mark \in SyncCalls /\ mark.at = "mark"
    BY <1>1, <2>1, <2>2 DEF SyncCalls
  <2>4. CASE session.state \in Sync!Terminal \/ session.lapsed
    <3>1. Sync!Set(c, Sync!Idle)
      BY <1>5, <2>4 DEF Sync!Report
    <3> QED
      BY <1>2, <1>3, <1>5, <2>1, <3>1 DEF Sync!Report, Sync!Elsewhere
  <2>5. CASE ~(session.state \in Sync!Terminal \/ session.lapsed)
    <3>1. Sync!Set(c, mark)
      BY <1>5, <2>2, <2>5 DEF Sync!Report
    <3>2. MayPause = FALSE => session.state = "running"
      BY <1>1, <2>5 DEF SyncStates
    <3>3. CallFits(mark, applied, queues)
      BY <1>1, <2>1, <2>2, <3>2 DEF CallFits
    <3> QED
      BY <1>2, <1>5, <2>1, <2>3, <3>1, <3>3 DEF Sync!Report, Sync!Elsewhere
  <2> QED
    BY <2>4, <2>5
<1>6. ASSUME Sync!StoreProgress(c) PROVE DrainInv'
  <2>1. /\ calls[c].cursor \in 0..MaxOps /\ calls[c].at = "store" /\ c \in Sync!Draining
        /\ calls[c].queue \in DOMAIN queues /\ calls[c].queue \in Nat
    BY <1>1, <1>6, SyncCallTyped DEF Sync!StoreProgress, Sync!At, InDrain, Holds
  <2>2. PICK check : check = [at |-> "check", queue |-> calls[c].queue, state |-> session.state]
    OBVIOUS
  <2>3. check \in SyncCalls /\ check.at = "check"
    BY <1>1, <2>1, <2>2 DEF SyncCalls
  <2>4. CallFits(check, applied, queues)
    BY <1>1, <2>1, <2>2 DEF CallFits
  <2>5. /\ session'.cursor = calls[c].cursor /\ session'.state = session.state
        /\ session'.lapsed = session.lapsed
    BY <1>1, <1>6 DEF Sync!StoreProgress
  <2>6. 1..session'.cursor \subseteq applied
    BY <1>1, <2>1, <2>5 DEF CallFits
  <2> QED
    BY <1>1, <1>6, <2>1, <2>2, <2>3, <2>4, <2>5, <2>6, DrainRests
       DEF Sync!StoreProgress, Sync!Elsewhere
<1>7. ASSUME NEW from \in SyncStates, NEW to \in SyncStates
      PROVE  Sync!Writing(from, to) \in SyncCalls /\ Sync!Writing(from, to).at = "write"
             /\ Sync!Writing(from, to).to = to /\ ~InDrain(Sync!Writing(from, to))
  BY DEF Sync!Writing, SyncCalls, InDrain
<1>8. {"running", "paused", "failed", "completed", "cancelled", "expired"} \subseteq SyncStates
  BY DEF SyncStates, Sync!Terminal
<1>9. ASSUME NEW from \in SyncStates, NEW to \in SyncStates,
             MayPause = FALSE => to # "paused",
             MayPause = TRUE => to \in {"running", "paused"} \/ applied = Sync!Ops
      PROVE  CallFits(Sync!Writing(from, to), applied, queues)
  <2> DEFINE w == Sync!Writing(from, to)
  <2>1. w.at = "write" /\ w.to = to
    BY <1>7
  <2> HIDE DEF w
  <2> QED
    BY <1>9, <2>1 DEF CallFits, w
<1>10. ASSUME Sync!Check(c) PROVE DrainInv'
  <2>1. /\ calls[c].state \in SyncStates /\ calls[c].at = "check" /\ c \in Sync!Draining
        /\ calls[c].queue \in DOMAIN queues
    BY <1>1, <1>10, SyncCallTyped DEF Sync!Check, Sync!At, InDrain, Holds
  <2>2. PICK q : q = queues[calls[c].queue]
    OBVIOUS
  <2>3. QueueFits(q, applied, InHand) /\ applied \in SUBSET Sync!Ops
        /\ (Full(q) \/ applied = Sync!Ops)
    BY <1>1, <2>1, <2>2 DEF DrainInv, CallFits, SyncTyped
  <2>4. CASE Sync!IsComplete(q)
    <3>1. applied = Sync!Ops
      BY <2>3, <2>4 DEF Sync!IsComplete, QueueFits, Full
    <3>2. PICK call : call = [at |-> "advance", state |-> calls[c].state]
      OBVIOUS
    <3>3. call \in SyncCalls /\ call.at = "advance"
      BY <2>1, <3>2 DEF SyncCalls
    <3>4. CallFits(call, applied, queues)
      BY <3>1, <3>3 DEF CallFits
    <3>5. Sync!Set(c, call)
      BY <1>10, <2>2, <2>4, <3>2 DEF Sync!Check
    <3> QED
      BY <1>2, <1>10, <2>1, <3>3, <3>4, <3>5 DEF Sync!Check, Sync!Elsewhere
  <2>5. CASE ~Sync!IsComplete(q)
    <3>1. \A o \in Sync!Ops : ~Sync!Exhausted(q, o)
      BY <2>3 DEF QueueFits, Sync!Exhausted, Sync!SynchronizationAssumption
    <3>2. Sync!Set(c, Sync!Idle)
      BY <1>10, <2>2, <2>5, <3>1 DEF Sync!Check
    <3> QED
      BY <1>2, <1>3, <1>10, <2>1, <3>2 DEF Sync!Check, Sync!Elsewhere
  <2> QED
    BY <2>4, <2>5
<1>11. ASSUME Sync!Advance(c) PROVE DrainInv'
  <2>1. calls[c].state \in SyncStates /\ calls[c].at = "advance" /\ applied = Sync!Ops
    BY <1>1, <1>11, SyncCallTyped DEF Sync!Advance, Sync!At, CallFits
  <2>2. PICK call : Sync!Set(c, call) /\ call \in {Sync!Writing(calls[c].state, "completed"), Sync!Idle}
    BY <1>11 DEF Sync!Advance
  <2>3. call \in SyncCalls /\ CallFits(call, applied, queues) /\ ~InDrain(call)
        /\ call.at # "apply"
    <3>1. "completed" \in SyncStates /\ "completed" # "paused"
      BY <1>8
    <3>2. CallFits(Sync!Writing(calls[c].state, "completed"), applied, queues)
      BY <1>9, <2>1, <3>1
    <3>3. /\ Sync!Writing(calls[c].state, "completed") \in SyncCalls
          /\ Sync!Writing(calls[c].state, "completed").at = "write"
          /\ ~InDrain(Sync!Writing(calls[c].state, "completed"))
      BY <1>7, <2>1, <3>1
    <3> QED
      BY <1>3, <2>2, <3>2, <3>3
  <2> QED
    BY <1>1, <1>11, <2>1, <2>2, <2>3, DrainRests DEF Sync!Advance
<1>12. ASSUME Sync!Pause(c) PROVE DrainInv'
  <2>1. PICK call : call = [at |-> "pause"]
    OBVIOUS
  <2>2. call \in SyncCalls /\ ~InDrain(call) /\ call.at = "pause"
    BY <2>1 DEF SyncCalls, InDrain
  <2>3. MayPause # FALSE
    BY <1>12 DEF Sync!Pause
  <2>4. CallFits(call, applied, queues)
    BY <2>2, <2>3 DEF CallFits
  <2> QED
    BY <1>2, <1>12, <2>1, <2>2, <2>4 DEF Sync!Pause, Sync!Elsewhere, Sync!At
<1>13. ASSUME Sync!Resume(c) PROVE DrainInv'
  <2>1. PICK call : call = [at |-> "rebuild", cursor |-> session.cursor]
    OBVIOUS
  <2>2. call \in SyncCalls /\ ~InDrain(call) /\ call.at = "rebuild"
    BY <1>1, <2>1 DEF SyncCalls, InDrain
  <2>3. MayPause # FALSE
    BY <1>13 DEF Sync!Resume
  <2>4. CallFits(call, applied, queues)
    BY <1>1, <2>1, <2>2, <2>3 DEF CallFits
  <2> QED
    BY <1>2, <1>13, <2>1, <2>2, <2>4 DEF Sync!Resume, Sync!Elsewhere, Sync!At
<1>14. ASSUME Sync!Cancel(c) \/ Sync!Expire(c) PROVE DrainInv'
  <2>1. PICK to \in {"cancelled", "expired"} : Sync!Set(c, Sync!Writing(session.state, to))
    BY <1>14 DEF Sync!Cancel, Sync!Expire
  <2>2. calls[c].at = "idle" /\ (MayPause = TRUE => applied = Sync!Ops)
    BY <1>1, <1>14 DEF Sync!Cancel, Sync!Expire, Sync!At, OneDrain
  <2>3. /\ Sync!Writing(session.state, to) \in SyncCalls
        /\ Sync!Writing(session.state, to).at = "write" /\ ~InDrain(Sync!Writing(session.state, to))
        /\ CallFits(Sync!Writing(session.state, to), applied, queues)
    <3>1. session.state \in SyncStates /\ to \in SyncStates /\ to # "paused"
      BY <1>1, <1>8
    <3>2. CallFits(Sync!Writing(session.state, to), applied, queues)
      BY <1>9, <2>2, <3>1
    <3> QED
      BY <1>7, <3>1, <3>2
  <2> QED
    BY <1>2, <1>14, <2>1, <2>2, <2>3 DEF Sync!Cancel, Sync!Expire, Sync!Elsewhere
<1>15. ASSUME Sync!Write(c) PROVE DrainInv'
  <2>1. calls[c].to \in SyncStates /\ calls[c].at = "write"
    BY <1>1, <1>15, SyncCallTyped DEF Sync!Write, Sync!At
  <2>2. /\ session'.state = calls[c].to /\ session'.lapsed = session.lapsed
        /\ session'.cursor = session.cursor
        /\ Sync!Set(c, Sync!Idle) /\ queues' = queues /\ applied' = applied /\ advanced' = advanced
        /\ current' = IF calls[c].to \in Sync!Terminal THEN 0 ELSE current
    BY <1>1, <1>15 DEF Sync!Write, Sync!Elsewhere
  <2>3. MayPause = FALSE => session'.state # "paused"
    BY <1>1, <2>1, <2>2 DEF CallFits
  <2>4. MayPause = TRUE =>
           /\ session'.lapsed = FALSE
           /\ applied = Sync!Ops \/ (current' = current /\ session'.state \notin Sync!Terminal)
    BY <1>1, <2>1, <2>2 DEF CallFits, Sync!Terminal
  <2> QED
    BY <1>1, <1>3, <2>1, <2>2, <2>3, <2>4, DrainRests
<1> QED
  BY <1>4, <1>5, <1>6, <1>10, <1>11, <1>12, <1>13, <1>14, <1>15

LEMMA HandedLow ==
  ASSUME Sync!SynchronizationAssumption, NEW q \in SyncQueues, NEW max \in 1..MaxOps,
         ~q.paused, NEW o \in Sync!Handed(q, max),
         NEW r \in Sync!Ops, r < o, q.ops[r] = "pending"
  PROVE  r \in Sync!Handed(q, max)
<1> DEFINE ready == {x \in Sync!Ops : \/ q.ops[x] = "pending"
                                      \/ q.ops[x] = "failed" /\ ~Sync!Exhausted(q, x)}
           below(x) == {y \in ready : y < x}
<1>1. Sync!Handed(q, max) = {x \in ready : Cardinality(below(x)) < max}
  BY SameCount DEF Sync!Handed
<1>2. r \in ready /\ o \in ready /\ Cardinality(below(o)) < max
  BY <1>1
<1>3. below(r) \subseteq below(o) /\ below(o) \in SUBSET Sync!Ops /\ below(r) \in SUBSET Sync!Ops
  BY <1>2 DEF Sync!Ops, Sync!SynchronizationAssumption
<1> HIDE DEF below, ready
<1>4. /\ IsFiniteSet(below(o)) /\ Cardinality(below(o)) \in 0..MaxOps
      /\ Cardinality(below(r)) \in 0..MaxOps
  BY <1>3, CountTyped
<1>5. Cardinality(below(r)) <= Cardinality(below(o))
  BY <1>3, <1>4, FS_Subset
<1> QED
  BY <1>1, <1>2, <1>4, <1>5

LEMMA ClosedCount ==
  ASSUME Sync!SynchronizationAssumption, NEW S \in SUBSET Sync!Ops, Closed(S),
         NEW T \in SUBSET S
  PROVE  1..Cardinality(T) \subseteq S
<1>1. /\ IsFiniteSet(S) /\ Cardinality(S) \in 0..MaxOps /\ Cardinality(T) \in 0..MaxOps
      /\ Cardinality(T) <= Cardinality(S)
  BY CountTyped, FS_Subset
<1> SUFFICES ASSUME NEW o \in 1..Cardinality(T), o \notin S PROVE FALSE
  OBVIOUS
<1>2. o \in Sync!Ops /\ o \in Nat /\ o >= 1 /\ o <= Cardinality(S)
  BY <1>1 DEF Sync!Ops, Sync!SynchronizationAssumption
<1>3. S \in SUBSET (1..(o - 1))
  BY <1>2 DEF Closed, Sync!Ops
<1>4. IsFiniteSet(1..(o - 1)) /\ Cardinality(1..(o - 1)) = o - 1
  BY <1>2, FS_Interval
<1>5. Cardinality(S) <= o - 1
  BY <1>3, <1>4, FS_Subset
<1> QED
  BY <1>1, <1>2, <1>5

\* What a queue hands out next goes on where the device is.
LEMMA HandedGoesOn ==
  ASSUME Sync!SynchronizationAssumption, NEW q \in SyncQueues, NEW max \in 1..MaxOps,
         applied \in SUBSET Sync!Ops, Closed(applied), Full(q), QueueFits(q, applied, {})
  PROVE  Closed(applied \cup Sync!Handed(q, max))
<1> SUFFICES ASSUME NEW o \in applied \cup Sync!Handed(q, max), NEW r \in Sync!Ops, r < o
             PROVE  r \in applied \cup Sync!Handed(q, max)
  BY DEF Closed
<1>1. CASE o \in applied
  BY <1>1 DEF Closed
<1>2. CASE o \in Sync!Handed(q, max) /\ r \notin applied
  <2>1. ~q.paused
    BY <1>2 DEF Sync!Handed
  <2>2. q.ops[r] = "pending"
    BY <1>2 DEF QueueFits, Full, SyncQueues, Sync!OpStates
  <2> QED
    BY <1>2, <2>1, <2>2, HandedLow
<1> QED
  BY <1>1, <1>2


LEMMA DrainApplies ==
  ASSUME Sync!SynchronizationAssumption, OneDrain, DrainInv, SyncTyped', NEW c \in Callers,
         NEW ok \in SUBSET Sync!Ops, Sync!Apply(c, ok)
  PROVE  DrainInv'
<1>1. /\ calls[c] \in SyncCalls /\ CallFits(calls[c], applied, queues)
      /\ calls[c].at = "apply" /\ calls[c].ops \in SUBSET Sync!Ops /\ c \in Sync!Draining
  BY DrainsOfInv, SyncCallTyped DEF Sync!Apply, Sync!At, InDrain
<1>2. /\ ok = calls[c].ops /\ applied' = applied \cup ok
      /\ UNCHANGED <<session, queues, current, advanced>>
  BY DEF Sync!Apply, OneDrain
<1>3. PICK call : call = [at |-> "report", ok |-> ok, failed |-> calls[c].ops \ ok]
  OBVIOUS
<1>4. call.at = "report" /\ call.ok = ok /\ call.failed = {}
  BY <1>2, <1>3
<1>5. /\ calls'[c] = call /\ \A d \in Callers \ {c} : calls'[d] = calls[d]
      /\ calls \in [Callers -> SyncCalls]
  BY <1>3 DEF Sync!Apply, Sync!Set, DrainInv, SyncTyped
<1>6. \A d \in Callers \ {c} : calls[d].at \in {"idle", "pause", "rebuild", "write"}
  BY <1>1 DEF DrainInv, Sync!Draining, Sync!At
<1>7. InHand \subseteq InHand' \cup ok
  BY <1>2, <1>5 DEF InHand, Sync!At
<1>8. applied \subseteq applied' /\ Closed(applied')
  BY <1>1, <1>2 DEF CallFits
<1>9. \A k \in DOMAIN queues' : QueueFits(queues'[k], applied', InHand')
  BY <1>2, <1>7, <1>8 DEF DrainInv, QueueFits
<1>10. CallFits(call, applied', queues')
  BY <1>2, <1>4 DEF CallFits
<1>11. \A d \in Callers : CallFits(calls'[d], applied', queues')
  <2> SUFFICES ASSUME NEW d \in Callers \ {c} PROVE CallFits(calls'[d], applied', queues')
    BY <1>5, <1>10
  <2>1. CallFits(calls[d], applied, queues) /\ calls'[d] = calls[d]
    BY <1>5 DEF DrainInv
  <2>2. applied' \subseteq Sync!Ops
    BY DEF SyncTyped
  <2> QED
    BY <1>6, <1>8, <2>1, <2>2 DEF CallFits
<1>12. \A d, e \in Sync!Draining' : d = e
  BY <1>1, <1>5, <1>6 DEF Sync!Draining, Sync!At
<1>13. applied' \subseteq Sync!Ops /\ applied \subseteq Sync!Ops
  BY DEF SyncTyped, DrainInv
<1> QED
  BY <1>2, <1>8, <1>9, <1>11, <1>12, <1>13 DEF DrainInv

\* Not what a request at a queue changes.
Still == UNCHANGED <<session, advanced, applied>>
StillHere == Still /\ current' = current

\* The request at a queue puts one in place that fits, and works on.
LEMMA DrainPuts ==
  ASSUME OneDrain, DrainInv, SyncTyped', NEW c \in Callers, NEW call \in SyncCalls,
         Sync!Set(c, call), NEW k, NEW q, Puts(k, q),
         Still,
         k \in DOMAIN queues => (Full(queues[k]) => Full(q)),
         InHand \subseteq InHand', QueueFits(q, applied, InHand'),
         CallFits(call, applied, queues'),
         InDrain(call) => c \in Sync!Draining,
         applied = Sync!Ops \/ current' = current \/ MayPause = FALSE
  PROVE  DrainInv'
<1>1. \A j \in DOMAIN queues : Full(queues[j]) => Full(queues'[j])
  BY DEF Puts
<1>2. \A j \in DOMAIN queues' : QueueFits(queues'[j], applied, InHand')
  BY DEF Puts, DrainInv, QueueFits
<1>3. 1 \in DOMAIN queues
  BY EnoughRoom DEF DrainInv
<1>4. MayPause = TRUE =>
        /\ session'.lapsed = FALSE
        /\ applied = Sync!Ops \/ (current' = 1 /\ Full(queues'[1]) /\ session'.state \notin Sync!Terminal)
  BY <1>1, <1>3 DEF DrainInv, Still
<1>5. 1..session'.cursor \subseteq applied /\ (advanced' => applied = Sync!Ops)
      /\ (MayPause = FALSE => session'.state # "paused") /\ applied' = applied
  BY DEF DrainInv, Still
<1> QED
  BY <1>1, <1>2, <1>4, <1>5, DrainFrame

\* What the queue is after it handed out, or was marked.
IsTaken(new, q, out) ==
  \A o \in Sync!Ops : /\ new.ops[o] = IF o \in out THEN "handed" ELSE q.ops[o]
                      /\ new.tries[o] = q.tries[o]
IsMarked(new, q, ok, failed) ==
  \A o \in Sync!Ops :
    /\ new.ops[o] = IF q.ops[o] = "absent" THEN "absent"
                    ELSE IF o \in failed THEN "failed"
                    ELSE IF o \in ok THEN "applied" ELSE q.ops[o]
    /\ new.tries[o] = IF o \in failed /\ q.ops[o] # "absent" THEN q.tries[o] + 1
                      ELSE q.tries[o]

LEMMA TakenAs ==
  ASSUME NEW q \in SyncQueues, NEW out \in SUBSET Sync!Ops, NEW new, new = Taken(q, out)
  PROVE  IsTaken(new, q, out)
BY TakenIs DEF IsTaken

LEMMA MarkedAs ==
  ASSUME NEW q \in SyncQueues, NEW ok \in SUBSET Sync!Ops, NEW failed \in SUBSET Sync!Ops,
         NEW new, new = Sync!Marked(q, ok, failed)
  PROVE  IsMarked(new, q, ok, failed)
BY MarkedIs DEF IsMarked

LEMMA DrainGives ==
  ASSUME Sync!SynchronizationAssumption, OneDrain, DrainInv, SyncTyped', NEW c \in Callers,
         calls[c].at \in {"pull", "load pull"},
         NEW k \in DOMAIN queues, NEW q \in SyncQueues, NEW max \in 1..MaxOps,
         Full(q), QueueFits(q, applied, InHand),
         Sync!Give(c, k, q, max), StillHere
  PROVE  DrainInv'
<1>1. PICK out : out = Sync!Handed(q, max)
  OBVIOUS
<1>2. out \in SUBSET Sync!Ops /\ Closed(applied) /\ applied \in SUBSET Sync!Ops /\ c \in Sync!Draining
  BY <1>1, HandedIs DEF DrainInv, SyncTyped, Sync!Draining, Sync!At
<1>3. InHand = {}
  BY <1>2 DEF InHand, DrainInv, Sync!Draining, Sync!At
<1>4. Closed(applied \cup out)
  BY <1>1, <1>2, <1>3, HandedGoesOn
<1>5. PICK new : new = Taken(q, out)
  OBVIOUS
<1>6. IsTaken(new, q, out)
  BY <1>2, <1>5, TakenAs, Zenon
<1>7. Puts(k, new) /\ Sync!Set(c, IF out = {} THEN Sync!Idle ELSE [at |-> "apply", ops |-> out])
  BY <1>1, <1>5, GiveDoes DEF DrainInv
<1>8. PICK call : call = IF out = {} THEN Sync!Idle ELSE [at |-> "apply", ops |-> out]
  OBVIOUS
<1>9. call \in SyncCalls /\ CallFits(call, applied, queues')
  <2>1. CASE out = {}
    BY <1>8, <2>1 DEF Sync!Idle, SyncCalls, CallFits
  <2>2. CASE out # {}
    <3>1. call = [at |-> "apply", ops |-> out]
      BY <1>8, <2>2
    <3>2. call \in SyncCalls
      BY <1>2, <3>1 DEF SyncCalls
    <3> QED
      BY <1>4, <3>1, <3>2 DEF CallFits
  <2> QED
    BY <2>1, <2>2
<1>10. out \subseteq InHand'
  <2>1. SyncTyped /\ calls'[c] = call
    BY <1>7, <1>8 DEF Sync!Set, DrainInv, SyncTyped
  <2> SUFFICES ASSUME NEW o \in out PROVE o \in InHand'
    OBVIOUS
  <2>2. call = [at |-> "apply", ops |-> out]
    BY <1>8
  <2>3. calls'[c].at = "apply" /\ calls'[c].ops = out
    <3>1. call.at = "apply" /\ call.ops = out
      BY <2>2
    <3> QED
      BY <2>1, <3>1, Zenon
  <2> QED
    BY <1>2, <2>3 DEF InHand, Sync!At
<1>11. QueueFits(new, applied, InHand') /\ Full(new)
  BY <1>3, <1>6, <1>10 DEF QueueFits, Full, IsTaken
<1> QED
  BY <1>2, <1>3, <1>7, <1>8, <1>9, <1>11, DrainPuts DEF StillHere


LEMMA DrainMarks ==
  ASSUME Sync!SynchronizationAssumption, OneDrain, DrainInv, SyncTyped', NEW c \in Callers,
         calls[c].at \in {"mark", "load report"},
         NEW k \in 1..(Len(queues) + 1), k = Len(queues) + 1 => Len(queues) < MaxQueues,
         NEW q \in SyncQueues, QueueFits(q, applied, InHand), Full(q) \/ applied = Sync!Ops,
         k \in DOMAIN queues => (Full(queues[k]) => Full(q)), Sync!Mark(c, k, q), Still,
         applied = Sync!Ops \/ current' = current \/ MayPause = FALSE
  PROVE  DrainInv'
<1>1. /\ calls[c] \in SyncCalls /\ CallFits(calls[c], applied, queues) /\ c \in Sync!Draining
  BY DrainsOfInv DEF InDrain
<1>2. PICK ok \in SUBSET Sync!Ops : calls[c].ok = ok /\ ok \subseteq applied
  BY <1>1, SyncCallTyped DEF CallFits
<1>3. PICK failed \in SUBSET Sync!Ops : calls[c].failed = failed /\ failed = {}
  BY <1>1 DEF CallFits
<1>4. PICK new : new = Sync!Marked(q, ok, failed)
  OBVIOUS
<1>5. /\ new \in SyncQueues /\ Puts(k, new)
      /\ Sync!Applied(new) \in SUBSET Sync!Ops /\ Cardinality(Sync!Applied(new)) \in 0..MaxOps
      /\ Sync!Set(c, [at |-> "store", queue |-> k, cursor |-> Cardinality(Sync!Applied(new))])
  BY <1>2, <1>3, <1>4, MarkDoes DEF DrainInv
<1>6. IsMarked(new, q, ok, failed)
  BY <1>4, MarkedAs, Zenon
<1>7. PICK call : call = [at |-> "store", queue |-> k, cursor |-> Cardinality(Sync!Applied(new))]
  OBVIOUS
<1>8. Sync!Set(c, call) /\ call.at = "store" /\ call.queue = k
      /\ call.cursor = Cardinality(Sync!Applied(new))
  BY <1>5, <1>7
<1>9. InHand' = InHand
  BY <1>8, HandsStay DEF DrainInv
<1>10. (Full(q) => Full(new)) /\ QueueFits(new, applied, InHand')
  BY <1>2, <1>3, <1>6, <1>9 DEF Full, Sync!IsEmpty, QueueFits, IsMarked
<1>11. applied \in SUBSET Sync!Ops /\ Closed(applied)
  BY DEF DrainInv, SyncTyped
<1>12. 1..call.cursor \subseteq applied
  <2>1. Sync!Applied(new) \in SUBSET applied
    BY <1>10 DEF Sync!Applied, QueueFits
  <2> QED
    BY <1>8, <1>11, <2>1, ClosedCount
<1>13. queues'[k] = new
  BY <1>5 DEF Puts
<1>14. CallFits(call, applied, queues')
  BY <1>8, <1>10, <1>12, <1>13 DEF CallFits
<1>15. call \in SyncCalls
  <2>1. \A n \in 0..MaxOps, j \in Nat : [at |-> "store", queue |-> j, cursor |-> n] \in SyncCalls
    BY DEF SyncCalls
  <2>2. SyncTyped
    BY DEF DrainInv
  <2>3. k \in Nat
    BY <2>2, PlaceIs, Zenon
  <2> QED
    BY <1>5, <1>7, <2>1, <2>3
<1>16. k \in DOMAIN queues => (Full(queues[k]) => Full(new))
  BY <1>10
<1> QED
  BY <1>1, <1>5, <1>8, <1>9, <1>10, <1>14, <1>15, <1>16, DrainPuts

\* The queues that were made fit; one that is not empty has the whole plan.
LEMMA QueuesFit ==
  ASSUME Sync!SynchronizationAssumption, OneDrain, DrainInv
  PROVE  /\ \A k \in DOMAIN queues :
              queues[k] \in SyncQueues /\ QueueFits(queues[k], applied, InHand)
              /\ (Sync!IsEmpty(queues[k]) \/ Full(queues[k]))
         /\ Sync!Queue \in SyncQueues /\ QueueFits(Sync!Queue, applied, InHand)
         /\ QueueFits(Sync!EmptyQueue, applied, InHand)
         /\ current = 0 => MayPause = FALSE \/ applied = Sync!Ops
         /\ current # 0 => current \in DOMAIN queues
<1>1. \A k \in DOMAIN queues :
        queues[k] \in SyncQueues /\ QueueFits(queues[k], applied, InHand)
        /\ (Sync!IsEmpty(queues[k]) \/ Full(queues[k]))
  BY EnoughRoom DEF DrainInv, QueueFits
<1>2. QueueFits(Sync!EmptyQueue, applied, InHand)
  BY EmptyIs DEF QueueFits
<1>3. current = 0 => MayPause = FALSE \/ applied = Sync!Ops
  BY DEF DrainInv, OneDrain
<1> QED
  BY <1>1, <1>2, <1>3, QueueIs DEF DrainInv

LEMMA LoadedFits ==
  ASSUME NEW q \in SyncQueues, NEW n \in 0..MaxOps, NEW done, NEW hand, 1..n \subseteq done,
         Sync!SynchronizationAssumption
  PROVE  QueueFits(Sync!Loaded(q, n), done, hand) /\ Full(Sync!Loaded(q, n))
         /\ Sync!Loaded(q, n) \in SyncQueues
<1>1. \A o \in Sync!Ops : o <= n => o \in done
  BY DEF Sync!Ops, Sync!SynchronizationAssumption
<1> QED
  BY <1>1, LoadedIs DEF QueueFits, Full

LEMMA ReloadedFits ==
  ASSUME Sync!SynchronizationAssumption, OneDrain, DrainInv, NEW k \in DOMAIN queues,
         NEW n \in 0..MaxOps, 1..n \subseteq applied
  PROVE  LET q == Sync!Reloaded(queues[k], n)
         IN  q \in SyncQueues /\ Full(q) /\ QueueFits(q, applied, InHand)
BY QueuesFit, LoadedFits DEF Sync!Reloaded

\* A request that puts the session's queue in its place.
LEMMA DrainSets ==
  ASSUME Sync!SynchronizationAssumption, OneDrain, DrainInv, SyncTyped', NEW c \in Callers,
         NEW call \in SyncCalls, Sync!Set(c, call), calls[c].at # "apply", call.at # "apply",
         NEW q, Puts(current', q), Still,
         current = 0 => current' \notin DOMAIN queues, current # 0 => current' = current,
         QueueFits(q, applied, InHand), Full(Sync!Queue) => Full(q),
         CallFits(call, applied, queues'), InDrain(call) => c \in Sync!Draining
  PROVE  DrainInv'
<1>1. InHand' = InHand
  BY HandsStay DEF DrainInv
<1>2. current' \in DOMAIN queues => (Full(queues[current']) => Full(q))
  BY QueueIs DEF DrainInv
<1>3. applied = Sync!Ops \/ current' = current \/ MayPause = FALSE
  BY QueuesFit
<1> QED
  BY <1>1, <1>2, <1>3, DrainPuts

LEMMA NewPlace ==
  ASSUME SyncTyped, current = 0 => current' = Len(queues) + 1
  PROVE  current = 0 => current' \notin DOMAIN queues
BY EnoughRoom

LEMMA DrainDequeues ==
  ASSUME Sync!SynchronizationAssumption, OneDrain, DrainInv, SyncTyped', NEW c \in Callers,
         NEW max \in 1..MaxOps, Sync!Dequeue(c, max)
  PROVE  DrainInv'
<1>1. /\ calls[c] \in SyncCalls /\ CallFits(calls[c], applied, queues) /\ c \in Sync!Draining
      /\ calls[c].at = "pull" /\ calls[c].cursor \in 0..MaxOps /\ Still /\ SyncTyped
  BY DrainsOfInv, SyncCallTyped DEF Sync!Dequeue, Sync!At, InDrain, Still,
     Sync!Elsewhere, DrainInv
<1>2. CASE /\ current \in DOMAIN queues /\ ~Sync!IsEmpty(queues[current])
           /\ queues[current] \in SyncQueues
           /\ Sync!Give(c, current, queues[current], max) /\ current' = current
  BY <1>1, <1>2, QueuesFit, DrainGives DEF StillHere
<1>3. CASE /\ Puts(current', Sync!Queue) /\ current' \in DOMAIN queues'
           /\ current = 0 => current' = Len(queues) + 1
           /\ current # 0 => current' = current
           /\ Sync!Set(c, [at |-> "load pull", queue |-> current', cursor |-> calls[c].cursor,
                           max |-> max])
  <2>1. PICK call : call = [at |-> "load pull", queue |-> current', cursor |-> calls[c].cursor,
                            max |-> max]
    OBVIOUS
  <2>2. call.at = "load pull" /\ call.cursor = calls[c].cursor /\ Sync!Set(c, call)
    BY <1>3, <2>1
  <2>3. CallFits(call, applied, queues')
    BY <1>1, <2>2 DEF CallFits
  <2>4. call \in SyncCalls
    <3>1. current' \in Nat
      BY <1>3, PutsMeans
    <3>2. \A n \in 0..MaxOps, j \in Nat :
            [at |-> "load pull", queue |-> j, cursor |-> n, max |-> max] \in SyncCalls
      BY DEF SyncCalls
    <3> QED
      BY <1>1, <2>1, <3>1, <3>2
  <2>5. QueueFits(Sync!Queue, applied, InHand)
    BY QueuesFit
  <2>6. current = 0 => current' \notin DOMAIN queues
    BY <1>1, <1>3, NewPlace
  <2> QED
    BY <1>1, <1>3, <2>2, <2>3, <2>4, <2>5, <2>6, DrainSets
<1> QED
  BY <1>1, <1>2, <1>3, DequeueDoes

LEMMA DrainLoads ==
  ASSUME Sync!SynchronizationAssumption, OneDrain, DrainInv, SyncTyped', NEW c \in Callers,
         Sync!LoadPull(c) \/ Sync!LoadReport(c)
  PROVE  DrainInv'
<1>1. /\ calls[c] \in SyncCalls /\ CallFits(calls[c], applied, queues) /\ c \in Sync!Draining
      /\ calls[c].at \in {"load pull", "load report"} /\ calls[c].cursor \in 0..MaxOps
      /\ calls[c].queue \in DOMAIN queues /\ StillHere /\ SyncTyped
      /\ 1..calls[c].cursor \subseteq applied
  <2>1. calls[c].at \in {"load pull", "load report"}
    BY DEF Sync!LoadPull, Sync!LoadReport, Sync!At
  <2>2. StillHere
    BY DEF Sync!LoadPull, Sync!LoadReport, Still, StillHere, Sync!Elsewhere
  <2> QED
    BY <2>1, <2>2, DrainsOfInv, SyncCallTyped DEF InDrain, DrainInv, Holds, CallFits
<1>2. PICK q : q = Sync!Reloaded(queues[calls[c].queue], calls[c].cursor)
  OBVIOUS
<1>3. q \in SyncQueues /\ Full(q) /\ QueueFits(q, applied, InHand)
  BY <1>1, <1>2, ReloadedFits
<1>4. CASE Sync!LoadPull(c)
  <2>1. calls[c].at = "load pull" /\ Sync!Give(c, calls[c].queue, q, calls[c].max)
    BY <1>2, <1>4 DEF Sync!LoadPull, Sync!At
  <2>2. calls[c].max \in 1..MaxOps
    BY <1>1, <2>1, SyncCallTyped
  <2> QED
    BY <1>1, <1>3, <2>1, <2>2, DrainGives
<1>5. CASE Sync!LoadReport(c)
  <2>1. calls[c].at = "load report" /\ Sync!Mark(c, calls[c].queue, q)
    BY <1>2, <1>5 DEF Sync!LoadReport, Sync!At
  <2>2. calls[c].queue \in 1..(Len(queues) + 1) /\ calls[c].queue # Len(queues) + 1
    BY <1>1, OldPlace
  <2> QED
    BY <1>1, <1>3, <2>1, <2>2, DrainMarks DEF StillHere
<1> QED
  BY <1>4, <1>5

LEMMA DrainReports ==
  ASSUME Sync!SynchronizationAssumption, OneDrain, DrainInv, SyncTyped', NEW c \in Callers,
         Sync!MarkReport(c)
  PROVE  DrainInv'
<1>1. /\ calls[c] \in SyncCalls /\ CallFits(calls[c], applied, queues) /\ c \in Sync!Draining
      /\ calls[c].at = "mark" /\ calls[c].cursor \in 0..MaxOps /\ Still /\ SyncTyped
      /\ calls[c].ok \in SUBSET Sync!Ops /\ calls[c].failed \in SUBSET Sync!Ops
      /\ calls[c].state # "running" => MayPause = TRUE
  <2>1. calls[c].at = "mark" /\ Still
    BY DEF Sync!MarkReport, Sync!At, Still, Sync!Elsewhere
  <2>2. calls[c] \in SyncCalls /\ CallFits(calls[c], applied, queues) /\ c \in Sync!Draining
    BY <2>1, DrainsOfInv DEF InDrain
  <2> QED
    BY <2>1, <2>2, SyncCallTyped DEF DrainInv, CallFits, OneDrain
<1>2. CASE /\ current \in DOMAIN queues /\ queues[current] \in SyncQueues
           /\ calls[c].state # "running" \/ ~Sync!IsEmpty(queues[current])
           /\ Sync!Mark(c, current, queues[current]) /\ current' = current
  <2>1. Full(queues[current]) \/ applied = Sync!Ops
    BY <1>1, <1>2, QueuesFit DEF DrainInv
  <2>2. current \in 1..(Len(queues) + 1) /\ current # Len(queues) + 1
    BY <1>1, <1>2, OldPlace
  <2>3. QueueFits(queues[current], applied, InHand)
    BY <1>2, QueuesFit
  <2> QED
    BY <1>1, <1>2, <2>1, <2>2, <2>3, DrainMarks
<1>3. CASE /\ current = 0 /\ calls[c].state # "running" /\ Len(queues) < MaxQueues
           /\ current' = Len(queues) + 1 /\ Sync!Mark(c, current', Sync!EmptyQueue)
  <2>1. applied = Sync!Ops /\ QueueFits(Sync!EmptyQueue, applied, InHand) /\ Sync!EmptyQueue \in SyncQueues
    BY <1>1, <1>3, QueuesFit, EmptyIs
  <2>2. Sync!Mark(c, Len(queues) + 1, Sync!EmptyQueue) /\ Len(queues) + 1 \in 1..(Len(queues) + 1)
        /\ Len(queues) + 1 \notin DOMAIN queues
    BY <1>1, <1>3, EnoughRoom
  <2> QED
    BY <1>1, <1>3, <2>1, <2>2, DrainMarks
<1>4. CASE /\ Puts(current', Sync!Queue) /\ current' \in DOMAIN queues'
           /\ current = 0 => current' = Len(queues) + 1
           /\ current # 0 => current' = current
           /\ Sync!Set(c, [at |-> "load report", queue |-> current', cursor |-> calls[c].cursor,
                           ok |-> calls[c].ok, failed |-> calls[c].failed])
  <2>1. PICK call : call = [at |-> "load report", queue |-> current',
                            cursor |-> calls[c].cursor, ok |-> calls[c].ok,
                            failed |-> calls[c].failed]
    OBVIOUS
  <2>2. /\ call.at = "load report" /\ call.cursor = calls[c].cursor /\ Sync!Set(c, call)
        /\ call.ok = calls[c].ok /\ call.failed = calls[c].failed
    BY <1>4, <2>1
  <2>3. CallFits(call, applied, queues')
    BY <1>1, <2>2 DEF CallFits
  <2>4. call \in SyncCalls
    <3>1. current' \in Nat
      BY <1>4, PutsMeans
    <3>2. \A n \in 0..MaxOps, j \in Nat, S \in SUBSET Sync!Ops, T \in SUBSET Sync!Ops :
            [at |-> "load report", queue |-> j, cursor |-> n, ok |-> S, failed |-> T]
              \in SyncCalls
      BY DEF SyncCalls
    <3> QED
      BY <1>1, <2>1, <3>1, <3>2
  <2>5. QueueFits(Sync!Queue, applied, InHand)
    BY QueuesFit
  <2>6. current = 0 => current' \notin DOMAIN queues
    BY <1>1, <1>4, NewPlace
  <2> QED
    BY <1>1, <1>4, <2>2, <2>3, <2>4, <2>5, <2>6, DrainSets
<1> QED
  BY <1>1, <1>2, <1>3, <1>4, MarkReportDoes

LEMMA DrainControls ==
  ASSUME Sync!SynchronizationAssumption, OneDrain, DrainInv, SyncTyped', NEW c \in Callers,
         Sync!StopQueue(c) \/ Sync!Rebuild(c)
  PROVE  DrainInv'
<1>1. /\ calls[c] \in SyncCalls /\ CallFits(calls[c], applied, queues)
      /\ calls[c].at \in {"pause", "rebuild"} /\ Still /\ SyncTyped
      /\ calls[c].at = "rebuild" => calls[c].cursor \in 0..MaxOps
  <2>1. calls[c].at \in {"pause", "rebuild"} /\ Still
    BY DEF Sync!StopQueue, Sync!Rebuild, Sync!At, Still, Sync!Elsewhere
  <2> QED
    BY <2>1, DrainsOfInv, SyncCallTyped DEF DrainInv
<1>2. MayPause = TRUE
  BY <1>1 DEF CallFits, OneDrain
<1>3. PICK q \in SyncQueues :
        Sync!SetQueue(q) /\ QueueFits(q, applied, InHand) /\ (Full(Sync!Queue) => Full(q))
  <2>1. CASE Sync!StopQueue(c)
    <3>1. PICK q : q = [Sync!Queue EXCEPT !.paused = TRUE]
      OBVIOUS
    <3>2. Sync!Queue \in SyncQueues /\ QueueFits(Sync!Queue, applied, InHand)
      BY QueuesFit
    <3>3. q \in SyncQueues /\ q.ops = Sync!Queue.ops /\ q.tries = Sync!Queue.tries
      BY <3>1, <3>2 DEF SyncQueues
    <3>4. QueueFits(q, applied, InHand) /\ (Full(Sync!Queue) => Full(q))
      BY <3>2, <3>3 DEF QueueFits, Full, Sync!IsEmpty
    <3> QED
      BY <2>1, <3>1, <3>3, <3>4 DEF Sync!StopQueue
  <2>2. CASE Sync!Rebuild(c)
    <3>1. calls[c].cursor \in 0..MaxOps /\ 1..calls[c].cursor \subseteq applied
      BY <1>1, <2>2 DEF Sync!Rebuild, Sync!At, CallFits
    <3>2. Sync!EmptyQueue \in SyncQueues
      BY EmptyIs
    <3>3. /\ Sync!Loaded(Sync!EmptyQueue, calls[c].cursor) \in SyncQueues
          /\ QueueFits(Sync!Loaded(Sync!EmptyQueue, calls[c].cursor), applied, InHand)
          /\ Full(Sync!Loaded(Sync!EmptyQueue, calls[c].cursor))
      BY <3>1, <3>2, LoadedFits
    <3> QED
      BY <2>2, <3>3 DEF Sync!Rebuild
  <2> QED
    BY <2>1, <2>2
<1>4. /\ Puts(current', q)
      /\ current # 0 => current' = current
      /\ current = 0 => current' = Len(queues) + 1
  BY <1>1, <1>3, SetQueueDoes
<1>5. PICK from, to : Sync!Set(c, Sync!Writing(from, to)) /\ from \in {"running", "paused"}
                      /\ to \in {"running", "paused"}
  BY DEF Sync!StopQueue, Sync!Rebuild
<1>6. PICK call : call = Sync!Writing(from, to)
  OBVIOUS
<1>7. Sync!Set(c, call) /\ call.at = "write" /\ call.to \in {"running", "paused"}
      /\ call \in SyncCalls
  <2>1. {"running", "paused"} \subseteq SyncStates
    BY DEF SyncStates
  <2> QED
    BY <1>5, <1>6, <2>1 DEF Sync!Writing, SyncCalls
<1>8. CallFits(call, applied, queues') /\ ~InDrain(call)
  BY <1>2, <1>7 DEF CallFits, InDrain
<1>9. current = 0 => current' \notin DOMAIN queues
  BY <1>1, <1>4, NewPlace
<1> QED
  <2>1. calls[c].at # "apply" /\ call.at # "apply"
    BY <1>1, <1>7
  <2>2. QueueFits(q, applied, InHand) /\ (Full(Sync!Queue) => Full(q)) /\ Puts(current', q) /\ Still
    BY <1>1, <1>3, <1>4
  <2> QED
    BY <1>4, <1>7, <1>8, <1>9, <2>1, <2>2, DrainSets

LEMMA DrainEnds ==
  ASSUME Sync!SynchronizationAssumption, OneDrain, DrainInv, SyncTyped',
         Sync!Lapse \/ Sync!Restart
  PROVE  DrainInv'
<1>1. MayPause = FALSE
  BY DEF OneDrain, Sync!Lapse, Sync!Restart, DrainInv, SyncTyped
<1>2. CASE Sync!Lapse
  <2>1. /\ session'.cursor = session.cursor /\ session'.state = session.state
        /\ UNCHANGED <<queues, current, calls, advanced, applied>>
    BY <1>2 DEF Sync!Lapse, Sync!Elsewhere, DrainInv, SyncTyped
  <2>2. InHand' = InHand /\ Sync!Draining' = Sync!Draining
    BY <2>1 DEF InHand, Sync!Draining, Sync!At
  <2> QED
    BY <1>1, <2>1, <2>2 DEF DrainInv, OneDrain
<1>3. CASE Sync!Restart
  <2>1. /\ UNCHANGED <<session, queues, advanced, applied>>
        /\ calls' = [d \in Callers |-> IF Sync!At(d) \in {"apply", "report"} THEN calls[d] ELSE Sync!Idle]
    BY <1>3 DEF Sync!Restart
  <2>2. /\ \A d \in Callers : calls'[d] \in {calls[d], Sync!Idle}
        /\ \A d \in Callers : calls[d].at = "apply" => calls'[d] = calls[d]
        /\ Sync!Idle.at = "idle"
    BY <2>1 DEF Sync!At, Sync!Idle
  <2>3. InHand' = InHand
    BY <2>2 DEF InHand, Sync!At
  <2>4. \A d \in Callers : CallFits(calls'[d], applied, queues)
    BY <2>2 DEF CallFits, DrainInv
  <2>5. \A d, e \in Sync!Draining' : d = e
    BY <2>2 DEF DrainInv, Sync!Draining, Sync!At
  <2> QED
    BY <1>1, <2>1, <2>3, <2>4, <2>5 DEF DrainInv, OneDrain
<1> QED
  BY <1>2, <1>3

LEMMA DrainInit ==
  ASSUME Sync!SynchronizationAssumption, OneDrain, Sync!Init
  PROVE  DrainInv
<1>1. SyncTyped /\ queues[1] = Sync!Loaded(Sync!EmptyQueue, 0) /\ Len(queues) = 1
  BY InitSyncTypes
<1>2. /\ Sync!EmptyQueue \in SyncQueues /\ 0 \in 0..MaxOps
  BY EmptyIs DEF Sync!SynchronizationAssumption
<1>3. QueueFits(queues[1], applied, InHand) /\ Full(queues[1])
  BY <1>1, <1>2, LoadedFits
<1>4. /\ session.state = "running" /\ session.cursor = 0 /\ session.lapsed = FALSE
      /\ current = 1 /\ advanced = FALSE /\ applied = {}
      /\ \A c \in Callers : calls[c].at = "idle"
  BY DEF Sync!Init, Sync!Idle
<1>5. \A c \in Callers : CallFits(calls[c], applied, queues)
  BY <1>4 DEF CallFits
<1>6. Sync!Draining = {}
  BY <1>4 DEF Sync!Draining, Sync!At
<1>7. DOMAIN queues = {1}
  BY <1>1, EnoughRoom
<1> QED
  BY <1>1, <1>3, <1>4, <1>5, <1>6, <1>7 DEF DrainInv, Closed, Sync!Terminal, OneDrain

LEMMA DrainStep ==
  ASSUME Sync!SynchronizationAssumption, OneDrain, DrainInv, [Sync!Next]_Sync!vars
  PROVE  DrainInv'
<1>1. SyncTyped'
  BY SyncTypesStep DEF DrainInv
<1>2. ASSUME NEW c \in Callers, Calling(c) PROVE DrainInv'
  <2>1. ~Sync!Lose(c)
    BY DEF Sync!Lose, OneDrain
  <2> QED
    BY <1>1, <1>2, <2>1, DrainSmall, DrainApplies, DrainDequeues, DrainLoads,
       DrainReports, DrainControls DEF Calling
<1>3. ASSUME Sync!Lapse \/ Sync!Restart PROVE DrainInv'
  BY <1>1, <1>3, DrainEnds
<1>4. ASSUME UNCHANGED Sync!vars PROVE DrainInv'
  <2>1. UNCHANGED <<session, queues, current, calls, advanced, applied>>
    BY <1>4 DEF Sync!vars
  <2>2. InHand' = InHand /\ Sync!Draining' = Sync!Draining
    BY <2>1 DEF InHand, Sync!Draining, Sync!At
  <2> QED
    BY <1>1, <2>1, <2>2 DEF DrainInv
<1> QED
  BY <1>2, <1>3, <1>4 DEF Sync!Next, Calling

\* The replica's record is advanced for what the device has, whatever the plan,
\* the requests and the restarts, when one drain of the device is under way at
\* a time and it applies what it is given.
THEOREM AdvancedWasApplied ==
  Sync!SynchronizationAssumption /\ OneDrain /\ Sync!Spec => []Sync!AdvancedIsApplied
<1> SUFFICES ASSUME Sync!SynchronizationAssumption, OneDrain
             PROVE  Sync!Spec => []Sync!AdvancedIsApplied
  OBVIOUS
<1>1. Sync!Init => DrainInv
  BY DrainInit
<1>2. DrainInv => Sync!AdvancedIsApplied
  BY DEF DrainInv, Sync!AdvancedIsApplied
<1> QED
  BY <1>1, <1>2, DrainStep, PTL DEF Sync!Spec

-----------------------------------------------------------------------------
(* Drains that overlap. *)

LEMMA FirstCount ==
  ASSUME Sync!SynchronizationAssumption, NEW qs, NEW rs, First(qs) \subseteq First(rs)
  PROVE  /\ Cardinality(First(qs)) \in Nat /\ Cardinality(First(rs)) \in Nat
         /\ Cardinality(First(qs)) <= Cardinality(First(rs))
<1>1. First(qs) \in SUBSET Sync!Ops /\ First(rs) \in SUBSET Sync!Ops
  BY DEF First, Sync!Applied
<1>2. /\ IsFiniteSet(First(rs))
      /\ Cardinality(First(qs)) \in 0..MaxOps /\ Cardinality(First(rs)) \in 0..MaxOps
  BY <1>1, CountTyped
<1>3. Cardinality(First(qs)) <= Cardinality(First(rs))
  BY <1>2, FS_Subset
<1> QED
  BY <1>2, <1>3 DEF Sync!SynchronizationAssumption

LEMMA AtMost ==
  ASSUME NEW i \in Nat, NEW j \in Nat, NEW k \in Nat, i <= j, j <= k
  PROVE  i <= k
OBVIOUS

LEMMA CountStays ==
  ASSUME Sync!SynchronizationAssumption, NEW r \in SyncCalls, NEW qs, NEW rs, NEW done,
         NEW more,
         NEW run, NEW still, done \subseteq more, more \subseteq Sync!Ops, still => run,
         First(qs) \subseteq First(rs), CountFits(r, done, qs, run), Holds(r, qs),
         \A k \in DOMAIN qs : Full(qs[k]) => Full(rs[k]),
         Given(r) \subseteq Out(qs) => Given(r) \subseteq Out(rs)
  PROVE  CountFits(r, more, rs, still)
<1>1. /\ Cardinality(First(qs)) \in Nat /\ Cardinality(First(rs)) \in Nat
      /\ Cardinality(First(qs)) <= Cardinality(First(rs))
  BY FirstCount
<1>2. ASSUME r.at \in {"pull", "load pull", "mark", "load report", "store"},
             r.cursor <= Cardinality(First(qs))
      PROVE  r.cursor <= Cardinality(First(rs))
  <2>1. r.cursor \in 0..MaxOps
    BY <1>2, SyncCallTyped
  <2>2. r.cursor \in Nat
    BY <2>1 DEF Sync!SynchronizationAssumption
  <2> QED
    BY <1>1, <1>2, <2>2, AtMost, Zenon
<1>3. r.at \in {"pull", "load pull", "mark", "load report"} =>
        r.cursor <= Cardinality(First(rs))
  BY <1>2 DEF CountFits
<1>4. r.at = "store" => (r.queue = 1 => r.cursor <= Cardinality(First(rs)))
  BY <1>2 DEF CountFits
<1>5. r.at \in {"store", "check"} => Full(rs[r.queue])
  BY DEF CountFits, Holds
<1> QED
  BY <1>3, <1>4, <1>5 DEF CountFits

LEMMA CountFrame ==
  ASSUME Sync!SynchronizationAssumption, NoPause, CountInv, SyncTyped', NEW c \in Callers,
         NEW call \in SyncCalls, Sync!Set(c, call), applied \subseteq applied',
         Running' => Running, First(queues) \subseteq First(queues'),
         \A k \in DOMAIN queues : Full(queues[k]) => Full(queues'[k]),
         \A k \in DOMAIN queues' : Full(queues'[k]) \/ Sync!IsEmpty(queues'[k]),
         \A d \in Callers \ {c} :
           Given(calls[d]) \subseteq Out(queues) => Given(calls[d]) \subseteq Out(queues'),
         First(queues') \subseteq applied',
         \A k \in DOMAIN queues' : k # 1 => Sync!Applied(queues'[k]) \subseteq Later(applied', queues'),
         CountFits(call, applied', queues', Running'),
         Running' => /\ current' = 1 /\ Len(queues') = 1
                     /\ session'.cursor <= Cardinality(First(queues')),
         ~Running' => current' # 1, session'.state # "paused",
         Running' => \A d \in Callers \ {c} : Given(calls[d]) \cap Given(call) = {},
         advanced' => applied' = Sync!Ops
  PROVE  CountInv'
<1>1. /\ calls'[c] = call /\ \A d \in Callers \ {c} : calls'[d] = calls[d]
      /\ \A d \in Callers : /\ CountFits(calls[d], applied, queues, Running)
                            /\ Holds(calls[d], queues) /\ calls[d] \in SyncCalls
  BY DEF CountInv, SyncTyped, Sync!Set
<1>2. applied' \subseteq Sync!Ops
  BY DEF SyncTyped
<1>3. \A d \in Callers : CountFits(calls'[d], applied', queues', Running')
  <2> SUFFICES ASSUME NEW d \in Callers \ {c}
               PROVE  CountFits(calls[d], applied', queues', Running')
    BY <1>1
  <2> QED
    BY <1>1, <1>2, CountStays
<1>4. Running' => \A d, e \in Callers :
                    d # e => Given(calls'[d]) \cap Given(calls'[e]) = {}
  BY <1>1 DEF CountInv
<1>5. Full(queues'[1])
  BY EnoughRoom DEF CountInv
<1> QED
  BY <1>3, <1>4, <1>5 DEF CountInv

\* A step of a request that leaves the queues alone.
LEMMA CountRests ==
  ASSUME Sync!SynchronizationAssumption, NoPause, CountInv, SyncTyped', NEW c \in Callers,
         NEW call \in SyncCalls, Sync!Set(c, call), queues' = queues,
         applied \subseteq applied', Running' => Running, session'.state # "paused",
         CountFits(call, applied', queues, Running'),
         Running' => /\ current' = current
                     /\ session'.cursor <= Cardinality(First(queues)),
         ~Running' => current' # 1,
         Given(call) \subseteq Given(calls[c]), advanced' => applied' = Sync!Ops
  PROVE  CountInv'
<1>1. Running' => \A d \in Callers \ {c} : Given(calls[d]) \cap Given(call) = {}
  BY DEF CountInv
<1>2. /\ First(queues) \subseteq applied'
      /\ \A k \in DOMAIN queues : k # 1 => Sync!Applied(queues[k]) \subseteq Later(applied', queues)
  BY DEF CountInv, Later
<1>3. Running' => current' = 1 /\ Len(queues) = 1
  BY DEF CountInv
<1>4. \A k \in DOMAIN queues : Full(queues[k]) \/ Sync!IsEmpty(queues[k])
  BY DEF CountInv
<1> QED
  BY <1>1, <1>2, <1>3, <1>4, CountFrame

\* A step of a session that ended: the first queue is no longer touched.
LEMMA CountLater ==
  ASSUME Sync!SynchronizationAssumption, NoPause, CountInv, SyncTyped', NEW c \in Callers,
         NEW call \in SyncCalls, Sync!Set(c, call), Still, ~Running, NEW k, NEW q, Puts(k, q),
         k # 1, Full(q) \/ Sync!IsEmpty(q), k \in DOMAIN queues => (Full(queues[k]) => Full(q)),
         Sync!Applied(q) \subseteq Later(applied, queues), current' # 1,
         CountFits(call, applied, queues', FALSE)
  PROVE  CountInv'
<1>1. queues'[1] = queues[1] /\ 1 \in DOMAIN queues
  <2>1. 1 \in DOMAIN queues
    BY EnoughRoom DEF CountInv
  <2>2. 1 \in DOMAIN queues' \ {k}
    BY <2>1 DEF Puts
  <2> QED
    BY <2>1, <2>2 DEF Puts
<1>2. First(queues') = First(queues) /\ Out(queues') = Out(queues)
  BY <1>1 DEF First, Out
<1>3. \A j \in DOMAIN queues : Full(queues[j]) => Full(queues'[j])
  BY DEF Puts
<1>4. \A j \in DOMAIN queues' : Full(queues'[j]) \/ Sync!IsEmpty(queues'[j])
  BY DEF Puts, CountInv
<1>5. Later(applied, queues') = Later(applied, queues)
  BY <1>2 DEF Later
<1>6. \A j \in DOMAIN queues' : j # 1 => Sync!Applied(queues'[j]) \subseteq Later(applied, queues')
  BY <1>5 DEF Puts, CountInv
<1>7. ~Running' /\ session'.state # "paused" /\ applied' = applied
      /\ (advanced' => applied = Sync!Ops) /\ First(queues) \subseteq applied
  BY DEF Still, Running, CountInv
<1>8. CountFits(call, applied, queues', Running')
  BY <1>7 DEF CountFits
<1> QED
  BY <1>2, <1>3, <1>4, <1>6, <1>7, <1>8, CountFrame

\* A step of a running session at its queue.
LEMMA CountFirst ==
  ASSUME Sync!SynchronizationAssumption, NoPause, CountInv, SyncTyped', NEW c \in Callers,
         NEW call \in SyncCalls, Sync!Set(c, call), StillHere, Running, NEW new, Puts(1, new),
         Len(queues') = Len(queues), Full(new),
         First(queues) \subseteq Sync!Applied(new), Sync!Applied(new) \subseteq applied,
         \A d \in Callers \ {c} :
           Given(calls[d]) \subseteq Out(queues) => Given(calls[d]) \subseteq Out(queues'),
         CountFits(call, applied, queues', TRUE),
         \A d \in Callers \ {c} : Given(calls[d]) \cap Given(call) = {}
  PROVE  CountInv'
<1>1. queues'[1] = new /\ First(queues') = Sync!Applied(new)
  BY DEF Puts, First
<1>2. DOMAIN queues = {1} /\ DOMAIN queues' = {1} /\ current = 1 /\ Len(queues) = 1
  BY EnoughRoom DEF CountInv, Puts
<1>3. \A k \in DOMAIN queues : Full(queues[k]) => Full(queues'[k])
  BY <1>1, <1>2
<1>4. \A k \in DOMAIN queues' : Full(queues'[k]) \/ Sync!IsEmpty(queues'[k])
  BY <1>1, <1>2
<1>5. Running' /\ session'.state # "paused" /\ applied' = applied
      /\ (advanced' => applied = Sync!Ops) /\ current' = 1 /\ session' = session
  BY <1>2 DEF Still, StillHere, Running, CountInv
<1>6. CountFits(call, applied, queues', Running')
  BY <1>5 DEF CountFits
<1>7. session'.cursor <= Cardinality(First(queues'))
  <2>1. /\ Cardinality(First(queues)) \in Nat /\ Cardinality(First(queues')) \in Nat
        /\ Cardinality(First(queues)) <= Cardinality(First(queues'))
    BY <1>1, FirstCount
  <2>2. session.cursor \in Nat /\ session.cursor <= Cardinality(First(queues))
    BY DEF CountInv, SyncTyped, Sync!SynchronizationAssumption
  <2> QED
    BY <1>5, <2>1, <2>2
<1> QED
  BY <1>1, <1>2, <1>3, <1>4, <1>5, <1>6, <1>7, CountFrame

LEMMA CountOf ==
  ASSUME Sync!SynchronizationAssumption, NoPause, CountInv, NEW c \in Callers
  PROVE  /\ calls[c] \in SyncCalls /\ CountFits(calls[c], applied, queues, Running)
         /\ Holds(calls[c], queues) /\ SyncTyped /\ applied \in SUBSET Sync!Ops
         /\ session \in [state : SyncStates, cursor : 0..MaxOps, lapsed : BOOLEAN]
         /\ session.state # "paused"
         /\ advanced => applied = Sync!Ops
         /\ Running => /\ current = 1 /\ DOMAIN queues = {1}
                       /\ session.cursor <= Cardinality(First(queues))
         /\ ~Running => current # 1
         /\ ~Running => session.state \in Sync!Terminal
BY EnoughRoom DEF CountInv, SyncTyped, SyncStates, Running

\* A queue that counts everything has everything been applied.
LEMMA CountedIsApplied ==
  ASSUME Sync!SynchronizationAssumption, NoPause, CountInv, NEW k \in DOMAIN queues,
         Sync!Applied(queues[k]) = Sync!Ops
  PROVE  applied = Sync!Ops
<1>1. First(queues) \subseteq applied /\ applied \in SUBSET Sync!Ops /\ First(queues) \in SUBSET Sync!Ops
  BY DEF CountInv, SyncTyped, First, Sync!Applied
<1>2. CASE k = 1
  BY <1>1, <1>2 DEF First
<1>3. CASE k # 1
  <2> DEFINE low == 1..Cardinality(First(queues))
             rest == applied \ First(queues)
  <2>1. Sync!Ops \subseteq low \cup rest
    BY <1>3 DEF CountInv, Later
  <2>2. /\ IsFiniteSet(First(queues)) /\ Cardinality(First(queues)) \in Nat
        /\ IsFiniteSet(rest) /\ Cardinality(rest) \in Nat
        /\ IsFiniteSet(applied) /\ Cardinality(applied) \in Nat
        /\ IsFiniteSet(Sync!Ops) /\ Cardinality(Sync!Ops) = MaxOps /\ MaxOps \in Nat
    <3>1. rest \in SUBSET Sync!Ops
      BY <1>1
    <3>2. MaxOps \in Nat /\ IsFiniteSet(Sync!Ops) /\ Cardinality(Sync!Ops) = MaxOps
      BY FS_Interval DEF Sync!SynchronizationAssumption, Sync!Ops
    <3>3. \A S \in SUBSET Sync!Ops : IsFiniteSet(S) /\ Cardinality(S) \in Nat
      BY <3>2, FS_Subset, FS_CardinalityType
    <3> QED
      BY <1>1, <3>1, <3>2, <3>3
  <2>3. IsFiniteSet(low) /\ Cardinality(low) = Cardinality(First(queues))
    BY <2>2, FS_Interval
  <2>4. applied = First(queues) \cup rest /\ First(queues) \cap rest = {}
    BY <1>1
  <2> HIDE DEF low, rest
  <2>5. Cardinality(applied) = Cardinality(First(queues)) + Cardinality(rest)
    <3>1. Cardinality(First(queues) \cup rest) =
            Cardinality(First(queues)) + Cardinality(rest) - Cardinality(First(queues) \cap rest)
      BY <2>2, FS_Union
    <3>2. Cardinality(First(queues) \cap rest) = 0
      BY <2>4, FS_EmptySet
    <3>3. Cardinality(applied) = Cardinality(First(queues) \cup rest)
      BY <2>4, Zenon
    <3> QED
      BY <2>2, <3>1, <3>2, <3>3
  <2>6. Cardinality(low \cup rest) <= Cardinality(low) + Cardinality(rest)
        /\ IsFiniteSet(low \cup rest) /\ Cardinality(low \cup rest) \in Nat
    <3>1. Cardinality(low \cup rest) =
            Cardinality(low) + Cardinality(rest) - Cardinality(low \cap rest)
          /\ IsFiniteSet(low \cup rest)
      BY <2>2, <2>3, FS_Union
    <3>2. IsFiniteSet(low \cap rest)
      BY <2>3, FS_Subset
    <3>3. Cardinality(low \cap rest) \in Nat
      BY <3>2, FS_CardinalityType
    <3>4. Cardinality(low \cup rest) \in Nat
      BY <3>1, FS_CardinalityType
    <3> QED
      BY <2>2, <2>3, <3>1, <3>3, <3>4
  <2>7. MaxOps <= Cardinality(low \cup rest)
    BY <2>1, <2>2, <2>6, FS_Subset
  <2>8. MaxOps <= Cardinality(applied)
    BY <2>2, <2>3, <2>5, <2>6, <2>7
  <2>9. Cardinality(applied) <= MaxOps
    BY <1>1, <2>2, FS_Subset
  <2>10. Cardinality(applied) = Cardinality(Sync!Ops)
    BY <2>2, <2>8, <2>9
  <2> QED
    BY <1>1, <2>2, <2>10, FS_Subset
<1> QED
  BY <1>2, <1>3

LEMMA CompleteIsCounted ==
  ASSUME NEW q, Full(q), Sync!IsComplete(q)
  PROVE  Sync!Applied(q) = Sync!Ops
BY DEF Full, Sync!IsComplete, Sync!Applied

LEMMA CountSmall ==
  ASSUME Sync!SynchronizationAssumption, NoPause, CountInv, SyncTyped', NEW c \in Callers,
         \/ Sync!Pull(c) \/ \E ok \in SUBSET Sync!Ops : Sync!Apply(c, ok)
         \/ Sync!Lose(c) \/ Sync!Report(c) \/ Sync!StoreProgress(c) \/ Sync!Check(c) \/ Sync!Advance(c)
         \/ Sync!Pause(c) \/ Sync!Resume(c) \/ Sync!Cancel(c) \/ Sync!Expire(c) \/ Sync!Write(c)
  PROVE  CountInv'
<1>1. /\ calls[c] \in SyncCalls /\ CountFits(calls[c], applied, queues, Running)
      /\ Holds(calls[c], queues) /\ applied \in SUBSET Sync!Ops
      /\ session \in [state : SyncStates, cursor : 0..MaxOps, lapsed : BOOLEAN]
      /\ session.state # "paused"
      /\ advanced => applied = Sync!Ops
      /\ Running => /\ current = 1 /\ DOMAIN queues = {1}
                    /\ session.cursor <= Cardinality(First(queues))
      /\ ~Running => current # 1
      /\ ~Running => session.state \in Sync!Terminal
  BY CountOf
<1>2. ASSUME NEW call \in SyncCalls, Sync!Set(c, call),
             Given(call) \subseteq Given(calls[c]),
             CountFits(call, applied, queues, Running),
             UNCHANGED <<session, queues, current, advanced, applied>>
      PROVE CountInv'
  <2>1. Running' = Running /\ session'.state = session.state
    BY <1>2 DEF Running
  <2>2. CountFits(call, applied, queues, Running') /\ applied \subseteq applied'
        /\ (advanced' => applied' = Sync!Ops) /\ applied' = applied
    BY <1>1, <1>2, <2>1
  <2> QED
    BY <1>1, <1>2, <2>1, <2>2, CountRests
<1>3. Sync!Idle \in SyncCalls /\ CountFits(Sync!Idle, applied, queues, Running) /\ Given(Sync!Idle) = {}
  BY DEF Sync!Idle, SyncCalls, CountFits, Given
<1>4. ASSUME Sync!Pull(c) PROVE CountInv'
  <2>1. PICK call : call = [at |-> "pull", cursor |-> session.cursor]
    OBVIOUS
  <2>2. call.at = "pull" /\ call.cursor = session.cursor /\ call \in SyncCalls
    BY <1>1, <2>1 DEF SyncCalls
  <2>3. Running /\ Sync!Set(c, call)
    BY <1>4, <2>1 DEF Sync!Pull, Running
  <2>4. CountFits(call, applied, queues, Running) /\ Given(call) = {}
    BY <1>1, <2>2, <2>3 DEF CountFits, Given
  <2> QED
    BY <1>2, <1>4, <2>2, <2>3, <2>4 DEF Sync!Pull, Sync!Elsewhere
<1>5. ASSUME NEW ok \in SUBSET Sync!Ops, Sync!Apply(c, ok) PROVE CountInv'
  <2>1. calls[c].at = "apply" /\ calls[c].ops \in SUBSET Sync!Ops /\ ok \subseteq calls[c].ops
    BY <1>1, <1>5, SyncCallTyped DEF Sync!Apply, Sync!At
  <2>2. PICK call : call = [at |-> "report", ok |-> ok, failed |-> calls[c].ops \ ok]
    OBVIOUS
  <2>3. call.at = "report" /\ call.ok = ok /\ call.failed = calls[c].ops \ ok
        /\ call \in SyncCalls
    BY <2>1, <2>2 DEF SyncCalls
  <2>4. Sync!Set(c, call) /\ applied' = applied \cup ok
        /\ UNCHANGED <<session, queues, current, advanced>>
    BY <1>5, <2>2 DEF Sync!Apply
  <2>5. Given(call) = Given(calls[c])
    BY <2>1, <2>3 DEF Given
  <2>6. Running' = Running /\ session'.state = session.state
    BY <2>4 DEF Running
  <2>7. CountFits(call, applied', queues, Running')
    BY <1>1, <2>1, <2>3, <2>4, <2>5, <2>6 DEF CountFits
  <2>8. applied \subseteq applied' /\ (advanced' => applied' = Sync!Ops)
    BY <1>1, <2>4
  <2> QED
    BY <1>1, <2>3, <2>4, <2>5, <2>6, <2>7, <2>8, CountRests
<1>6. ASSUME Sync!Lose(c) PROVE CountInv'
  <2>1. Sync!Set(c, Sync!Idle)
    BY <1>6 DEF Sync!Lose
  <2> QED
    BY <1>2, <1>3, <1>6, <2>1 DEF Sync!Lose, Sync!Elsewhere
<1>7. ASSUME Sync!Report(c) PROVE CountInv'
  <2>1. /\ calls[c].ok \in SUBSET Sync!Ops /\ calls[c].failed \in SUBSET Sync!Ops
        /\ calls[c].at = "report"
    BY <1>1, <1>7, SyncCallTyped DEF Sync!Report, Sync!At
  <2>2. PICK mark : mark = [at |-> "mark", ok |-> calls[c].ok, failed |-> calls[c].failed,
                            state |-> session.state, cursor |-> session.cursor]
    OBVIOUS
  <2>3. mark \in SyncCalls /\ mark.at = "mark"
    BY <1>1, <2>1, <2>2 DEF SyncCalls
  <2>4. CASE session.state \in Sync!Terminal \/ session.lapsed
    <3>1. Sync!Set(c, Sync!Idle)
      BY <1>7, <2>4 DEF Sync!Report
    <3> QED
      BY <1>2, <1>3, <1>7, <3>1 DEF Sync!Report, Sync!Elsewhere
  <2>5. CASE ~(session.state \in Sync!Terminal \/ session.lapsed)
    <3>1. Sync!Set(c, mark)
      BY <1>7, <2>2, <2>5 DEF Sync!Report
    <3>2. Running /\ session.state = "running"
      BY <1>1, <2>5 DEF Running
    <3>3. mark.ok = calls[c].ok /\ mark.failed = calls[c].failed
          /\ mark.state = session.state /\ mark.cursor = session.cursor
      BY <2>2
    <3>4. Given(mark) = Given(calls[c])
      BY <2>1, <2>3, <3>3 DEF Given
    <3>5. CountFits(mark, applied, queues, Running)
      BY <1>1, <2>1, <2>3, <3>2, <3>3, <3>4 DEF CountFits
    <3> QED
      BY <1>2, <1>7, <2>3, <3>1, <3>4, <3>5 DEF Sync!Report, Sync!Elsewhere
  <2> QED
    BY <2>4, <2>5
<1>8. ASSUME Sync!StoreProgress(c) PROVE CountInv'
  <2>1. /\ calls[c].cursor \in 0..MaxOps /\ calls[c].at = "store"
        /\ calls[c].queue \in DOMAIN queues /\ calls[c].queue \in Nat
    BY <1>1, <1>8, SyncCallTyped DEF Sync!StoreProgress, Sync!At, Holds
  <2>2. PICK check : check = [at |-> "check", queue |-> calls[c].queue, state |-> session.state]
    OBVIOUS
  <2>3. check \in SyncCalls /\ check.at = "check" /\ check.queue = calls[c].queue
    BY <1>1, <2>1, <2>2 DEF SyncCalls
  <2>4. CountFits(check, applied, queues, Running) /\ Given(check) = {}
    BY <1>1, <2>1, <2>3 DEF CountFits, Given
  <2>5. /\ session'.cursor = calls[c].cursor /\ session'.state = session.state
        /\ Sync!Set(c, check) /\ UNCHANGED <<queues, current, advanced, applied>>
    BY <1>1, <1>8, <2>2 DEF Sync!StoreProgress, Sync!Elsewhere
  <2>6. Running' = Running
    BY <2>5 DEF Running
  <2>7. Running => session'.cursor <= Cardinality(First(queues))
    BY <1>1, <2>1, <2>5 DEF CountFits
  <2> QED
    BY <1>1, <2>3, <2>4, <2>5, <2>6, <2>7, CountRests
<1>9. ASSUME NEW from \in SyncStates, NEW to \in Sync!Terminal
      PROVE  Sync!Writing(from, to) \in SyncCalls /\ Given(Sync!Writing(from, to)) = {}
             /\ CountFits(Sync!Writing(from, to), applied, queues, Running)
  BY DEF Sync!Writing, SyncCalls, SyncStates, CountFits, Given
<1>10. {"failed", "completed", "cancelled", "expired"} \subseteq Sync!Terminal
  BY DEF Sync!Terminal
<1>11. ASSUME Sync!Check(c) PROVE CountInv'
  <2>1. /\ calls[c].state \in SyncStates /\ calls[c].at = "check"
        /\ calls[c].queue \in DOMAIN queues
    BY <1>1, <1>11, SyncCallTyped DEF Sync!Check, Sync!At, Holds
  <2>2. PICK q : q = queues[calls[c].queue]
    OBVIOUS
  <2>3. Full(q)
    BY <1>1, <2>1, <2>2 DEF CountFits
  <2>4. CASE Sync!IsComplete(q)
    <3>1. applied = Sync!Ops
      BY <2>1, <2>2, <2>3, <2>4, CompleteIsCounted, CountedIsApplied
    <3>2. PICK call : call = [at |-> "advance", state |-> calls[c].state]
      OBVIOUS
    <3>3. call \in SyncCalls /\ call.at = "advance"
      BY <2>1, <3>2 DEF SyncCalls
    <3>4. CountFits(call, applied, queues, Running) /\ Given(call) = {}
      BY <3>1, <3>3 DEF CountFits, Given
    <3>5. Sync!Set(c, call)
      BY <1>11, <2>2, <2>4, <3>2 DEF Sync!Check
    <3> QED
      BY <1>2, <1>11, <3>3, <3>4, <3>5 DEF Sync!Check, Sync!Elsewhere
  <2>5. CASE ~Sync!IsComplete(q)
    <3>1. PICK call : Sync!Set(c, call) /\ call \in {Sync!Writing(calls[c].state, "failed"), Sync!Idle}
      BY <1>11, <2>2, <2>5 DEF Sync!Check
    <3>2. call \in SyncCalls /\ Given(call) = {} /\ CountFits(call, applied, queues, Running)
      BY <1>3, <1>9, <1>10, <2>1, <3>1
    <3> QED
      BY <1>2, <1>11, <3>1, <3>2 DEF Sync!Check, Sync!Elsewhere
  <2> QED
    BY <2>4, <2>5
<1>12. ASSUME Sync!Advance(c) PROVE CountInv'
  <2>1. calls[c].state \in SyncStates /\ calls[c].at = "advance" /\ applied = Sync!Ops
    BY <1>1, <1>12, SyncCallTyped DEF Sync!Advance, Sync!At, CountFits
  <2>2. PICK call : Sync!Set(c, call) /\ call \in {Sync!Writing(calls[c].state, "completed"), Sync!Idle}
    BY <1>12 DEF Sync!Advance
  <2>3. call \in SyncCalls /\ Given(call) = {} /\ CountFits(call, applied, queues, Running)
    BY <1>3, <1>9, <1>10, <2>1, <2>2
  <2>4. UNCHANGED <<session, queues, current, applied>>
    BY <1>12 DEF Sync!Advance
  <2>5. Running' = Running /\ session'.state = session.state
    BY <2>4 DEF Running
  <2> QED
    BY <1>1, <2>1, <2>2, <2>3, <2>4, <2>5, CountRests
<1>13. ~Sync!Pause(c) /\ ~Sync!Resume(c)
  BY DEF Sync!Pause, Sync!Resume, NoPause
<1>14. ASSUME Sync!Cancel(c) \/ Sync!Expire(c) PROVE CountInv'
  <2>1. PICK to \in {"cancelled", "expired"} : Sync!Set(c, Sync!Writing(session.state, to))
    BY <1>14 DEF Sync!Cancel, Sync!Expire
  <2>2. session.state \in SyncStates /\ to \in Sync!Terminal
    BY <1>1, <1>10
  <2>3. PICK call : call = Sync!Writing(session.state, to)
    OBVIOUS
  <2>4. call \in SyncCalls /\ Given(call) = {} /\ CountFits(call, applied, queues, Running)
    BY <1>9, <2>2, <2>3
  <2> QED
    BY <1>2, <1>14, <2>1, <2>3, <2>4 DEF Sync!Cancel, Sync!Expire, Sync!Elsewhere
<1>15. ASSUME Sync!Write(c) PROVE CountInv'
  <2>1. calls[c].to \in Sync!Terminal /\ calls[c].at = "write"
    BY <1>1, <1>15 DEF Sync!Write, Sync!At, CountFits
  <2>2. /\ session'.state = calls[c].to
        /\ Sync!Set(c, Sync!Idle) /\ queues' = queues /\ applied' = applied /\ advanced' = advanced
        /\ current' = 0
    BY <1>1, <1>15, <2>1 DEF Sync!Write, Sync!Elsewhere
  <2>3. ~Running' /\ session'.state # "paused"
    BY <2>1, <2>2 DEF Running, Sync!Terminal
  <2>4. CountFits(Sync!Idle, applied, queues, Running')
    BY DEF CountFits, Sync!Idle
  <2> QED
    BY <1>1, <1>3, <2>2, <2>3, <2>4, CountRests
<1> QED
  BY <1>4, <1>5, <1>6, <1>7, <1>8, <1>11, <1>12, <1>13, <1>14, <1>15


\* A queue made later leaves the first one as it is.
LEMMA FirstStays ==
  ASSUME CountInv, NEW k, NEW q, Puts(k, q), k # 1
  PROVE  First(queues') = First(queues) /\ Out(queues') = Out(queues)
<1>1. 1 \in DOMAIN queues
  BY EnoughRoom DEF CountInv
<1>2. queues'[1] = queues[1]
  BY <1>1 DEF Puts
<1> QED
  BY <1>2 DEF First, Out

\* What was handed out is marked so in the first queue, while it counts.
LEMMA HandedOut ==
  ASSUME CountInv, NEW d \in Callers, Running \/ calls[d].at \in {"mark", "load report"}
  PROVE  Given(calls[d]) \subseteq Out(queues)
BY DEF CountInv, CountFits, Given

LEMMA FirstPlace ==
  ASSUME SyncTyped
  PROVE  1 \in DOMAIN queues
BY EnoughRoom

LEMMA NotFirst ==
  ASSUME NEW n \in Nat, n >= 1, NEW k, k = n + 1
  PROVE  k # 1
OBVIOUS

LEMMA NotMore ==
  ASSUME NEW i \in 0..MaxOps, NEW j, i = j
  PROVE  i <= j
OBVIOUS

LEMMA TakenCounts ==
  ASSUME NEW q \in SyncQueues, NEW max \in 1..MaxOps, NEW new,
         IsTaken(new, q, Sync!Handed(q, max)), Full(q)
  PROVE  Full(new) /\ Sync!Applied(new) = Sync!Applied(q)
<1>1. \A o \in Sync!Handed(q, max) : q.ops[o] \in {"pending", "failed"}
  BY HandedIs
<1> QED
  BY <1>1 DEF IsTaken, Full, Sync!Applied

LEMMA CountGives ==
  ASSUME Sync!SynchronizationAssumption, NoPause, CountInv, SyncTyped', NEW c \in Callers,
         NEW k \in DOMAIN queues, NEW q \in SyncQueues, NEW max \in 1..MaxOps,
         Sync!Give(c, k, q, max), StillHere, Full(q), Running => k = 1 /\ q = queues[1],
         ~Running => k # 1 /\ Sync!Applied(q) \subseteq Later(applied, queues)
  PROVE  CountInv'
<1>1. PICK out : out = Sync!Handed(q, max)
  OBVIOUS
<1>2. out \in SUBSET Sync!Ops /\ \A o \in out : q.ops[o] \in {"pending", "failed"}
  BY <1>1, HandedIs
<1>3. PICK new : new = Taken(q, out)
  OBVIOUS
<1>4. IsTaken(new, q, out)
  BY <1>2, <1>3, TakenAs
<1>5. Full(new) /\ Sync!Applied(new) = Sync!Applied(q)
  BY <1>1, <1>4, TakenCounts
<1>6. SyncTyped
  BY DEF CountInv
<1>7. /\ Puts(k, new) /\ Len(queues') = Len(queues)
      /\ Sync!Set(c, IF out = {} THEN Sync!Idle ELSE [at |-> "apply", ops |-> out])
  BY <1>1, <1>3, <1>6, GiveDoes
<1>8. PICK call \in SyncCalls : /\ Sync!Set(c, call) /\ Given(call) \subseteq out
                                /\ call.at \in {"idle", "apply"}
  <2>1. PICK call : call = IF out = {} THEN Sync!Idle ELSE [at |-> "apply", ops |-> out]
    OBVIOUS
  <2>2. CASE out = {}
    <3>1. Sync!Idle.at = "idle" /\ Sync!Idle \in SyncCalls /\ call = Sync!Idle
      BY <2>1, <2>2 DEF Sync!Idle, SyncCalls
    <3> QED
      BY <1>7, <2>2, <3>1 DEF Given
  <2>3. CASE out # {}
    <3>1. call = [at |-> "apply", ops |-> out]
      BY <2>1, <2>3
    <3>2. call \in SyncCalls /\ call.at = "apply" /\ call.ops = out
      BY <1>2, <3>1 DEF SyncCalls
    <3> QED
      BY <1>7, <2>1, <3>2 DEF Given
  <2> QED
    BY <2>2, <2>3
<1>9. ASSUME Running PROVE CountInv'
  <2>1. k = 1 /\ q = queues[1] /\ Puts(1, new) /\ queues'[1] = new
    BY <1>7, <1>9 DEF Puts
  <2>2. First(queues) \subseteq Sync!Applied(new) /\ Sync!Applied(new) \subseteq applied
    BY <1>5, <2>1 DEF First, CountInv
  <2>3. Out(queues) \subseteq Out(queues') /\ out \subseteq Out(queues')
        /\ out \cap Out(queues) = {}
    BY <1>2, <1>4, <2>1 DEF Out, IsTaken
  <2>4. CountFits(call, applied, queues', TRUE)
    BY <1>8, <2>3 DEF CountFits
  <2>5. \A d \in Callers \ {c} : Given(calls[d]) \cap Given(call) = {}
    BY <1>8, <1>9, <2>3, HandedOut
  <2>6. \A d \in Callers \ {c} :
          Given(calls[d]) \subseteq Out(queues) => Given(calls[d]) \subseteq Out(queues')
    BY <2>3
  <2> QED
    BY <1>5, <1>7, <1>8, <1>9, <2>1, <2>2, <2>4, <2>5, <2>6, CountFirst
<1>10. ASSUME ~Running PROVE CountInv'
  <2>1. CountFits(call, applied, queues', FALSE)
    BY <1>8 DEF CountFits
  <2>2. Still /\ current' # 1
    BY <1>10 DEF StillHere, Still, CountInv
  <2> QED
    BY <1>5, <1>7, <1>8, <1>10, <2>1, <2>2, CountLater
<1> QED
  BY <1>9, <1>10

LEMMA MarkedCounts ==
  ASSUME NEW q \in SyncQueues, NEW ok \in SUBSET Sync!Ops, NEW failed \in SUBSET Sync!Ops,
         NEW new,
         IsMarked(new, q, ok, failed), Full(q)
  PROVE  /\ Full(new) /\ Sync!Applied(new) \subseteq Sync!Applied(q) \cup ok
         /\ Sync!Applied(q) \cap failed = {} => Sync!Applied(q) \subseteq Sync!Applied(new)
BY DEF IsMarked, Full, Sync!Applied

LEMMA CountMarks ==
  ASSUME Sync!SynchronizationAssumption, NoPause, CountInv, SyncTyped', NEW c \in Callers,
         calls[c].at \in {"mark", "load report"},
         NEW k \in 1..(Len(queues) + 1), NEW q \in SyncQueues,
         k = Len(queues) + 1 => Len(queues) < MaxQueues,
         Sync!Mark(c, k, q), StillHere, Full(q), Running => k = 1 /\ q = queues[1],
         ~Running => k # 1 /\ Sync!Applied(q) \subseteq Later(applied, queues)
  PROVE  CountInv'
<1>1. SyncTyped /\ calls[c] \in SyncCalls /\ CountFits(calls[c], applied, queues, Running)
      /\ applied \in SUBSET Sync!Ops
  BY CountOf
<1>2. PICK ok, failed : ok = calls[c].ok /\ failed = calls[c].failed
  OBVIOUS
<1>3. ok \in SUBSET Sync!Ops /\ failed \in SUBSET Sync!Ops
  BY <1>1, <1>2, SyncCallTyped
<1>4. ok \cup failed = Given(calls[c]) /\ ok \cup failed \subseteq Out(queues)
      /\ ok \subseteq applied
  BY <1>1, <1>2 DEF Given, CountFits
<1>5. PICK new : new = Sync!Marked(q, ok, failed)
  OBVIOUS
<1>6. IsMarked(new, q, ok, failed)
  BY <1>3, <1>5, MarkedAs
<1>7. /\ new \in SyncQueues /\ Puts(k, new) /\ Cardinality(Sync!Applied(new)) \in 0..MaxOps
      /\ Sync!Set(c, [at |-> "store", queue |-> k, cursor |-> Cardinality(Sync!Applied(new))])
      /\ k \in DOMAIN queues => Len(queues') = Len(queues)
  BY <1>1, <1>2, <1>3, <1>5, MarkDoes
<1>8. Full(new) /\ Sync!Applied(new) \subseteq Sync!Applied(q) \cup ok
      /\ (Sync!Applied(q) \cap failed = {} => Sync!Applied(q) \subseteq Sync!Applied(new))
  BY <1>3, <1>6, MarkedCounts
<1>9. PICK call : call = [at |-> "store", queue |-> k, cursor |-> Cardinality(Sync!Applied(new))]
  OBVIOUS
<1>10. /\ call.at = "store" /\ call.queue = k /\ call.cursor = Cardinality(Sync!Applied(new))
       /\ Sync!Set(c, call) /\ call \in SyncCalls
  <2>1. \A n \in 0..MaxOps, j \in Nat :
          [at |-> "store", queue |-> j, cursor |-> n] \in SyncCalls
    BY DEF SyncCalls
  <2>2. k \in Nat
    BY <1>1, PlaceIs, Zenon
  <2> QED
    BY <1>7, <1>9, <2>1, <2>2
<1>11. Given(call) = {} /\ Full(queues'[k])
  BY <1>7, <1>8, <1>10 DEF Given, Puts
<1>12. ASSUME Running PROVE CountInv'
  <2>1. k = 1 /\ q = queues[1] /\ Puts(1, new) /\ queues'[1] = new
    BY <1>7, <1>12 DEF Puts
  <2>2. 1 \in DOMAIN queues /\ Len(queues') = Len(queues)
    <3>1. 1 \in DOMAIN queues
      BY <1>1, FirstPlace, Zenon
    <3> QED
      BY <1>7, <2>1, <3>1
  <2>3. Sync!Applied(q) \cap failed = {} /\ Sync!Applied(q) = First(queues)
    BY <1>4, <2>1 DEF Sync!Applied, Out, First
  <2>4. First(queues) \subseteq Sync!Applied(new) /\ Sync!Applied(new) \subseteq applied
    BY <1>4, <1>8, <2>3 DEF CountInv
  <2>5. \A d \in Callers \ {c} :
          Given(calls[d]) \subseteq Out(queues) => Given(calls[d]) \subseteq Out(queues')
    <3> SUFFICES ASSUME NEW d \in Callers \ {c}, Given(calls[d]) \subseteq Out(queues)
                 PROVE  Given(calls[d]) \subseteq Out(queues')
      OBVIOUS
    <3>1. Given(calls[d]) \cap (ok \cup failed) = {}
      BY <1>4, <1>12 DEF CountInv
    <3> QED
      BY <1>6, <2>1, <3>1 DEF Out, IsMarked
  <2>6. CountFits(call, applied, queues', TRUE)
    <3>1. First(queues') = Sync!Applied(new)
      BY <2>1 DEF First
    <3>2. call.cursor <= Cardinality(First(queues'))
      <4>1. call.cursor = Cardinality(First(queues')) /\ call.cursor \in 0..MaxOps
        BY <1>7, <1>10, <3>1, Zenon
      <4> QED
        BY <4>1, NotMore, Zenon
    <3> QED
      BY <1>10, <1>11, <3>2 DEF CountFits
  <2>7. \A d \in Callers \ {c} : Given(calls[d]) \cap Given(call) = {}
    BY <1>11
  <2> QED
    BY <1>8, <1>10, <1>12, <2>1, <2>2, <2>4, <2>5, <2>6, <2>7, CountFirst
<1>13. ASSUME ~Running PROVE CountInv'
  <2>1. ok \cap First(queues) = {}
    BY <1>4 DEF Out, First, Sync!Applied
  <2>2. Sync!Applied(new) \subseteq Later(applied, queues)
    BY <1>4, <1>8, <1>13, <2>1 DEF Later
  <2>3. CountFits(call, applied, queues', FALSE)
    BY <1>10, <1>11, <1>13 DEF CountFits
  <2>4. Still /\ current' # 1
    BY <1>13 DEF StillHere, Still, CountInv
  <2> QED
    BY <1>7, <1>8, <1>10, <1>13, <2>2, <2>3, <2>4, CountLater
<1> QED
  BY <1>12, <1>13

\* What a queue loaded from the plan counts.
LEMMA LoadedCounts ==
  ASSUME Sync!SynchronizationAssumption, NoPause, CountInv, NEW k \in DOMAIN queues, k # 1,
         NEW n \in 0..MaxOps, n <= Cardinality(First(queues))
  PROVE  LET q == Sync!Reloaded(queues[k], n)
         IN  q \in SyncQueues /\ Full(q) /\ Sync!Applied(q) \subseteq Later(applied, queues)
<1>1. queues[k] \in SyncQueues /\ (Full(queues[k]) \/ Sync!IsEmpty(queues[k]))
      /\ Sync!Applied(queues[k]) \subseteq Later(applied, queues)
  BY EnoughRoom DEF CountInv
<1>2. CASE ~Sync!IsEmpty(queues[k])
  BY <1>1, <1>2 DEF Sync!Reloaded
<1>3. CASE Sync!IsEmpty(queues[k])
  <2>1. PICK q : q = Sync!Loaded(queues[k], n)
    OBVIOUS
  <2>2. /\ q \in SyncQueues
        /\ \A o \in Sync!Ops : q.ops[o] = IF o <= n THEN "applied" ELSE "pending"
    BY <1>1, <2>1, LoadedIs
  <2>3. n \in Nat /\ Cardinality(First(queues)) \in Nat
    BY FirstCount DEF Sync!SynchronizationAssumption
  <2>4. \A o \in Sync!Ops : o <= n => o \in 1..Cardinality(First(queues))
    BY <2>3 DEF Sync!Ops, Sync!SynchronizationAssumption
  <2>5. Sync!Applied(q) \subseteq Later(applied, queues) /\ Full(q)
    BY <2>2, <2>4 DEF Sync!Applied, Later, Full
  <2> QED
    BY <1>3, <2>1, <2>2, <2>5 DEF Sync!Reloaded
<1> QED
  BY <1>2, <1>3

\* Only a session that ended has no loaded queue.
LEMMA QueueCounts ==
  ASSUME Sync!SynchronizationAssumption, NoPause, CountInv
  PROVE  /\ current \in DOMAIN queues /\ ~Sync!IsEmpty(queues[current]) => Full(queues[current])
         /\ Sync!IsEmpty(Sync!Queue) => ~Running
<1>1. 1 \in Sync!Ops
  BY DEF Sync!SynchronizationAssumption, Sync!Ops
<1>2. Running => Sync!Queue = queues[1] /\ Full(queues[1])
  BY QueueIs DEF CountInv
<1>3. ~(Full(queues[1]) /\ Sync!IsEmpty(queues[1]))
  BY <1>1 DEF Full, Sync!IsEmpty
<1> QED
  BY <1>2, <1>3 DEF CountInv

\* A request of a session that ended makes a queue, or comes to an empty one.
LEMMA CountSets ==
  ASSUME Sync!SynchronizationAssumption, NoPause, CountInv, SyncTyped', NEW c \in Callers,
         NEW call \in SyncCalls, Sync!Set(c, call), Still, Sync!IsEmpty(Sync!Queue),
         Puts(current', Sync!Queue), call.at \in {"load pull", "load report"},
         current = 0 => current' = Len(queues) + 1, current # 0 => current' = current,
         call.queue = current', call.cursor <= Cardinality(First(queues)),
         call.at = "load report" =>
           Given(call) \subseteq Out(queues) /\ call.ok \subseteq applied
  PROVE  CountInv'
<1>1. ~Running /\ current # 1
  BY QueueCounts DEF CountInv
<1>2. SyncTyped /\ Len(queues) \in Nat /\ Len(queues) >= 1 /\ DOMAIN queues = 1..Len(queues)
  BY EnoughRoom DEF CountInv
<1>3. current' # 1
  <2>1. CASE current = 0
    <3>1. current' = Len(queues) + 1
      BY <2>1
    <3> QED
      BY <1>2, <3>1, NotFirst, Zenon
  <2>2. CASE current # 0
    BY <1>1, <2>2
  <2> QED
    BY <2>1, <2>2
<1>4. First(queues') = First(queues) /\ Out(queues') = Out(queues)
  BY <1>3, FirstStays
<1>5. Sync!Applied(Sync!Queue) \subseteq Later(applied, queues)
  BY DEF Sync!IsEmpty, Sync!Applied
<1>6. CountFits(call, applied, queues', FALSE)
  BY <1>3, <1>4 DEF CountFits
<1>7. current' \in DOMAIN queues => (Full(queues[current']) => Full(Sync!Queue))
  <2>1. current = 0 => current' \notin DOMAIN queues
    BY <1>2, NewPlace
  <2>2. current # 0 => Sync!Queue = queues[current]
    BY <1>2, QueueIs
  <2> QED
    BY <2>1, <2>2
<1> QED
  BY <1>1, <1>3, <1>5, <1>6, <1>7, CountLater

LEMMA CountDequeues ==
  ASSUME Sync!SynchronizationAssumption, NoPause, CountInv, SyncTyped', NEW c \in Callers,
         NEW max \in 1..MaxOps, Sync!Dequeue(c, max)
  PROVE  CountInv'
<1>1. /\ calls[c] \in SyncCalls /\ CountFits(calls[c], applied, queues, Running)
      /\ calls[c].at = "pull" /\ calls[c].cursor \in 0..MaxOps /\ Still /\ SyncTyped
      /\ calls[c].cursor <= Cardinality(First(queues))
  <2>1. calls[c].at = "pull" /\ Still
    BY DEF Sync!Dequeue, Sync!At, Still, Sync!Elsewhere
  <2> QED
    BY <2>1, CountOf, SyncCallTyped DEF CountFits
<1>2. CASE /\ current \in DOMAIN queues /\ ~Sync!IsEmpty(queues[current])
           /\ queues[current] \in SyncQueues
           /\ Sync!Give(c, current, queues[current], max) /\ current' = current
  <2>1. Full(queues[current]) /\ StillHere
    BY <1>1, <1>2, QueueCounts DEF StillHere
  <2>2. Running => current = 1
    BY CountOf
  <2>3. ~Running => current # 1 /\ Sync!Applied(queues[current]) \subseteq Later(applied, queues)
    BY <1>2 DEF CountInv
  <2> QED
    BY <1>1, <1>2, <2>1, <2>2, <2>3, CountGives
<1>3. CASE /\ Sync!IsEmpty(Sync!Queue) /\ Puts(current', Sync!Queue) /\ current' \in DOMAIN queues'
           /\ current = 0 => current' = Len(queues) + 1
           /\ current # 0 => current' = current
           /\ Sync!Set(c, [at |-> "load pull", queue |-> current', cursor |-> calls[c].cursor,
                           max |-> max])
  <2>1. PICK call : call = [at |-> "load pull", queue |-> current', cursor |-> calls[c].cursor,
                            max |-> max]
    OBVIOUS
  <2>2. /\ call.at = "load pull" /\ call.cursor = calls[c].cursor /\ Sync!Set(c, call)
        /\ call.queue = current'
    BY <1>3, <2>1
  <2>3. call \in SyncCalls
    <3>1. current' \in Nat
      BY <1>3, PutsMeans
    <3>2. \A n \in 0..MaxOps, j \in Nat :
            [at |-> "load pull", queue |-> j, cursor |-> n, max |-> max] \in SyncCalls
      BY DEF SyncCalls
    <3> QED
      BY <1>1, <2>1, <3>1, <3>2
  <2>4. call.cursor <= Cardinality(First(queues))
    BY <1>1, <2>2
  <2> QED
    BY <1>1, <1>3, <2>2, <2>3, <2>4, CountSets
<1> QED
  BY <1>1, <1>2, <1>3, DequeueDoes

LEMMA CountLoads ==
  ASSUME Sync!SynchronizationAssumption, NoPause, CountInv, SyncTyped', NEW c \in Callers,
         Sync!LoadPull(c) \/ Sync!LoadReport(c)
  PROVE  CountInv'
<1>1. /\ calls[c] \in SyncCalls /\ CountFits(calls[c], applied, queues, Running)
      /\ calls[c].at \in {"load pull", "load report"} /\ calls[c].cursor \in 0..MaxOps
      /\ calls[c].queue \in DOMAIN queues /\ StillHere /\ SyncTyped /\ calls[c].queue # 1
      /\ calls[c].cursor <= Cardinality(First(queues))
  <2>1. calls[c].at \in {"load pull", "load report"}
    BY DEF Sync!LoadPull, Sync!LoadReport, Sync!At
  <2>2. StillHere
    BY DEF Sync!LoadPull, Sync!LoadReport, Still, StillHere, Sync!Elsewhere
  <2> QED
    BY <2>1, <2>2, CountOf, SyncCallTyped DEF Holds, CountFits
<1>2. ~Running
  BY <1>1, CountOf
<1>3. PICK q : q = Sync!Reloaded(queues[calls[c].queue], calls[c].cursor)
  OBVIOUS
<1>4. q \in SyncQueues /\ Full(q) /\ Sync!Applied(q) \subseteq Later(applied, queues)
  BY <1>1, <1>3, LoadedCounts
<1>5. CASE Sync!LoadPull(c)
  <2>1. calls[c].at = "load pull" /\ Sync!Give(c, calls[c].queue, q, calls[c].max)
    BY <1>3, <1>5 DEF Sync!LoadPull, Sync!At
  <2>2. calls[c].max \in 1..MaxOps
    BY <1>1, <2>1, SyncCallTyped
  <2> QED
    BY <1>1, <1>2, <1>4, <2>1, <2>2, CountGives
<1>6. CASE Sync!LoadReport(c)
  <2>1. calls[c].at = "load report" /\ Sync!Mark(c, calls[c].queue, q)
    BY <1>3, <1>6 DEF Sync!LoadReport, Sync!At
  <2>2. calls[c].queue \in 1..(Len(queues) + 1) /\ calls[c].queue # Len(queues) + 1
    BY <1>1, OldPlace
  <2> QED
    BY <1>1, <1>2, <1>4, <2>1, <2>2, CountMarks
<1> QED
  BY <1>5, <1>6

LEMMA CountReports ==
  ASSUME Sync!SynchronizationAssumption, NoPause, CountInv, SyncTyped', NEW c \in Callers,
         Sync!MarkReport(c)
  PROVE  CountInv'
<1>1. /\ calls[c] \in SyncCalls /\ CountFits(calls[c], applied, queues, Running)
      /\ calls[c].at = "mark" /\ calls[c].cursor \in 0..MaxOps /\ Still /\ SyncTyped
      /\ calls[c].ok \in SUBSET Sync!Ops /\ calls[c].failed \in SUBSET Sync!Ops
      /\ calls[c].state = "running" /\ calls[c].cursor <= Cardinality(First(queues))
      /\ Given(calls[c]) \subseteq Out(queues) /\ calls[c].ok \subseteq applied
  <2>1. calls[c].at = "mark" /\ Still
    BY DEF Sync!MarkReport, Sync!At, Still, Sync!Elsewhere
  <2> QED
    BY <2>1, CountOf, SyncCallTyped DEF CountFits
<1>2. CASE /\ current \in DOMAIN queues /\ queues[current] \in SyncQueues
           /\ ~Sync!IsEmpty(queues[current])
           /\ Sync!Mark(c, current, queues[current]) /\ current' = current
  <2>1. Full(queues[current]) /\ StillHere
    BY <1>1, <1>2, QueueCounts DEF StillHere
  <2>2. Running => current = 1
    BY CountOf
  <2>3. ~Running => current # 1 /\ Sync!Applied(queues[current]) \subseteq Later(applied, queues)
    BY <1>2 DEF CountInv
  <2>4. current \in 1..(Len(queues) + 1) /\ current # Len(queues) + 1
    BY <1>1, <1>2, OldPlace
  <2> QED
    BY <1>1, <1>2, <2>1, <2>2, <2>3, <2>4, CountMarks
<1>3. CASE /\ Sync!IsEmpty(Sync!Queue) /\ Puts(current', Sync!Queue) /\ current' \in DOMAIN queues'
           /\ current = 0 => current' = Len(queues) + 1
           /\ current # 0 => current' = current
           /\ Sync!Set(c, [at |-> "load report", queue |-> current', cursor |-> calls[c].cursor,
                           ok |-> calls[c].ok, failed |-> calls[c].failed])
  <2>1. PICK call : call = [at |-> "load report", queue |-> current',
                            cursor |-> calls[c].cursor, ok |-> calls[c].ok,
                            failed |-> calls[c].failed]
    OBVIOUS
  <2>2. /\ call.at = "load report" /\ call.cursor = calls[c].cursor /\ Sync!Set(c, call)
        /\ call.ok = calls[c].ok /\ call.failed = calls[c].failed /\ call.queue = current'
    BY <1>3, <2>1
  <2>3. call \in SyncCalls
    <3>1. current' \in Nat
      BY <1>3, PutsMeans
    <3>2. \A n \in 0..MaxOps, j \in Nat, S \in SUBSET Sync!Ops, T \in SUBSET Sync!Ops :
            [at |-> "load report", queue |-> j, cursor |-> n, ok |-> S, failed |-> T]
              \in SyncCalls
      BY DEF SyncCalls
    <3> QED
      BY <1>1, <2>1, <3>1, <3>2
  <2>4. /\ call.cursor <= Cardinality(First(queues)) /\ Given(call) \subseteq Out(queues)
        /\ call.ok \subseteq applied
    BY <1>1, <2>2 DEF Given
  <2> QED
    BY <1>1, <1>3, <2>2, <2>3, <2>4, CountSets
<1> QED
  BY <1>1, <1>2, <1>3, MarkReportDoes

LEMMA CountInit ==
  ASSUME Sync!SynchronizationAssumption, NoPause, Sync!Init
  PROVE  CountInv
<1>1. SyncTyped
  BY InitSyncTypes
<1>2. /\ session.state = "running" /\ session.cursor = 0 /\ current = 1 /\ advanced = FALSE
      /\ \A c \in Callers : calls[c] = Sync!Idle
  BY DEF Sync!Init
<1>3. 0 \in 0..MaxOps /\ Sync!EmptyQueue \in SyncQueues
  BY EmptyIs DEF Sync!SynchronizationAssumption
<1>4. /\ queues = <<Sync!Loaded(Sync!EmptyQueue, 0)>>
      /\ \A o \in Sync!Ops : Sync!Loaded(Sync!EmptyQueue, 0).ops[o] = IF o <= 0 THEN "applied" ELSE "pending"
  BY <1>3, LoadedIs DEF Sync!Init
<1>5. \A o \in Sync!Ops : queues[1].ops[o] = "pending"
  BY <1>4 DEF Sync!Ops
<1>6. Len(queues) = 1 /\ DOMAIN queues = {1} /\ First(queues) = {} /\ Full(queues[1])
  BY <1>4, <1>5 DEF First, Sync!Applied, Full
<1>7. Cardinality(First(queues)) \in Nat
  BY FirstCount
<1>8. Sync!Idle.at = "idle"
  BY DEF Sync!Idle
<1>9. Given(Sync!Idle) = {} /\ CountFits(Sync!Idle, applied, queues, Running)
  BY <1>8 DEF Given, CountFits
<1> QED
  BY <1>1, <1>2, <1>6, <1>7, <1>9 DEF CountInv, Running

LEMMA CountStutters ==
  ASSUME CountInv, UNCHANGED Sync!vars
  PROVE  CountInv'
<1>1. SyncTyped' /\ Running' = Running
  BY DEF Sync!vars, CountInv, SyncTyped, Running
<1> QED
  BY <1>1 DEF Sync!vars, CountInv

LEMMA CountLapses ==
  ASSUME CountInv, SyncTyped', Sync!Lapse
  PROVE  CountInv'
<1>1. session'.state = session.state /\ session'.cursor = session.cursor
  BY DEF Sync!Lapse, CountInv, SyncTyped
<1>2. Running' = Running /\ UNCHANGED <<queues, current, calls, advanced, applied>>
  BY <1>1 DEF Running, Sync!Lapse, Sync!Elsewhere
<1> QED
  BY <1>1, <1>2 DEF CountInv

LEMMA CountStep ==
  ASSUME Sync!SynchronizationAssumption, NoPause, CountInv, [Sync!Next]_Sync!vars
  PROVE  CountInv'
<1>1. SyncTyped'
  BY SyncTypesStep DEF CountInv
<1>2. CASE UNCHANGED Sync!vars
  BY <1>2, CountStutters
<1>3. ASSUME NEW c \in Callers,
             \/ Sync!Pull(c) \/ \E ok \in SUBSET Sync!Ops : Sync!Apply(c, ok)
             \/ Sync!Lose(c) \/ Sync!Report(c) \/ Sync!StoreProgress(c) \/ Sync!Check(c) \/ Sync!Advance(c)
             \/ Sync!Pause(c) \/ Sync!Resume(c) \/ Sync!Cancel(c) \/ Sync!Expire(c) \/ Sync!Write(c)
      PROVE CountInv'
  BY <1>1, <1>3, CountSmall
<1>4. ASSUME NEW c \in Callers, NEW max \in 1..MaxOps, Sync!Dequeue(c, max) PROVE CountInv'
  BY <1>1, <1>4, CountDequeues
<1>5. ASSUME NEW c \in Callers, Sync!LoadPull(c) \/ Sync!LoadReport(c) PROVE CountInv'
  BY <1>1, <1>5, CountLoads
<1>6. ASSUME NEW c \in Callers, Sync!MarkReport(c) PROVE CountInv'
  BY <1>1, <1>6, CountReports
<1>7. ASSUME NEW c \in Callers, Sync!StopQueue(c) \/ Sync!Rebuild(c) PROVE CountInv'
  BY <1>7, CountOf DEF Sync!StopQueue, Sync!Rebuild, Sync!At, CountFits
<1>8. CASE Sync!Lapse
  BY <1>1, <1>8, CountLapses
<1>9. ~Sync!Restart
  BY DEF Sync!Restart, NoPause, CountInv, SyncTyped
<1> QED
  BY <1>2, <1>3, <1>4, <1>5, <1>6, <1>7, <1>8, <1>9 DEF Sync!Next

LEMMA CountMeans == CountInv => Sync!AdvancedIsApplied
BY DEF CountInv, Sync!AdvancedIsApplied

\* However the drains of a device overlap, fail or lose their answers, and
\* however the session ends: without a pause and without a restart of the server
\* the target replica's record claims the entities only when they were applied.
THEOREM AdvancedWasCounted ==
  Sync!SynchronizationAssumption /\ NoPause /\ Sync!Spec => []Sync!AdvancedIsApplied
<1> SUFFICES ASSUME Sync!SynchronizationAssumption, NoPause
             PROVE  Sync!Spec => []Sync!AdvancedIsApplied
  OBVIOUS
<1>1. Sync!Init => CountInv
  BY CountInit
<1> QED
  BY <1>1, CountStep, CountMeans, PTL DEF Sync!Spec

-----------------------------------------------------------------------------
(* The scheduling of communications (ResourceScheduler). *)

-----------------------------------------------------------------------------
(* Sums over finite sets. *)

\* Of the subsets of a finite set that are bad, one is bad while all it
\* becomes by leaving out one element are good.
LEMMA LeastSet ==
  ASSUME NEW S, IsFiniteSet(S), NEW Bad, Bad \subseteq SUBSET S, Bad # {}
  PROVE  \E s \in Bad : \A x \in s : s \ {x} \notin Bad
<1>1. IsWellFoundedOn(StrictSubsetOrdering(S), SUBSET S)
  BY FS_StrictSubsetOrderingWellFounded, FS_FiniteSubsetsOfFinite
<1>2. PICK s \in Bad : \A t \in Bad : <<t, s>> \notin StrictSubsetOrdering(S)
  BY <1>1, WFMin
<1>3. ASSUME NEW x \in s, s \ {x} \in Bad PROVE FALSE
  <2>1. s \in SUBSET S /\ s \ {x} \in SUBSET S /\ s \ {x} \subseteq s /\ s \ {x} # s
    BY <1>3
  <2>2. <<s \ {x}, s>> \in StrictSubsetOrdering(S)
    BY <2>1 DEF StrictSubsetOrdering
  <2> QED
    BY <1>2, <1>3, <2>2
<1> QED
  BY <1>3

\* The same of numbers: what holds of 0 and goes on to the next holds of all.
LEMMA NumberByNumber ==
  ASSUME NEW n \in Nat, NEW Good, 0 \in Good,
         \A k \in 0..(n - 1) : k \in Good => k + 1 \in Good
  PROVE  n \in Good
<1> SUFFICES ASSUME n \notin Good PROVE FALSE
  OBVIOUS
<1> DEFINE Bad == {s \in SUBSET (1..n) : \E k \in 0..n : s = 1..k /\ k \notin Good}
<1>1. IsFiniteSet(1..n) /\ 1..n \in Bad
  BY FS_Interval
<1>2. PICK s \in Bad : \A x \in s : s \ {x} \notin Bad
  BY <1>1, LeastSet
<1>3. PICK k \in 0..n : s = 1..k /\ k \notin Good
  BY <1>2
<1>4. k # 0 /\ k \in s /\ k - 1 \in 0..(n - 1)
  BY <1>3
<1>5. s \ {k} = 1..(k - 1)
  BY <1>3, <1>4
<1>6. k - 1 \in Good
  <2>1. 1..(k - 1) \in SUBSET (1..n) /\ 1..(k - 1) \notin Bad /\ k - 1 \in 0..n
    <3>1. 1..(k - 1) \subseteq 1..n /\ k - 1 \in 0..n
      BY <1>3, <1>4
    <3>2. 1..(k - 1) \notin Bad
      BY <1>2, <1>4, <1>5, Zenon
    <3> QED
      BY <3>1, <3>2
  <2> QED
    BY <2>1
<1> QED
  BY <1>3, <1>4, <1>6

\* A sum as it is computed: it takes the elements in the order of CHOOSE.
IsSum(it, e, S) ==
  it = [s \in SUBSET S |->
          IF s = {} THEN 0
          ELSE LET x == CHOOSE y \in s : TRUE IN e[x] + it[s \ {x}]]
Total(e, S) == (CHOOSE it : IsSum(it, e, S))[S]

LEMMA SumAt ==
  ASSUME NEW S, NEW e, NEW it, IsSum(it, e, S), NEW s \in SUBSET S
  PROVE  /\ s = {} => it[s] = 0
         /\ s # {} => \E x \in s : it[s] = e[x] + it[s \ {x}] /\ x = CHOOSE y \in s : TRUE
BY DEF IsSum

\* The sum of the sets of at most n elements.
SumUpTo(g, e, S, n) ==
  /\ g \in [SUBSET S -> Int]
  /\ \A s \in SUBSET S : Cardinality(s) <= n =>
       g[s] = IF s = {} THEN 0
              ELSE LET x == CHOOSE y \in s : TRUE IN e[x] + g[s \ {x}]
LEMMA SumExists ==
  ASSUME NEW S, IsFiniteSet(S), NEW e \in [S -> Int]
  PROVE  \E it : it \in [SUBSET S -> Int] /\ IsSum(it, e, S)
<1> DEFINE Good == {n \in Nat : \E g : SumUpTo(g, e, S, n)}
<1>1. \A s \in SUBSET S : IsFiniteSet(s) /\ Cardinality(s) \in Nat
                          /\ Cardinality(s) <= Cardinality(S)
  BY FS_Subset, FS_CardinalityType
<1>2. 0 \in Good
  <2>1. \A s \in SUBSET S : Cardinality(s) <= 0 => s = {}
    BY <1>1, FS_EmptySet
  <2>2. SumUpTo([s \in SUBSET S |-> 0], e, S, 0)
    BY <2>1 DEF SumUpTo
  <2> QED
    BY <2>2
<1>3. ASSUME NEW n \in Nat, n \in Good PROVE n + 1 \in Good
  <2>1. PICK g : SumUpTo(g, e, S, n)
    BY <1>3
  <2> DEFINE Of(s) == IF s = {} THEN 0
                      ELSE LET x == CHOOSE y \in s : TRUE IN e[x] + g[s \ {x}]
             f == [s \in SUBSET S |-> Of(s)]
  <2>2. \A s \in SUBSET S : s # {} =>
          LET x == CHOOSE y \in s : TRUE
          IN  x \in s /\ x \in S /\ e[x] \in Int /\ s \ {x} \in SUBSET S
              /\ g[s \ {x}] \in Int
              /\ (Cardinality(s) <= n + 1 => Cardinality(s \ {x}) <= n)
    <3> SUFFICES ASSUME NEW s \in SUBSET S, s # {}, NEW x \in s
                 PROVE  x \in S /\ e[x] \in Int /\ s \ {x} \in SUBSET S
                        /\ g[s \ {x}] \in Int
                        /\ (Cardinality(s) <= n + 1 => Cardinality(s \ {x}) <= n)
      OBVIOUS
    <3>1. Cardinality(s \ {x}) = Cardinality(s) - 1 /\ Cardinality(s) \in Nat
      BY <1>1, FS_RemoveElement
    <3> QED
      BY <2>1, <3>1 DEF SumUpTo
  <2>3. f \in [SUBSET S -> Int]
    <3>1. \A s \in SUBSET S : Of(s) \in Int
      BY <2>2
    <3> HIDE DEF Of
    <3> QED
      BY <3>1
  <2>4. \A s \in SUBSET S : Cardinality(s) <= n => g[s] = Of(s)
    BY <2>1 DEF SumUpTo
  <2>5. \A s \in SUBSET S : Cardinality(s) <= n => g[s] = f[s]
    BY <2>4
  <2>6. ASSUME NEW s \in SUBSET S, Cardinality(s) <= n + 1
        PROVE  f[s] = IF s = {} THEN 0
                      ELSE LET z == CHOOSE y \in s : TRUE IN e[z] + f[s \ {z}]
    <3>1. CASE s = {}
      BY <3>1
    <3>2. CASE s # {}
      <4>1. PICK x : x = CHOOSE y \in s : TRUE
        OBVIOUS
      <4>2. f[s] = e[x] + g[s \ {x}]
        BY <3>2, <4>1
      <4>3. s \ {x} \in SUBSET S /\ Cardinality(s \ {x}) <= n
        BY <2>2, <2>6, <3>2, <4>1
      <4>4. g[s \ {x}] = f[s \ {x}]
        BY <2>5, <4>3
      <4> QED
        BY <3>2, <4>1, <4>2, <4>4
    <3> QED
      BY <3>1, <3>2
  <2> HIDE DEF f
  <2>7. SumUpTo(f, e, S, n + 1)
    BY <2>3, <2>6 DEF SumUpTo
  <2> QED
    BY <2>7
<1>4. Cardinality(S) \in Nat
  BY FS_CardinalityType
<1> HIDE DEF Good
<1>5. Cardinality(S) \in Good
  BY <1>2, <1>3, <1>4, NumberByNumber
<1>6. PICK g : SumUpTo(g, e, S, Cardinality(S))
  BY <1>5 DEF Good
<1>7. g = [s \in SUBSET S |-> IF s = {} THEN 0
             ELSE LET x == CHOOSE y \in s : TRUE IN e[x] + g[s \ {x}]]
  BY <1>1, <1>6 DEF SumUpTo
<1> QED
  BY <1>6, <1>7 DEF IsSum, SumUpTo

\* What is added decides about the sum.
LEMMA SumsAgree ==
  ASSUME NEW S, NEW T, T \subseteq S, IsFiniteSet(T), NEW e, NEW f,
         \A x \in T : e[x] = f[x],
         NEW it, IsSum(it, e, S), NEW jt, IsSum(jt, f, T)
  PROVE  \A s \in SUBSET T : it[s] = jt[s]
<1> DEFINE Bad == {s \in SUBSET T : it[s] # jt[s]}
<1> SUFFICES ASSUME Bad # {} PROVE FALSE
  OBVIOUS
<1>1. PICK s \in Bad : \A x \in s : s \ {x} \notin Bad
  BY LeastSet
<1>2. s \in SUBSET S /\ s \in SUBSET T
  OBVIOUS
<1>3. s # {}
  BY <1>1, <1>2, SumAt
<1>4. PICK x \in s : it[s] = e[x] + it[s \ {x}] /\ x = CHOOSE y \in s : TRUE
  BY <1>2, <1>3, SumAt
<1>5. jt[s] = f[x] + jt[s \ {x}]
  <2>1. PICK y \in s : jt[s] = f[y] + jt[s \ {y}] /\ y = CHOOSE z \in s : TRUE
    BY <1>2, <1>3, SumAt
  <2> QED
    BY <1>4, <2>1
<1>6. it[s \ {x}] = jt[s \ {x}]
  BY <1>1, <1>4
<1> QED
  BY <1>1, <1>2, <1>4, <1>5, <1>6

\* The sums of all the subsets.
SumsOf(it, e, S) ==
  /\ it \in [SUBSET S -> Int] /\ IsSum(it, e, S)
  /\ \A s \in SUBSET S : Total(e, s) = it[s]
LEMMA TotalIs ==
  ASSUME NEW S, IsFiniteSet(S), NEW e \in [S -> Int]
  PROVE  \E it : SumsOf(it, e, S)
<1>1. \E it : it \in [SUBSET S -> Int] /\ IsSum(it, e, S)
  BY SumExists
<1>2. PICK it : it \in [SUBSET S -> Int] /\ IsSum(it, e, S)
  BY <1>1
<1>3. ASSUME NEW s \in SUBSET S PROVE Total(e, s) = it[s]
  <2>1. IsFiniteSet(s)
    BY FS_Subset
  <2>2. [x \in s |-> e[x]] \in [s -> Int]
    OBVIOUS
  <2>3. PICK jt : IsSum(jt, [x \in s |-> e[x]], s)
    BY <2>1, <2>2, SumExists
  <2>4. IsSum(jt, e, s)
    BY <2>3 DEF IsSum
  <2>5. IsSum(CHOOSE kt : IsSum(kt, e, s), e, s)
    BY <2>4
  <2>6. PICK kt : kt = (CHOOSE lt : IsSum(lt, e, s)) /\ IsSum(kt, e, s)
    BY <2>5
  <2>7. it[s] = kt[s]
    BY <1>2, <2>1, <2>6, SumsAgree
  <2> QED
    BY <2>6, <2>7 DEF Total
<1> QED
  BY <1>2, <1>3 DEF SumsOf

\* One element is as good as another to begin with.
LEMMA TotalOfOne ==
  ASSUME NEW S, IsFiniteSet(S), NEW e \in [S -> Int]
  PROVE  /\ Total(e, {}) = 0
         /\ \A s \in SUBSET S : Total(e, s) \in Int
         /\ \A s \in SUBSET S : \A x \in s : Total(e, s) = e[x] + Total(e, s \ {x})
<1>0. PICK it : SumsOf(it, e, S)
  BY TotalIs, Zenon
<1>1. /\ it \in [SUBSET S -> Int] /\ IsSum(it, e, S)
      /\ \A s \in SUBSET S : Total(e, s) = it[s]
  BY <1>0 DEF SumsOf
<1>2. it[{}] = 0
  BY <1>1, SumAt
<1> DEFINE Bad == {s \in SUBSET S : \E x \in s : it[s] # e[x] + it[s \ {x}]}
<1>3. Bad = {}
  <2> SUFFICES ASSUME Bad # {} PROVE FALSE
    OBVIOUS
  <2>1. PICK s \in Bad : \A x \in s : s \ {x} \notin Bad
    BY LeastSet
  <2>2. PICK x \in s : it[s] # e[x] + it[s \ {x}]
    BY <2>1
  <2>3. s \in SUBSET S /\ s # {}
    BY <2>2
  <2>a. IsSum(it, e, S)
    BY <1>1
  <2>4. PICK y \in s : it[s] = e[y] + it[s \ {y}] /\ y = CHOOSE z \in s : TRUE
    BY <2>3, <2>a, SumAt
  <2>5. x # y /\ x \in s \ {y} /\ y \in s \ {x}
    BY <2>2, <2>4
  <2>6. it[s \ {y}] = e[x] + it[(s \ {y}) \ {x}] /\ it[s \ {x}] = e[y] + it[(s \ {x}) \ {y}]
    <3>1. s \ {y} \in SUBSET S /\ s \ {x} \in SUBSET S
      BY <2>3
    <3> QED
      BY <2>1, <2>5, <3>1
  <2>7. (s \ {y}) \ {x} = (s \ {x}) \ {y} /\ (s \ {y}) \ {x} \in SUBSET S
    BY <2>3
  <2>8. e[x] \in Int /\ e[y] \in Int /\ it[(s \ {y}) \ {x}] \in Int
    <3>1. x \in S /\ y \in S
      BY <2>3
    <3>2. it \in [SUBSET S -> Int]
      BY <1>1
    <3> QED
      BY <2>7, <3>1, <3>2
  <2>9. PICK i, j, r \in Int : i = e[x] /\ j = e[y] /\ r = it[(s \ {y}) \ {x}]
    BY <2>8
  <2>10. it[s] = j + (i + r)
    BY <2>4, <2>6, <2>9
  <2>11. it[s \ {x}] = j + r
    BY <2>6, <2>7, <2>9, Zenon
  <2>12. it[s] # i + (j + r)
    BY <2>2, <2>9, <2>11
  <2> QED
    BY <2>9, <2>10, <2>12
<1>4. \A s \in SUBSET S : \A x \in s : it[s] = e[x] + it[s \ {x}]
  BY <1>3
<1>5. \A s \in SUBSET S : \A x \in s : s \ {x} \in SUBSET S
  OBVIOUS
<1> HIDE DEF Bad
<1> QED
  BY <1>1, <1>2, <1>4, <1>5

\* A sum of parts.
LEMMA TotalMoves ==
  ASSUME NEW S, IsFiniteSet(S), NEW D \in SUBSET S, NEW e \in [S -> Int],
         NEW f \in [S -> Int],
         \A x \in S \ D : f[x] = e[x]
  PROVE  Total(f, S) = Total(e, S) - Total(e, D) + Total(f, D)
<1> DEFINE Bad == {s \in SUBSET S : Total(f, s) # Total(e, s) - Total(e, s \cap D)
                                                   + Total(f, s \cap D)}
<1>1. Bad = {}
  <2> SUFFICES ASSUME Bad # {} PROVE FALSE
    OBVIOUS
  <2>1. PICK s \in Bad : \A x \in s : s \ {x} \notin Bad
    BY LeastSet
  <2>2. s \in SUBSET S
    OBVIOUS
  <2>3. CASE s = {}
    <3>1. s \cap D = {} /\ Total(f, {}) = 0 /\ Total(e, {}) = 0
      BY <2>3, TotalOfOne
    <3> QED
      BY <2>1, <2>3, <3>1
  <2>4. CASE s # {}
    <3>1. PICK x \in s : TRUE
      BY <2>4
    <3>2. s \ {x} \in SUBSET S /\ s \cap D \in SUBSET S
      BY <2>2
    <3>3. Total(f, s \ {x}) = Total(e, s \ {x}) - Total(e, (s \ {x}) \cap D)
                              + Total(f, (s \ {x}) \cap D)
      BY <2>1, <3>1, <3>2
    <3>4. Total(f, s) = f[x] + Total(f, s \ {x}) /\ Total(e, s) = e[x] + Total(e, s \ {x})
      BY <2>2, TotalOfOne
    <3>5. /\ Total(f, s \ {x}) \in Int /\ Total(e, s \ {x}) \in Int
          /\ Total(f, (s \ {x}) \cap D) \in Int /\ Total(e, (s \ {x}) \cap D) \in Int
          /\ e[x] \in Int /\ f[x] \in Int
      <4>1. (s \ {x}) \cap D \in SUBSET S
        BY <2>2
      <4> QED
        BY <2>2, <3>2, <4>1, TotalOfOne
    <3>6. CASE x \in D
      <4>1. x \in s \cap D /\ (s \cap D) \ {x} = (s \ {x}) \cap D
        BY <3>6
      <4>2. /\ Total(f, s \cap D) = f[x] + Total(f, (s \ {x}) \cap D)
            /\ Total(e, s \cap D) = e[x] + Total(e, (s \ {x}) \cap D)
        BY <3>2, <4>1, TotalOfOne
      <4>3. Total(f, s) = Total(e, s) - Total(e, s \cap D) + Total(f, s \cap D)
        BY <3>3, <3>4, <3>5, <4>2
      <4> QED
        BY <2>1, <4>3
    <3>7. CASE x \notin D
      <4>1. s \cap D = (s \ {x}) \cap D /\ f[x] = e[x]
        BY <2>2, <3>7
      <4>3. Total(e, s \cap D) = Total(e, (s \ {x}) \cap D)
            /\ Total(f, s \cap D) = Total(f, (s \ {x}) \cap D)
        BY <4>1, Zenon
      <4>2. Total(f, s) = Total(e, s) - Total(e, s \cap D) + Total(f, s \cap D)
        BY <3>3, <3>4, <3>5, <4>1, <4>3
      <4> QED
        BY <2>1, <4>2
    <3> QED
      BY <3>6, <3>7
  <2> QED
    BY <2>3, <2>4
<1>2. S \cap D = D /\ S \notin Bad
  BY <1>1
<1> QED
  BY <1>2

LEMMA OneMore ==
  ASSUME NEW i \in Nat, NEW j \in Int, NEW k \in Nat, j >= k
  PROVE  i + j >= k
OBVIOUS

\* A sum of numbers is at least how many of them are not zero.
LEMMA TotalCounts ==
  ASSUME NEW S, IsFiniteSet(S), NEW C \in SUBSET S, NEW e \in [S -> Nat],
         \A x \in C : e[x] >= 1
  PROVE  Total(e, S) >= Cardinality(C) /\ Total(e, S) \in Nat
<1>0. e \in [S -> Int]
  OBVIOUS
<1> DEFINE Bad == {s \in SUBSET S : ~(Total(e, s) >= Cardinality(s \cap C))}
<1>c. \A s \in SUBSET S : IsFiniteSet(s \cap C) /\ Cardinality(s \cap C) \in Nat
  BY FS_Subset, FS_CardinalityType
<1>1. Bad = {}
  <2> SUFFICES ASSUME Bad # {} PROVE FALSE
    OBVIOUS
  <2>1. PICK s \in Bad : \A x \in s : s \ {x} \notin Bad
    BY LeastSet
  <2>2. s \in SUBSET S
    OBVIOUS
  <2>3. CASE s = {}
    <3>1. s \cap C = {} /\ Total(e, {}) = 0 /\ Cardinality({}) = 0
      BY <1>0, <2>3, TotalOfOne, FS_EmptySet
    <3> QED
      BY <2>1, <2>3, <3>1
  <2>4. CASE s # {}
    <3>1. PICK x \in s : TRUE
      BY <2>4
    <3>2. s \ {x} \in SUBSET S
      BY <2>2
    <3>3. Total(e, s \ {x}) >= Cardinality((s \ {x}) \cap C)
      BY <2>1, <3>1, <3>2
    <3>4. Total(e, s) = e[x] + Total(e, s \ {x}) /\ Total(e, s \ {x}) \in Int
          /\ e[x] \in Nat
      BY <1>0, <2>2, <3>2, TotalOfOne
    <3>5. /\ Cardinality((s \ {x}) \cap C) \in Nat /\ Cardinality(s \cap C) \in Nat
          /\ IsFiniteSet(s \cap C)
      BY <1>c, <2>2, <3>2
    <3>6. CASE x \in C
      <4>1. (s \ {x}) \cap C = (s \cap C) \ {x} /\ x \in s \cap C /\ e[x] >= 1
        BY <3>6
      <4>2. Cardinality((s \cap C) \ {x}) = Cardinality(s \cap C) - 1
        BY <3>5, <4>1, FS_RemoveElement
      <4>3. Total(e, s) >= Cardinality(s \cap C)
        <5>1. PICK i \in Nat, j \in Int, k \in Nat :
                i = e[x] /\ j = Total(e, s \ {x}) /\ k = Cardinality(s \cap C)
          BY <3>4, <3>5
        <5>2. Total(e, s) = i + j /\ i >= 1
          BY <3>4, <4>1, <5>1
        <5>3. j >= Cardinality((s \cap C) \ {x})
          BY <3>3, <4>1, <5>1, Zenon
        <5> QED
          BY <4>2, <5>1, <5>2, <5>3
      <4> QED
        BY <2>1, <4>3
    <3>7. CASE x \notin C
      <4>1. (s \ {x}) \cap C = s \cap C
        BY <3>7
      <4>3. Cardinality(s \cap C) = Cardinality((s \ {x}) \cap C)
        BY <4>1, Zenon
      <4>2. Total(e, s) >= Cardinality(s \cap C)
        <5>1. PICK i \in Nat, j \in Int, k \in Nat :
                i = e[x] /\ j = Total(e, s \ {x}) /\ k = Cardinality((s \ {x}) \cap C)
          BY <3>4, <3>5
        <5>2. Total(e, s) = i + j /\ j >= k /\ Cardinality(s \cap C) = k
          BY <3>3, <3>4, <4>3, <5>1
        <5> QED
          BY <5>1, <5>2, OneMore
      <4> QED
        BY <2>1, <4>2
    <3> QED
      BY <3>6, <3>7
  <2> QED
    BY <2>3, <2>4
<1>2. S \cap C = C /\ S \notin Bad /\ S \in SUBSET S
  BY <1>1
<1>3. Total(e, S) >= Cardinality(C) /\ Total(e, S) \in Int /\ Cardinality(C) \in Nat
  BY <1>0, <1>c, <1>2, TotalOfOne
<1> QED
  BY <1>3

\* What the reservations take, as a sum.
Needs(res, kind) == [r \in DOMAIN res |-> res[r].cost[kind]]
LEMMA TakingIs ==
  ASSUME NEW res, NEW kind, IsFiniteSet(DOMAIN res), Needs(res,
         kind) \in [DOMAIN res -> Int]
  PROVE  Schedule!Taking(res, kind) = Total(Needs(res, kind), DOMAIN res)
<1> DEFINE S == DOMAIN res
           P(it) == it = [s \in SUBSET S |->
             IF s = {} THEN 0
             ELSE LET x == CHOOSE x \in s : TRUE IN res[x].cost[kind] + it[s \ {x}]]
<1>1. Schedule!Taking(res, kind) = (CHOOSE it : P(it))[S]
  BY DEF Schedule!Taking, Schedule!MapThenSumSet, Schedule!MapThenFoldSet
<1>2. \A it : P(it) <=> IsSum(it, Needs(res, kind), S)
  BY DEF IsSum, Needs
<1>a. PICK f : SumsOf(f, Needs(res, kind), S)
  BY TotalIs, Zenon
<1>3. IsSum(f, Needs(res, kind), S) /\ Total(Needs(res, kind), S) = f[S]
  BY <1>a DEF SumsOf
<1> HIDE DEF P
<1>4. P(CHOOSE it : P(it))
  BY <1>2, <1>3
<1>5. PICK it : it = (CHOOSE jt : P(jt)) /\ IsSum(it, Needs(res, kind), S)
  BY <1>2, <1>4
<1>6. it[S] = f[S]
  BY <1>3, <1>5, SumsAgree
<1> QED
  BY <1>1, <1>3, <1>5, <1>6


-----------------------------------------------------------------------------
(* The invariant. *)

Entries == [id : Communications, cost : Schedule!Costs, early : BOOLEAN, wait : 0..MaxWait]
Reservations == {Schedule!NotReserved} \cup [by : {"optimize", "dispatch"}, cost : Schedule!Costs]
States == {"none", "scheduled", "deferred", "running", "completed", "failed", "cancelled"}

QueuesHold(queued) ==
  /\ queued \in [Schedule!Lanes -> Seq(Entries)]
  /\ \A l \in Schedule!Lanes : Len(queued[l]) <= LaneCapacity
\* A request waits at one place.
WaitsOnce(queued) ==
  \A l, m \in Schedule!Lanes : \A i \in 1..Len(queued[l]), j \in 1..Len(queued[m]) :
    queued[l][i].id = queued[m][j].id => l = m /\ i = j
\* Who came first to a lane is as old as who came later.
OlderAhead(queued) ==
  \A l \in Schedule!Lanes : \A i, j \in 1..Len(queued[l]) :
    i <= j => queued[l][i].wait >= queued[l][j].wait
LaneInv == QueuesHold(lanes) /\ WaitsOnce(lanes) /\ OlderAhead(lanes)

\* Two sequences, one after the other.
LEMMA InARow ==
  ASSUME NEW S, NEW a \in Seq(S), NEW b \in Seq(S)
  PROVE  /\ a \o b \in Seq(S) /\ Len(a \o b) = Len(a) + Len(b)
         /\ \A i \in 1..(Len(a) + Len(b)) :
              (a \o b)[i] = IF i <= Len(a) THEN a[i] ELSE b[i - Len(a)]
OBVIOUS

\* Whoever is ahead in a lane has not waited less.
LEMMA AheadIsOlder ==
  ASSUME NEW q, OlderAhead(q), NEW l \in Schedule!Lanes,
         NEW i \in 1..Len(q[l]), NEW j \in 1..Len(q[l]), i <= j
  PROVE  q[l][i].wait >= q[l][j].wait
BY DEF OlderAhead

\* The place of a request is one.
LEMMA OnePlace ==
  ASSUME NEW q, WaitsOnce(q), NEW l \in Schedule!Lanes, NEW m \in Schedule!Lanes,
         NEW i \in 1..Len(q[l]), NEW j \in 1..Len(q[m]), q[l][i].id = q[m][j].id
  PROVE  l = m /\ i = j
BY DEF WaitsOnce

ReservedTyped == reserved \in [Communications -> Reservations]
SumsHold ==
  /\ allocated \in [Schedule!Kinds -> Int]
  /\ \A kind \in Schedule!Kinds : allocated[kind] = Total(Needs(reserved, kind), Communications)
ByDispatch(res) == {r \in Communications : res[r].by = "dispatch"}
RunningHas ==
  /\ state \in [Communications -> States]
  /\ \A r \in Communications : state[r] = "running" => reserved[r] # Schedule!NotReserved
ScheduleInv ==
  /\ LaneInv /\ ReservedTyped /\ SumsHold /\ RunningHas
  /\ Cardinality(ByDispatch(reserved)) <= Executions

LEMMA InitSchedule ==
  ASSUME Schedule!ResourceSchedulerAssumption, Schedule!Init
  PROVE  ScheduleInv
<1>1. LaneInv
  BY DEF Schedule!ResourceSchedulerAssumption, Schedule!Init, LaneInv, QueuesHold,
     WaitsOnce, OlderAhead
<1>2. ReservedTyped /\ RunningHas
  BY DEF Schedule!Init, ReservedTyped, RunningHas, Reservations, States
<1>3. ByDispatch(reserved) = {}
  BY DEF Schedule!Init, ByDispatch, Schedule!NotReserved
<1>4. Cardinality(ByDispatch(reserved)) <= Executions
  BY <1>3, FS_EmptySet DEF Schedule!ResourceSchedulerAssumption
<1>5. SumsHold
  <2>1. IsFiniteSet(Communications) /\ allocated \in [Schedule!Kinds -> Int]
    BY SameCount DEF Schedule!Init, Schedule!ResourceSchedulerAssumption
  <2>2. ASSUME NEW kind \in Schedule!Kinds
        PROVE  allocated[kind] = Total(Needs(reserved, kind), Communications)
    <3> DEFINE e == Needs(reserved, kind)
               Bad == {s \in SUBSET Communications : Total(e, s) # 0}
    <3>1. e \in [Communications -> Int] /\ \A r \in Communications : e[r] = 0
      BY DEF Schedule!Init, Needs, Schedule!NotReserved
    <3> HIDE DEF e
    <3>2. Bad = {}
      <4> SUFFICES ASSUME Bad # {} PROVE FALSE
        OBVIOUS
      <4>1. PICK s \in Bad : \A x \in s : s \ {x} \notin Bad
        BY <2>1, LeastSet
      <4>2. s # {}
        BY <2>1, <3>1, TotalOfOne
      <4>3. PICK x \in s : TRUE
        BY <4>2
      <4>4. Total(e, s) = e[x] + Total(e, s \ {x}) /\ s \ {x} \in SUBSET Communications
        BY <2>1, <3>1, TotalOfOne
      <4>5. Total(e, s \ {x}) = 0
        BY <4>1, <4>4
      <4> QED
        BY <3>1, <4>4, <4>5
    <3>3. Total(e, Communications) = 0
      BY <3>2
    <3>4. allocated[kind] = 0
      BY DEF Schedule!Init
    <3> QED
      BY <3>3, <3>4 DEF e
  <2> QED
    BY <2>1, <2>2 DEF SumsHold
<1> QED
  BY <1>1, <1>2, <1>4, <1>5 DEF ScheduleInv

-----------------------------------------------------------------------------
(* Reservations. *)

LEMMA TotalAgrees ==
  ASSUME NEW S, IsFiniteSet(S), NEW T \in SUBSET S, NEW e \in [S -> Int],
         NEW f \in [T -> Int],
         \A x \in T : e[x] = f[x]
  PROVE  Total(e, T) = Total(f, T)
<1>1. IsFiniteSet(T)
  BY FS_Subset
<1>2. PICK it : SumsOf(it, e, S)
  BY TotalIs, Zenon
<1>3. PICK jt : SumsOf(jt, f, T)
  BY <1>1, TotalIs, Zenon
<1>4. it[T] = jt[T]
  BY <1>1, <1>2, <1>3, SumsAgree DEF SumsOf
<1>5. Total(e, T) = it[T] /\ Total(f, T) = jt[T]
  BY <1>2, <1>3 DEF SumsOf
<1> QED
  BY <1>4, <1>5

\* What is needed of a resource is a number.
LEMMA NeedsNumbers ==
  ASSUME Schedule!ResourceSchedulerAssumption, NEW kind \in Schedule!Kinds, NEW res,
         \A r \in DOMAIN res : res[r] \in Reservations
  PROVE  Needs(res, kind) \in [DOMAIN res -> Nat]
<1>1. ASSUME NEW x \in Reservations PROVE x.cost[kind] \in Nat
  BY <1>1 DEF Reservations, Schedule!NotReserved, Schedule!Costs, Schedule!Kinds,
     Schedule!ResourceSchedulerAssumption
<1> QED
  BY <1>1 DEF Needs

\* The sums follow a reservation that replaces others.
LEMMA ReserveKeeps ==
  ASSUME Schedule!ResourceSchedulerAssumption, ReservedTyped, SumsHold, NEW new,
         DOMAIN new \subseteq Communications, \A r \in DOMAIN new : new[r] \in Reservations,
         Schedule!Reserve(new)
  PROVE  ReservedTyped' /\ SumsHold'
<1> DEFINE D == DOMAIN new
<1>0. IsFiniteSet(Communications) /\ IsFiniteSet(D) /\ D \in SUBSET Communications
  BY FS_Subset, SameCount DEF Schedule!ResourceSchedulerAssumption
<1>1. reserved' = [r \in Communications |-> IF r \in D THEN new[r] ELSE reserved[r]]
  BY DEF Schedule!Reserve
<1>2. ReservedTyped'
  BY <1>1 DEF ReservedTyped
<1>3. allocated' \in [Schedule!Kinds -> Int]
      /\ \A kind \in Schedule!Kinds : allocated'[kind] = Total(Needs(reserved', kind), Communications)
  <2> SUFFICES ASSUME NEW kind \in Schedule!Kinds
               PROVE  Schedule!Replace(new)[kind] \in Int
                      /\ Schedule!Replace(new)[kind] = Total(Needs(reserved', kind), Communications)
    <3>1. allocated' = Schedule!Replace(new) /\ DOMAIN Schedule!Replace(new) = Schedule!Kinds
          /\ Schedule!Replace(new) = [kind \in Schedule!Kinds |-> Schedule!Replace(new)[kind]]
      BY DEF Schedule!Reserve, Schedule!Replace
    <3> QED
      BY <3>1
  <2> DEFINE e == Needs(reserved, kind)
             f == Needs(reserved', kind)
             old == Schedule!Restrict(reserved, D)
             g == Needs(old, kind)
             h == Needs(new, kind)
  <2>1. DOMAIN reserved = Communications /\ DOMAIN reserved' = Communications /\ DOMAIN old = D
    BY <1>1, <1>0 DEF ReservedTyped, Schedule!Restrict
  <2>2. (\A r \in Communications : reserved[r] \in Reservations)
        /\ (\A r \in Communications : reserved'[r] \in Reservations)
        /\ (\A r \in D : old[r] = reserved[r])
    BY <1>1, <1>2, <1>0 DEF ReservedTyped, Schedule!Restrict
  <2>3. e \in [Communications -> Nat] /\ f \in [Communications -> Nat]
    BY <2>1, <2>2, NeedsNumbers
  <2>4. g \in [D -> Nat] /\ h \in [D -> Nat]
    BY <1>0, <2>1, <2>2, NeedsNumbers
  <2>5. (\A r \in Communications \ D : f[r] = e[r]) /\ (\A r \in D : f[r] = h[r])
        /\ (\A r \in D : e[r] = g[r])
    BY <1>0, <1>1, <2>1, <2>2 DEF Needs
  <2>6. Schedule!Taking(old, kind) = Total(g, D) /\ Schedule!Taking(new, kind) = Total(h, D)
    <3>1. g \in [D -> Int] /\ h \in [D -> Int]
      BY <2>4
    <3> QED
      BY <1>0, <2>1, <3>1, TakingIs
  <2>7. Schedule!Replace(new)[kind] = allocated[kind] - Schedule!Taking(old, kind) + Schedule!Taking(new, kind)
    BY DEF Schedule!Replace
  <2> HIDE DEF e, f, g, h, old, D
  <2>8. e \in [Communications -> Int] /\ f \in [Communications -> Int] /\ g \in [D -> Int] /\ h \in [D -> Int]
    BY <2>3, <2>4
  <2>9. Total(e, D) = Total(g, D) /\ Total(f, D) = Total(h, D)
    BY <1>0, <2>8, <2>5, TotalAgrees
  <2>10. Total(f, Communications) = Total(e, Communications) - Total(e, D) + Total(f, D)
    BY <1>0, <2>8, <2>5, TotalMoves
  <2>11. Total(e, Communications) \in Int /\ Total(e, D) \in Int /\ Total(f, D) \in Int
    BY <1>0, <2>8, TotalOfOne
  <2>12. allocated[kind] = Total(e, Communications)
    BY DEF SumsHold, e
  <2>13. Schedule!Replace(new)[kind] = Total(e, Communications) - Total(e, D) + Total(f, D)
    BY <2>6, <2>7, <2>9, <2>12, Zenon
  <2> QED
    BY <2>10, <2>11, <2>13 DEF f
<1> QED
  BY <1>2, <1>3 DEF SumsHold

\* And a reservation that is given back.
LEMMA ReleaseKeeps ==
  ASSUME Schedule!ResourceSchedulerAssumption, ReservedTyped, SumsHold,
         NEW r \in Communications, Schedule!Release(r)
  PROVE  ReservedTyped' /\ SumsHold'
<1>0. IsFiniteSet(Communications) /\ {r} \in SUBSET Communications
  BY SameCount DEF Schedule!ResourceSchedulerAssumption
<1>1. reserved' = [reserved EXCEPT ![r] = Schedule!NotReserved]
      /\ allocated' = [kind \in Schedule!Kinds |-> allocated[kind] - reserved[r].cost[kind]]
  BY DEF Schedule!Release
<1>2. ReservedTyped'
  BY <1>1 DEF ReservedTyped, Reservations
<1>3. ASSUME NEW kind \in Schedule!Kinds
      PROVE  allocated'[kind] \in Int
             /\ allocated'[kind] = Total(Needs(reserved', kind), Communications)
  <2> DEFINE e == Needs(reserved, kind)
             f == Needs(reserved', kind)
  <2>1. DOMAIN reserved = Communications /\ DOMAIN reserved' = Communications
    BY <1>1 DEF ReservedTyped
  <2>2. e \in [Communications -> Nat] /\ f \in [Communications -> Nat]
    BY <1>2, <2>1, NeedsNumbers DEF ReservedTyped
  <2>3. (\A q \in Communications \ {r} : f[q] = e[q]) /\ f[r] = 0 /\ e[r] = reserved[r].cost[kind]
    BY <1>1, <2>1 DEF Needs, ReservedTyped, Schedule!NotReserved
  <2>4. allocated'[kind] = Total(e, Communications) - e[r]
    BY <1>1, <2>3 DEF SumsHold
  <2> HIDE DEF e, f
  <2>5. e \in [Communications -> Int] /\ f \in [Communications -> Int] /\ e[r] \in Int
    BY <2>2
  <2>6. Total(f, Communications) = Total(e, Communications) - Total(e, {r}) + Total(f, {r})
    BY <1>0, <2>3, <2>5, TotalMoves
  <2>7. Total(e, {r}) = e[r] + Total(e, {r} \ {r}) /\ Total(f, {r}) = f[r] + Total(f, {r} \ {r})
        /\ Total(e, {}) = 0 /\ Total(f, {}) = 0 /\ Total(e, Communications) \in Int
    BY <1>0, <2>5, TotalOfOne
  <2>8. {r} \ {r} = {}
    OBVIOUS
  <2>9. Total(e, {r}) = e[r] /\ Total(f, {r}) = 0
    BY <2>3, <2>5, <2>7, <2>8
  <2> QED
    BY <2>4, <2>5, <2>6, <2>7, <2>9 DEF f
<1>4. allocated' \in [Schedule!Kinds -> Int]
  BY <1>1, <1>3
<1> QED
  BY <1>2, <1>3, <1>4 DEF SumsHold

\* What dispatch has reserved is no more than what is allocated of executions.
LEMMA DispatchedAllocated ==
  ASSUME Schedule!ResourceSchedulerAssumption, ReservedTyped, SumsHold
  PROVE  /\ Cardinality(ByDispatch(reserved)) \in Nat /\ IsFiniteSet(ByDispatch(reserved))
         /\ Cardinality(ByDispatch(reserved)) <= allocated["execution"]
         /\ allocated \in [Schedule!Kinds -> Nat]
<1>0. IsFiniteSet(Communications) /\ DOMAIN reserved = Communications
  BY SameCount DEF Schedule!ResourceSchedulerAssumption, ReservedTyped
<1>1. ByDispatch(reserved) \in SUBSET Communications
  BY DEF ByDispatch
<1>2. IsFiniteSet(ByDispatch(reserved)) /\ Cardinality(ByDispatch(reserved)) \in Nat
  BY <1>0, <1>1, FS_Subset, FS_CardinalityType
<1>3. \A kind \in Schedule!Kinds : Needs(reserved, kind) \in [Communications -> Nat]
  BY <1>0, NeedsNumbers DEF ReservedTyped
<1>4. \A r \in ByDispatch(reserved) : Needs(reserved, "execution")[r] >= 1
  BY <1>0 DEF ByDispatch, Needs, ReservedTyped, Reservations, Schedule!NotReserved,
     Schedule!Costs
<1>5. Total(Needs(reserved, "execution"), Communications) >= Cardinality(ByDispatch(reserved))
  BY <1>0, <1>1, <1>3, <1>4, TotalCounts DEF Schedule!Kinds
<1>6. ASSUME NEW kind \in Schedule!Kinds
      PROVE  Total(Needs(reserved, kind), Communications) \in Nat
  <2>1. \A x \in {} : Needs(reserved, kind)[x] >= 1
    OBVIOUS
  <2>2. {} \in SUBSET Communications /\ Needs(reserved, kind) \in [Communications -> Nat]
    BY <1>3
  <2> QED
    BY <1>0, <2>1, <2>2, TotalCounts
<1>7. allocated["execution"] = Total(Needs(reserved, "execution"), Communications)
  BY DEF SumsHold, Schedule!Kinds
<1>8. allocated \in [Schedule!Kinds -> Nat]
  BY <1>6 DEF SumsHold
<1>9. "execution" \in Schedule!Kinds
  BY DEF Schedule!Kinds
<1> QED
  BY <1>2, <1>5, <1>7, <1>8, <1>9

-----------------------------------------------------------------------------
(* The lanes. *)

\* A queue that keeps some of the old entries in their order.
Keeps(old, new, at) ==
  /\ Len(new) <= Len(old)
  /\ \A i \in 1..Len(new) : /\ at[i] \in 1..Len(old)
                            /\ new[i].id = old[at[i]].id /\ new[i].wait = old[at[i]].wait
  /\ \A i, j \in 1..Len(new) : i < j => at[i] < at[j]
LEMMA ThinnedKeeps ==
  ASSUME Schedule!ResourceSchedulerAssumption, LaneInv,
         NEW new \in [Schedule!Lanes -> Seq(Entries)], NEW at,
         \A l \in Schedule!Lanes : Keeps(lanes[l], new[l], at[l])
  PROVE  QueuesHold(new) /\ WaitsOnce(new) /\ OlderAhead(new)
<1>0. \A l \in Schedule!Lanes : Len(new[l]) \in Nat /\ Len(lanes[l]) \in Nat
  BY DEF LaneInv, QueuesHold
<1>1. QueuesHold(new)
  BY <1>0 DEF LaneInv, QueuesHold, Keeps, Schedule!ResourceSchedulerAssumption
<1>2. WaitsOnce(new)
  <2> SUFFICES ASSUME NEW l \in Schedule!Lanes, NEW m \in Schedule!Lanes,
                      NEW i \in 1..Len(new[l]), NEW j \in 1..Len(new[m]),
                      new[l][i].id = new[m][j].id
               PROVE  l = m /\ i = j
    BY DEF WaitsOnce
  <2>1. at[l][i] \in 1..Len(lanes[l]) /\ at[m][j] \in 1..Len(lanes[m])
        /\ lanes[l][at[l][i]].id = lanes[m][at[m][j]].id
    BY DEF Keeps
  <2>2. l = m /\ at[l][i] = at[m][j]
    <3>1. PICK a \in 1..Len(lanes[l]) : a = at[l][i]
      BY <2>1
    <3>2. PICK b \in 1..Len(lanes[m]) : b = at[m][j]
      BY <2>1
    <3>3. WaitsOnce(lanes) /\ lanes[l][a].id = lanes[m][b].id
      BY <2>1, <3>1, <3>2 DEF LaneInv
    <3>4. l = m /\ a = b
      BY <3>3, OnePlace
    <3> QED
      BY <3>1, <3>2, <3>4
  <2>3. ~(i < j) /\ ~(j < i)
    BY <2>1, <2>2 DEF Keeps
  <2> QED
    BY <1>0, <2>2, <2>3
<1>3. OlderAhead(new)
  <2> SUFFICES ASSUME NEW l \in Schedule!Lanes, NEW i \in 1..Len(new[l]),
                      NEW j \in 1..Len(new[l]), i <= j
               PROVE  new[l][i].wait >= new[l][j].wait
    BY DEF OlderAhead
  <2>1. at[l][i] \in 1..Len(lanes[l]) /\ at[l][j] \in 1..Len(lanes[l])
        /\ new[l][i].wait = lanes[l][at[l][i]].wait /\ new[l][j].wait = lanes[l][at[l][j]].wait
    BY DEF Keeps
  <2>2. at[l][i] <= at[l][j]
    <3>1. CASE i = j
      BY <1>0, <2>1, <3>1
    <3>2. CASE i # j
      <4>1. i < j
        BY <1>0, <3>2
      <4> QED
        BY <1>0, <2>1, <4>1 DEF Keeps
    <3> QED
      BY <3>1, <3>2
  <2>3. lanes[l][at[l][i]].wait >= lanes[l][at[l][j]].wait
    BY <2>1, <2>2 DEF LaneInv, OlderAhead
  <2> QED
    BY <2>1, <2>3
<1> QED
  BY <1>1, <1>2, <1>3

\* A place of the queues.
LEMMA PlacesAre ==
  ASSUME Schedule!ResourceSchedulerAssumption, LaneInv, NEW l \in Schedule!Lanes,
         NEW i \in 1..Len(lanes[l])
  PROVE  <<l, i>> \in Schedule!Places /\ Schedule!Entry(<<l, i>>) = lanes[l][i] /\ lanes[l][i] \in Entries
<1>1. Len(lanes[l]) \in Nat /\ Len(lanes[l]) <= LaneCapacity /\ lanes[l] \in Seq(Entries)
  BY DEF LaneInv, QueuesHold
<1>2. i \in 1..LaneCapacity
  BY <1>1 DEF Schedule!ResourceSchedulerAssumption
<1> QED
  BY <1>1, <1>2 DEF Schedule!Places, Schedule!Entry, Schedule!Queue

LEMMA LanePlaceIs ==
  ASSUME Schedule!ResourceSchedulerAssumption, LaneInv, NEW p \in Schedule!Places
  PROVE  \E l \in Schedule!Lanes : \E i \in 1..Len(lanes[l]) :
           /\ p = <<l, i>> /\ p[1] = l /\ p[2] = i /\ Schedule!Entry(p) = lanes[l][i]
           /\ lanes[l][i] \in Entries
<1>1. PICK l \in Schedule!Lanes, i \in 1..LaneCapacity : p = <<l, i>> /\ i <= Len(lanes[l])
  BY DEF Schedule!Places, Schedule!Queue
<1>2. Len(lanes[l]) \in Nat /\ lanes[l] \in Seq(Entries)
  BY DEF LaneInv, QueuesHold
<1>3. i \in 1..Len(lanes[l])
  BY <1>1, <1>2 DEF Schedule!ResourceSchedulerAssumption
<1>4. Schedule!Entry(p) = lanes[l][i] /\ p[1] = l /\ p[2] = i
  BY <1>1 DEF Schedule!Entry, Schedule!Queue
<1> QED
  BY <1>1, <1>2, <1>3, <1>4

LEMMA EnqueueKeeps ==
  ASSUME Schedule!ResourceSchedulerAssumption, LaneInv, NEW r \in Communications,
         NEW lane \in Schedule!Lanes,
         NEW cost \in Schedule!Costs, NEW early \in BOOLEAN, Schedule!Enqueue(r, lane, cost, early)
  PROVE  LaneInv'
<1> DEFINE new == [id |-> r, cost |-> cost, early |-> early, wait |-> 0]
           q == lanes[lane]
<1>1. new \in Entries /\ new.id = r /\ new.wait = 0
  BY DEF Entries, Schedule!ResourceSchedulerAssumption
<1> HIDE DEF new
<1>2. lanes \in [Schedule!Lanes -> Seq(Entries)] /\ q \in Seq(Entries) /\ Len(q) \in Nat
      /\ \A l \in Schedule!Lanes : lanes[l] \in Seq(Entries) /\ Len(lanes[l]) \in Nat
  BY DEF LaneInv, QueuesHold
<1>3. lanes' = [lanes EXCEPT ![lane] = Append(q, new)]
  BY DEF Schedule!Enqueue, new
<1>4. Append(q, new) \in Seq(Entries) /\ Len(Append(q, new)) = Len(q) + 1
      /\ \A i \in 1..Len(q) : Append(q, new)[i] = q[i]
  BY <1>1, <1>2
<1>5. Append(q, new)[Len(q) + 1] = new
  BY <1>1, <1>2
<1>6. lanes'[lane] = Append(q, new) /\ \A l \in Schedule!Lanes \ {lane} : lanes'[l] = lanes[l]
  BY <1>2, <1>3
<1>7. QueuesHold(lanes')
  <2>1. Len(q) < LaneCapacity
    BY DEF Schedule!Enqueue, Schedule!Queue
  <2>2. lanes' \in [Schedule!Lanes -> Seq(Entries)]
    BY <1>2, <1>3, <1>4
  <2> QED
    BY <1>2, <1>4, <1>6, <2>1, <2>2 DEF QueuesHold, LaneInv,
       Schedule!ResourceSchedulerAssumption
<1>8. \A l \in Schedule!Lanes : \A i \in 1..Len(lanes[l]) : lanes[l][i].id # r /\ lanes[l][i].wait >= 0
  <2> SUFFICES ASSUME NEW l \in Schedule!Lanes, NEW i \in 1..Len(lanes[l])
               PROVE  lanes[l][i].id # r /\ lanes[l][i].wait >= 0
    OBVIOUS
  <2>1. <<l, i>> \in Schedule!Places /\ Schedule!Entry(<<l, i>>) = lanes[l][i] /\ lanes[l][i] \in Entries
    BY PlacesAre
  <2>2. ~Schedule!Waits(r)
    BY DEF Schedule!Enqueue
  <2> QED
    BY <2>1, <2>2 DEF Schedule!Waits, Entries
\* Where an entry of the new queues is from.
<1>9. ASSUME NEW l \in Schedule!Lanes, NEW i \in 1..Len(lanes'[l])
      PROVE  \/ i \in 1..Len(lanes[l]) /\ lanes'[l][i] = lanes[l][i]
             \/ l = lane /\ i = Len(q) + 1 /\ lanes'[l][i] = new
  <2>1. CASE l = lane
    BY <1>2, <1>4, <1>5, <1>6, <2>1
  <2>2. CASE l # lane
    BY <1>6, <2>2
  <2> QED
    BY <2>1, <2>2
<1>10. WaitsOnce(lanes')
  <2> SUFFICES ASSUME NEW l \in Schedule!Lanes, NEW m \in Schedule!Lanes,
                      NEW i \in 1..Len(lanes'[l]), NEW j \in 1..Len(lanes'[m]),
                      lanes'[l][i].id = lanes'[m][j].id
               PROVE  l = m /\ i = j
    BY DEF WaitsOnce
  <2>1. CASE i \in 1..Len(lanes[l]) /\ lanes'[l][i] = lanes[l][i]
    <3>1. j \in 1..Len(lanes[m]) /\ lanes'[m][j] = lanes[m][j]
      BY <1>1, <1>8, <1>9, <2>1
    <3>2. WaitsOnce(lanes) /\ lanes[l][i].id = lanes[m][j].id
      BY <2>1, <3>1 DEF LaneInv
    <3>3. i \in 1..Len(lanes[l])
      BY <2>1
    <3> QED
      BY <3>1, <3>2, <3>3, OnePlace
  <2>2. CASE l = lane /\ i = Len(q) + 1 /\ lanes'[l][i] = new
    <3>1. lanes'[m][j].id = r
      BY <1>1, <2>2
    <3>2. ~(j \in 1..Len(lanes[m]) /\ lanes'[m][j] = lanes[m][j])
      BY <1>8, <3>1
    <3>3. m = lane /\ j = Len(q) + 1
      BY <1>9, <3>2, Zenon
    <3> QED
      BY <2>2, <3>3
  <2> QED
    BY <1>9, <2>1, <2>2
<1>11. OlderAhead(lanes')
  <2> SUFFICES ASSUME NEW l \in Schedule!Lanes, NEW i \in 1..Len(lanes'[l]),
                      NEW j \in 1..Len(lanes'[l]),
                      i <= j
               PROVE  lanes'[l][i].wait >= lanes'[l][j].wait
    BY DEF OlderAhead
  <2>1. CASE j \in 1..Len(lanes[l]) /\ lanes'[l][j] = lanes[l][j]
    <3>1. i \in 1..Len(lanes[l]) /\ lanes'[l][i] = lanes[l][i]
      BY <1>2, <1>9, <2>1
    <3>2. OlderAhead(lanes)
      BY DEF LaneInv
    <3>3. lanes[l][i].wait >= lanes[l][j].wait
      BY <2>1, <3>1, <3>2, AheadIsOlder
    <3> QED
      BY <2>1, <3>1, <3>3
  <2>2. CASE l = lane /\ j = Len(q) + 1 /\ lanes'[l][j] = new
    <3>1. lanes'[l][i].wait >= 0
      <4>1. CASE i \in 1..Len(lanes[l]) /\ lanes'[l][i] = lanes[l][i]
        BY <1>8, <4>1
      <4>2. CASE lanes'[l][i] = new
        BY <1>1, <4>2
      <4> QED
        BY <1>9, <4>1, <4>2, Zenon
    <3> QED
      BY <1>1, <2>2, <3>1
  <2> QED
    BY <1>9, <2>1, <2>2
<1> QED
  BY <1>7, <1>10, <1>11 DEF LaneInv

\* What is left of a queue without a request.
LEMMA WithoutIs ==
  ASSUME NEW q \in Seq(Entries), NEW r,
         \A i, j \in 1..Len(q) : q[i].id = q[j].id => i = j
  PROVE  /\ Schedule!Without(q, r) \in Seq(Entries)
         /\ \E at : Keeps(q, Schedule!Without(q, r), at)
<1>0. Len(q) \in Nat
  OBVIOUS
<1> DEFINE I == {i \in 1..Len(q) : q[i].id = r}
           p == Schedule!SelectInSeq(q, LAMBDA entry : entry.id = r)
<1>1. p = IF I # {} THEN Schedule!Min(I) ELSE 0
  BY DEF Schedule!SelectInSeq
<1>2. p = 0 \/ p \in 1..Len(q)
  <2>1. CASE I = {}
    BY <1>1, <2>1
  <2>2. CASE I # {}
    <3>1. PICK i \in I : TRUE
      BY <2>2
    <3>2. \A j \in I : i = j
      BY <3>1
    <3>3. i \in I /\ \A j \in I : i <= j
      BY <3>1, <3>2
    <3>4. Schedule!Min(I) \in I
      BY <3>3 DEF Schedule!Min
    <3> QED
      BY <1>1, <2>2, <3>4
  <2> QED
    BY <2>1, <2>2
<1>3. Schedule!Without(q, r) = IF p = 0 THEN q ELSE Schedule!RemoveAt(q, p)
  BY DEF Schedule!Without
<1> HIDE DEF I, p
<1>4. CASE p = 0
  <2>1. Keeps(q, q, [i \in 1..Len(q) |-> i])
    BY <1>0 DEF Keeps
  <2> QED
    BY <1>3, <1>4, <2>1
<1>5. CASE p \in 1..Len(q)
  <2> DEFINE a == SubSeq(q, 1, p - 1)
             b == SubSeq(q, p + 1, Len(q))
             w == a \o b
             at == [i \in 1..Len(w) |-> IF i < p THEN i ELSE i + 1]
  <2>1. a \in Seq(Entries) /\ Len(a) = p - 1 /\ \A i \in 1..(p - 1) : a[i] = q[i]
    BY <1>0, <1>5
  <2>2. b \in Seq(Entries) /\ Len(b) = Len(q) - p
        /\ \A i \in 1..(Len(q) - p) : b[i] = q[p + i]
    BY <1>0, <1>5
  <2>3. w \in Seq(Entries) /\ Len(w) = Len(a) + Len(b)
        /\ \A i \in 1..Len(w) : w[i] = IF i <= Len(a) THEN a[i] ELSE b[i - Len(a)]
    <3>1. a \in Seq(Entries) /\ b \in Seq(Entries)
      BY <2>1, <2>2
    <3> HIDE DEF a, b
    <3> QED
      BY <3>1, InARow
  <2>4. Schedule!Without(q, r) = w
    <3>1. p # 0
      BY <1>0, <1>5
    <3>2. Schedule!RemoveAt(q, p) = w
      BY Zenon DEF Schedule!RemoveAt
    <3> QED
      BY <1>3, <3>1, <3>2, Zenon
  <2> HIDE DEF a, b, w
  <2>5. Len(w) = Len(q) - 1
    BY <1>0, <1>5, <2>1, <2>2, <2>3
  <2>6. ASSUME NEW i \in 1..Len(w) PROVE at[i] \in 1..Len(q) /\ w[i] = q[at[i]]
    <3>1. CASE i < p
      BY <1>0, <1>5, <2>1, <2>3, <2>5, <3>1
    <3>2. CASE ~(i < p)
      <4>1. i - Len(a) \in 1..(Len(q) - p) /\ ~(i <= Len(a)) /\ p + (i - Len(a)) = i + 1
            /\ at[i] = i + 1
        BY <1>0, <1>5, <2>1, <2>5, <3>2
      <4>2. w[i] = b[i - Len(a)]
        BY <2>3, <4>1
      <4>3. b[i - Len(a)] = q[p + (i - Len(a))]
        BY <2>2, <4>1
      <4>4. i + 1 \in 1..Len(q)
        BY <1>0, <2>5
      <4> QED
        BY <4>1, <4>2, <4>3, <4>4
    <3> QED
      BY <3>1, <3>2
  <2>7. \A i, j \in 1..Len(w) : i < j => at[i] < at[j]
    BY <1>0, <1>5, <2>5
  <2> HIDE DEF at
  <2>8. Keeps(q, w, at)
    <3>1. Len(w) <= Len(q)
      BY <1>0, <2>5
    <3>2. \A i \in 1..Len(w) : /\ at[i] \in 1..Len(q)
                             /\ w[i].id = q[at[i]].id /\ w[i].wait = q[at[i]].wait
      BY <2>6
    <3> QED
      BY <2>7, <3>1, <3>2, Zenon DEF Keeps
  <2> QED
    BY <2>3, <2>4, <2>8
<1> QED
  BY <1>2, <1>4, <1>5

LEMMA CancelKeeps ==
  ASSUME Schedule!ResourceSchedulerAssumption, LaneInv, NEW r \in Communications,
         Schedule!Cancel(r)
  PROVE  LaneInv'
<1>1. lanes' = [l \in Schedule!Lanes |-> Schedule!Without(lanes[l], r)]
  BY DEF Schedule!Cancel
<1>2. ASSUME NEW l \in Schedule!Lanes
      PROVE  Schedule!Without(lanes[l], r) \in Seq(Entries) /\ \E at : Keeps(lanes[l], Schedule!Without(lanes[l], r), at)
  <2>1. lanes[l] \in Seq(Entries) /\ \A i, j \in 1..Len(lanes[l]) : lanes[l][i].id = lanes[l][j].id => i = j
    BY DEF LaneInv, QueuesHold, WaitsOnce
  <2> QED
    BY <2>1, WithoutIs
<1>3. lanes' \in [Schedule!Lanes -> Seq(Entries)]
  BY <1>1, <1>2
<1> DEFINE at == [l \in Schedule!Lanes |-> CHOOSE k : Keeps(lanes[l], Schedule!Without(lanes[l], r), k)]
<1>4. \A l \in Schedule!Lanes : Keeps(lanes[l], lanes'[l], at[l])
  BY <1>1, <1>2
<1> HIDE DEF at
<1>5. QueuesHold(lanes') /\ WaitsOnce(lanes') /\ OlderAhead(lanes')
  BY <1>3, <1>4, ThinnedKeeps
<1> QED
  BY <1>5 DEF LaneInv

LEMMA WindowKeeps ==
  ASSUME Schedule!ResourceSchedulerAssumption, LaneInv, NEW place \in Schedule!Places,
         Schedule!WindowOpens(place)
  PROVE  LaneInv'
<1>1. PICK l \in Schedule!Lanes : \E i \in 1..Len(lanes[l]) :
        place[1] = l /\ place[2] = i /\ Schedule!Entry(place) = lanes[l][i] /\ lanes[l][i] \in Entries
  BY LanePlaceIs
<1>2. PICK i \in 1..Len(lanes[l]) :
        place[1] = l /\ place[2] = i /\ lanes[l][i] \in Entries
  BY <1>1
<1>3. lanes \in [Schedule!Lanes -> Seq(Entries)] /\ lanes[l] \in Seq(Entries)
      /\ \A m \in Schedule!Lanes : lanes[m] \in Seq(Entries) /\ Len(lanes[m]) \in Nat
  BY DEF LaneInv, QueuesHold
<1> DEFINE e == [lanes[l][i] EXCEPT !.early = FALSE]
           q == [lanes[l] EXCEPT ![i] = e]
<1>4. e \in Entries /\ e.id = lanes[l][i].id /\ e.wait = lanes[l][i].wait
  BY <1>2 DEF Entries
<1> HIDE DEF e
<1>5. q \in Seq(Entries) /\ Len(q) = Len(lanes[l])
      /\ \A j \in 1..Len(lanes[l]) : q[j] = IF j = i THEN e ELSE lanes[l][j]
  BY <1>3, <1>4
<1>6. lanes' = [lanes EXCEPT ![l] = q]
  BY <1>2 DEF Schedule!WindowOpens, e
<1> HIDE DEF q
<1>7. lanes' \in [Schedule!Lanes -> Seq(Entries)]
      /\ \A m \in Schedule!Lanes : lanes'[m] = IF m = l THEN q ELSE lanes[m]
  BY <1>3, <1>5, <1>6
<1> DEFINE at == [m \in Schedule!Lanes |-> [j \in 1..Len(lanes[m]) |-> j]]
<1>8. ASSUME NEW m \in Schedule!Lanes PROVE Keeps(lanes[m], lanes'[m], at[m])
  <2>1. Len(lanes'[m]) = Len(lanes[m])
    BY <1>5, <1>7
  <2>2. \A j \in 1..Len(lanes[m]) : at[m][j] = j /\ lanes'[m][j].id = lanes[m][j].id
                                    /\ lanes'[m][j].wait = lanes[m][j].wait
    BY <1>4, <1>5, <1>7
  <2> HIDE DEF at
  <2> QED
    BY <1>3, <2>1, <2>2 DEF Keeps
<1> HIDE DEF at
<1>9. QueuesHold(lanes') /\ WaitsOnce(lanes') /\ OlderAhead(lanes')
  BY <1>7, <1>8, ThinnedKeeps
<1> QED
  BY <1>9 DEF LaneInv

LEMMA AgeKeeps ==
  ASSUME Schedule!ResourceSchedulerAssumption, LaneInv, Schedule!Age
  PROVE  LaneInv'
<1>1. \A l \in Schedule!Lanes : lanes[l] \in Seq(Entries) /\ Len(lanes[l]) \in Nat
                                /\ DOMAIN lanes[l] = 1..Len(lanes[l]) /\ Len(lanes[l]) <= LaneCapacity
  BY DEF LaneInv, QueuesHold
<1>2. lanes' = [l \in Schedule!Lanes |-> [i \in 1..Len(lanes[l]) |-> [lanes[l][i] EXCEPT !.wait = @ + 1]]]
  BY <1>1 DEF Schedule!Age
<1>3. ASSUME NEW l \in Schedule!Lanes, NEW i \in 1..Len(lanes[l])
      PROVE  /\ lanes'[l][i] \in Entries /\ lanes'[l][i].id = lanes[l][i].id
             /\ lanes'[l][i].wait = lanes[l][i].wait + 1 /\ lanes[l][i].wait \in Nat
  <2>1. <<l, i>> \in Schedule!Places /\ Schedule!Entry(<<l, i>>) = lanes[l][i] /\ lanes[l][i] \in Entries
    BY PlacesAre
  <2>2. lanes[l][i].wait < MaxWait
    BY <2>1 DEF Schedule!Age
  <2>3. lanes'[l][i] = [lanes[l][i] EXCEPT !.wait = @ + 1]
    BY <1>2
  <2>4. lanes[l][i].wait + 1 \in 0..MaxWait /\ lanes[l][i].wait \in Nat
    BY <2>1, <2>2 DEF Entries, Schedule!ResourceSchedulerAssumption
  <2> QED
    BY <2>1, <2>3, <2>4 DEF Entries
<1>4. ASSUME NEW l \in Schedule!Lanes
      PROVE  lanes'[l] \in Seq(Entries) /\ Len(lanes'[l]) = Len(lanes[l])
  <2>1. lanes'[l] = [i \in 1..Len(lanes[l]) |-> [lanes[l][i] EXCEPT !.wait = @ + 1]]
    BY <1>2
  <2>2. lanes'[l] = [i \in 1..Len(lanes[l]) |-> lanes'[l][i]]
    BY <2>1
  <2>3. lanes'[l] \in [1..Len(lanes[l]) -> Entries]
    BY <2>2, <1>3
  <2> QED
    BY <1>1, <2>3
<1>5. QueuesHold(lanes')
  BY <1>1, <1>2, <1>4 DEF QueuesHold
<1>6. WaitsOnce(lanes')
  BY <1>3, <1>4 DEF WaitsOnce, LaneInv
<1>7. OlderAhead(lanes')
  <2> SUFFICES ASSUME NEW l \in Schedule!Lanes, NEW i \in 1..Len(lanes'[l]),
                      NEW j \in 1..Len(lanes'[l]),
                      i <= j
               PROVE  lanes'[l][i].wait >= lanes'[l][j].wait
    BY DEF OlderAhead
  <2>1. i \in 1..Len(lanes[l]) /\ j \in 1..Len(lanes[l])
    BY <1>4
  <2>2. lanes[l][i].wait >= lanes[l][j].wait
    BY <2>1, AheadIsOlder DEF LaneInv
  <2>3. /\ lanes[l][i].wait \in Nat /\ lanes'[l][i].wait = lanes[l][i].wait + 1
        /\ lanes[l][j].wait \in Nat /\ lanes'[l][j].wait = lanes[l][j].wait + 1
    BY <1>3, <2>1, Zenon
  <2> QED
    BY <2>2, <2>3
<1> QED
  BY <1>5, <1>6, <1>7 DEF LaneInv

-----------------------------------------------------------------------------
(* Schedule!Dispatch. *)

Rank(queued, l) == Schedule!Weight[l] + Head(queued[l]).wait

\* The lane that goes next is ready, and no ready one comes before it.
LEMMA BestIs ==
  ASSUME NEW queued \in [Schedule!Lanes -> Seq(Entries)], Schedule!Ready(queued) # {}
  PROVE  /\ Schedule!Best(queued) \in Schedule!Ready(queued)
         /\ \A m \in Schedule!Ready(queued) : Rank(queued, Schedule!Best(queued)) >= Rank(queued, m)
<1> DEFINE Earliest(l) == \A m \in Schedule!Ready(queued) \ {l} :
                         \/ Rank(queued, l) > Rank(queued, m)
                         \/ Rank(queued, l) = Rank(queued, m) /\ Schedule!Weight[l] > Schedule!Weight[m]
<1>1. \A l \in Schedule!Ready(queued) : l \in Schedule!Lanes /\ Rank(queued, l) \in Nat
  <2> SUFFICES ASSUME NEW l \in Schedule!Ready(queued)
               PROVE  l \in Schedule!Lanes /\ Rank(queued, l) \in Nat
    OBVIOUS
  <2>1. l \in Schedule!Lanes /\ queued[l] \in Seq(Entries) /\ queued[l] # <<>>
    BY DEF Schedule!Ready
  <2>2. Head(queued[l]) \in Entries
    BY <2>1
  <2>3. Head(queued[l]).wait \in Nat
    BY <2>2 DEF Entries
  <2> QED
    BY <2>1, <2>3 DEF Rank, Schedule!Weight
<1>2. Schedule!Weight["normal"] = 2 /\ Schedule!Weight["background"] = 1
  BY DEF Schedule!Weight, Schedule!Lanes
<1>3. \E l \in Schedule!Ready(queued) : Earliest(l)
  <2>1. PICK l \in Schedule!Ready(queued) : TRUE
    OBVIOUS
  <2>2. CASE Schedule!Ready(queued) = {l}
    BY <2>2
  <2>3. CASE Schedule!Ready(queued) # {l}
    <3>1. Schedule!Ready(queued) = {"normal", "background"}
      BY <1>1, <2>1, <2>3 DEF Schedule!Lanes
    <3> DEFINE x == Rank(queued, "normal")
               y == Rank(queued, "background")
    <3>2. x \in Nat /\ y \in Nat
      BY <1>1, <3>1
    <3> HIDE DEF x, y
    <3>3. CASE x >= y
      <4>1. x > y \/ x = y
        BY <3>2, <3>3
      <4>2. Earliest("normal")
        BY <1>2, <3>1, <4>1 DEF x, y
      <4> QED
        BY <3>1, <4>2
    <3>4. CASE y > x
      <4>2. Earliest("background")
        BY <1>2, <3>1, <3>4 DEF x, y
      <4> QED
        BY <3>1, <4>2
    <3> QED
      BY <3>2, <3>3, <3>4
  <2> QED
    BY <2>2, <2>3
<1>4. Schedule!Best(queued) = CHOOSE l \in Schedule!Ready(queued) : Earliest(l)
  BY DEF Schedule!Best, Rank, Schedule!EffectivePriority
<1> HIDE DEF Earliest
<1>5. Schedule!Best(queued) \in Schedule!Ready(queued) /\ Earliest(Schedule!Best(queued))
  BY <1>3, <1>4
<1> QED
  BY <1>1, <1>5 DEF Earliest

\* How much has been taken of a lane, and what of the lanes.
Gone(p, l) == Len(lanes[l]) - Len(p.left[l])
Ids(p) == {entry.id : entry \in p.batch}
TakenInOrder(p) ==
  \A l, m \in Schedule!Lanes : m \in Schedule!Ready(p.left) =>
    \A i \in 1..Gone(p, l), j \in 1..Len(lanes[m]) :
      j > Gone(p, m) => Schedule!Weight[l] + lanes[l][i].wait >= Schedule!Weight[m] + lanes[m][j].wait
LeftOver(p) ==
  /\ p.left \in [Schedule!Lanes -> Seq(Entries)]
  /\ \A l \in Schedule!Lanes : /\ Len(p.left[l]) <= Len(lanes[l])
                               /\ \A i \in 1..Len(p.left[l]) : p.left[l][i] = lanes[l][i + Gone(p, l)]
BatchIs(p) ==
  /\ \A l \in Schedule!Lanes : \A i \in 1..Gone(p, l) : lanes[l][i] \in p.batch
  /\ \A entry \in p.batch : \E l \in Schedule!Lanes : \E i \in 1..Gone(p, l) : entry = lanes[l][i]
PickInv(p, n) ==
  /\ LeftOver(p) /\ BatchIs(p) /\ TakenInOrder(p)
  /\ IsFiniteSet(Ids(p)) /\ Cardinality(Ids(p)) \in Nat /\ Cardinality(Ids(p)) <= n

LEMMA NotOutranked ==
  ASSUME NEW a \in Nat, NEW w \in Nat, NEW b \in Nat, NEW x \in Nat, NEW y \in Nat,
         a + w >= b + x, x >= y
  PROVE  a + w >= b + y
OBVIOUS

LEMMA PickStep ==
  ASSUME Schedule!ResourceSchedulerAssumption, LaneInv, NEW p, NEW n \in Nat, PickInv(p, n)
  PROVE  PickInv(Schedule!Pick(p), n + 1)
<1> DEFINE t == Schedule!Best(p.left)
           new == Schedule!Pick(p)
           h == Head(p.left[t])
<1>0. \A l \in Schedule!Lanes : lanes[l] \in Seq(Entries) /\ Len(lanes[l]) \in Nat
                                /\ p.left[l] \in Seq(Entries) /\ Len(p.left[l]) \in Nat
                                /\ Len(p.left[l]) <= Len(lanes[l]) /\ Gone(p, l) \in Nat
                                /\ Gone(p, l) <= Len(lanes[l])
                                /\ Len(p.left[l]) = Len(lanes[l]) - Gone(p, l)
  <2> SUFFICES ASSUME NEW l \in Schedule!Lanes
               PROVE  /\ lanes[l] \in Seq(Entries) /\ Len(lanes[l]) \in Nat
                      /\ p.left[l] \in Seq(Entries) /\ Len(p.left[l]) \in Nat
                      /\ Len(p.left[l]) <= Len(lanes[l]) /\ Gone(p, l) \in Nat
                      /\ Gone(p, l) <= Len(lanes[l])
                      /\ Len(p.left[l]) = Len(lanes[l]) - Gone(p, l)
    OBVIOUS
  <2>1. lanes[l] \in Seq(Entries) /\ p.left[l] \in Seq(Entries)
        /\ Len(p.left[l]) <= Len(lanes[l])
    BY DEF PickInv, LeftOver, LaneInv, QueuesHold
  <2>2. PICK a \in Nat : a = Len(lanes[l])
    BY <2>1
  <2>3. PICK b \in Nat : b = Len(p.left[l])
    BY <2>1
  <2>4. b <= a /\ Gone(p, l) = a - b
    BY <2>1, <2>2, <2>3 DEF Gone
  <2>5. a - b \in Nat /\ a - b <= a /\ b = a - (a - b)
    BY <2>4
  <2>6. Gone(p, l) \in Nat /\ Gone(p, l) <= Len(lanes[l])
        /\ Len(p.left[l]) = Len(lanes[l]) - Gone(p, l)
    BY <2>2, <2>3, <2>4, <2>5, Zenon
  <2> QED
    BY <2>1, <2>2, <2>3, <2>6
<1>1. CASE Schedule!Ready(p.left) = {}
  <2>1. Schedule!Pick(p) = p
    BY <1>1 DEF Schedule!Pick
  <2>2. Cardinality(Ids(p)) <= n + 1
    BY DEF PickInv
  <2> QED
    BY <2>1, <2>2 DEF PickInv
<1>2. CASE Schedule!Ready(p.left) # {}
  <2>1. t \in Schedule!Ready(p.left) /\ \A m \in Schedule!Ready(p.left) : Rank(p.left, t) >= Rank(p.left, m)
    BY <1>2, BestIs DEF PickInv, LeftOver
  <2> HIDE DEF t
  <2>2. t \in Schedule!Lanes /\ p.left[t] # <<>>
    BY <2>1 DEF Schedule!Ready
  <2>3. new = [left |-> [p.left EXCEPT ![t] = Tail(@)], batch |-> p.batch \cup {h}]
    BY <1>2 DEF Schedule!Pick, t
  <2>4. new.left = [p.left EXCEPT ![t] = Tail(@)] /\ new.batch = p.batch \cup {h}
    BY <2>3
  <2> HIDE DEF new
  <2> DEFINE k == Gone(p, t)
  <2>5. k \in Nat /\ k + 1 <= Len(lanes[t]) /\ h = lanes[t][k + 1] /\ h \in Entries
        /\ k + 1 \in 1..Len(lanes[t]) /\ Len(p.left[t]) >= 1
    <3>1. Len(p.left[t]) >= 1 /\ h = p.left[t][1] /\ h \in Entries
      BY <1>0, <2>2
    <3>2. p.left[t][1] = lanes[t][1 + k]
      BY <1>0, <2>2, <3>1 DEF PickInv, LeftOver
    <3>3. k \in Nat /\ k + 1 <= Len(lanes[t]) /\ 1 + k = k + 1 /\ k + 1 \in 1..Len(lanes[t])
      BY <1>0, <2>2, <3>1
    <3> QED
      BY <3>1, <3>2, <3>3
  <2> HIDE DEF k, h
  <2>6. new.left \in [Schedule!Lanes -> Seq(Entries)] /\ new.left[t] = Tail(p.left[t])
        /\ \A l \in Schedule!Lanes \ {t} : new.left[l] = p.left[l]
    BY <1>0, <2>2, <2>4 DEF PickInv, LeftOver
  <2>7. Len(new.left[t]) = Len(p.left[t]) - 1
        /\ \A i \in 1..Len(new.left[t]) : new.left[t][i] = p.left[t][i + 1]
    BY <1>0, <2>2, <2>5, <2>6
  <2>8. Gone(new, t) = k + 1 /\ \A l \in Schedule!Lanes \ {t} : Gone(new, l) = Gone(p, l)
    <3>1. PICK a \in Nat : a = Len(lanes[t])
      BY <1>0, <2>2
    <3>2. PICK b \in Nat : b = Len(p.left[t])
      BY <1>0, <2>2
    <3>3. k = a - b /\ Gone(new, t) = a - (b - 1)
      BY <2>7, <3>1, <3>2 DEF Gone, k
    <3>4. Gone(new, t) = k + 1
      BY <3>3
    <3>5. \A l \in Schedule!Lanes \ {t} : Gone(new, l) = Gone(p, l)
      BY <2>6 DEF Gone
    <3> QED
      BY <3>4, <3>5
  <2>9. LeftOver(new)
    <3>1. ASSUME NEW l \in Schedule!Lanes
          PROVE  /\ Len(new.left[l]) <= Len(lanes[l])
                 /\ \A i \in 1..Len(new.left[l]) : new.left[l][i] = lanes[l][i + Gone(new, l)]
      <4>1. CASE l = t
        <5>1. Len(new.left[t]) <= Len(lanes[t])
          BY <1>0, <2>2, <2>7
        <5>2. ASSUME NEW i \in 1..Len(new.left[t])
              PROVE  new.left[t][i] = lanes[t][i + (k + 1)]
          <6>1. i + 1 \in 1..Len(p.left[t]) /\ (i + 1) + k = i + (k + 1)
            BY <1>0, <2>2, <2>5, <2>7
          <6>2. p.left[t][i + 1] = lanes[t][(i + 1) + k]
            BY <2>2, <6>1 DEF PickInv, LeftOver, k
          <6> QED
            BY <2>7, <6>1, <6>2
        <5> QED
          BY <2>8, <4>1, <5>1, <5>2
      <4>2. CASE l # t
        BY <2>6, <2>8, <4>2 DEF PickInv, LeftOver
      <4> QED
        BY <4>1, <4>2
    <3> QED
      BY <2>6, <3>1 DEF LeftOver
  <2>10. BatchIs(new)
    <3>1. ASSUME NEW l \in Schedule!Lanes, NEW i \in 1..Gone(new, l)
          PROVE  lanes[l][i] \in new.batch
      <4>1. CASE l = t /\ i = k + 1
        BY <2>4, <2>5, <4>1
      <4>2. CASE ~(l = t /\ i = k + 1)
        <5>1. i \in 1..Gone(p, l)
          BY <2>5, <2>8, <4>2 DEF k
        <5> QED
          BY <2>4, <5>1 DEF PickInv, BatchIs
      <4> QED
        BY <4>1, <4>2
    <3>2. ASSUME NEW entry \in new.batch
          PROVE  \E l \in Schedule!Lanes : \E i \in 1..Gone(new, l) : entry = lanes[l][i]
      <4>1. CASE entry = h
        <5>1. k + 1 \in 1..Gone(new, t)
          BY <2>5, <2>8
        <5> QED
          BY <2>2, <2>5, <4>1, <5>1
      <4>2. CASE entry # h
        <5>1. PICK l \in Schedule!Lanes : \E i \in 1..Gone(p, l) : entry = lanes[l][i]
          BY <2>4, <4>2 DEF PickInv, BatchIs
        <5>2. PICK i \in 1..Gone(p, l) : entry = lanes[l][i]
          BY <5>1
        <5>3. i \in 1..Gone(new, l)
          BY <1>0, <2>5, <2>8 DEF k
        <5> QED
          BY <5>2, <5>3
      <4> QED
        BY <4>1, <4>2
    <3> QED
      BY <3>1, <3>2 DEF BatchIs
  <2>11. TakenInOrder(new)
    <3> SUFFICES ASSUME NEW l \in Schedule!Lanes, NEW m \in Schedule!Lanes,
                        m \in Schedule!Ready(new.left),
                        NEW i \in 1..Gone(new, l), NEW j \in 1..Len(lanes[m]), j > Gone(new, m)
                 PROVE  Schedule!Weight[l] + lanes[l][i].wait >= Schedule!Weight[m] + lanes[m][j].wait
      BY DEF TakenInOrder
    <3>1. m \in Schedule!Ready(p.left)
      BY <2>1, <2>6 DEF Schedule!Ready
    <3>2. j > Gone(p, m)
      BY <1>0, <2>5, <2>8 DEF k
    <3>3. CASE i \in 1..Gone(p, l)
      BY <3>1, <3>2, <3>3 DEF PickInv, TakenInOrder
    <3>4. CASE ~(i \in 1..Gone(p, l))
      <4>1. l = t /\ i = k + 1
        BY <1>0, <2>5, <2>8, <3>4 DEF k
      <4>2. Rank(p.left, t) = Schedule!Weight[t] + lanes[t][k + 1].wait
        BY <2>5 DEF Rank, h
      <4> DEFINE g == Gone(p, m)
      <4>3. Head(p.left[m]) = lanes[m][g + 1] /\ g \in Nat /\ g + 1 \in 1..Len(lanes[m])
        <5>1. p.left[m] # <<>> /\ p.left[m] \in Seq(Entries)
          BY <1>0, <3>1 DEF Schedule!Ready
        <5>2. Len(p.left[m]) >= 1 /\ Head(p.left[m]) = p.left[m][1]
          BY <5>1
        <5>3. p.left[m][1] = lanes[m][1 + g]
          BY <1>0, <5>2 DEF PickInv, LeftOver
        <5> QED
          BY <1>0, <5>2, <5>3
      <4>4. Rank(p.left, m) = Schedule!Weight[m] + lanes[m][g + 1].wait
        BY <4>3 DEF Rank
      <4>5. lanes[m][g + 1].wait >= lanes[m][j].wait
        BY <1>0, <3>2, <4>3 DEF LaneInv, OlderAhead
      <4>6. lanes[m][g + 1] \in Entries /\ lanes[m][j] \in Entries /\ lanes[t][k + 1] \in Entries
        BY <1>0, <2>2, <2>5, <4>3
      <4>7. lanes[m][g + 1].wait \in Nat /\ lanes[m][j].wait \in Nat /\ lanes[t][k + 1].wait \in Nat
            /\ Schedule!Weight[m] \in Nat /\ Schedule!Weight[t] \in Nat
        BY <2>2, <4>6 DEF Entries, Schedule!Weight
      <4>8. Schedule!Weight[t] + lanes[t][k + 1].wait >= Schedule!Weight[m] + lanes[m][g + 1].wait
        BY <2>1, <3>1, <4>2, <4>4
      <4>9. Schedule!Weight[t] + lanes[t][k + 1].wait >= Schedule!Weight[m] + lanes[m][j].wait
        BY <4>5, <4>7, <4>8, NotOutranked
      <4> QED
        BY <4>1, <4>9
    <3> QED
      BY <3>3, <3>4
  <2>12. IsFiniteSet(Ids(new)) /\ Cardinality(Ids(new)) \in Nat /\ Cardinality(Ids(new)) <= n + 1
    <3>1. Ids(new) = Ids(p) \cup {h.id}
      BY <2>4 DEF Ids
    <3>2. IsFiniteSet(Ids(p)) /\ Cardinality(Ids(p)) \in Nat /\ Cardinality(Ids(p)) <= n
      BY DEF PickInv
    <3>3. IsFiniteSet(Ids(p) \cup {h.id})
          /\ (Cardinality(Ids(p) \cup {h.id}) = Cardinality(Ids(p))
                \/ Cardinality(Ids(p) \cup {h.id}) = Cardinality(Ids(p)) + 1)
      BY <3>2, FS_AddElement
    <3> QED
      BY <3>1, <3>2, <3>3
  <2> QED
    BY <2>9, <2>10, <2>11, <2>12 DEF PickInv, new
<1> QED
  BY <1>1, <1>2

\* The heads that were picked one after the other.
Start == [left |-> lanes, batch |-> {}]
IsPicking(f, budget) ==
  f = [n \in 0..budget |-> IF n = 0 THEN Start ELSE Schedule!Pick(f[n - 1])]

LEMMA PickingExists ==
  ASSUME NEW budget \in Nat
  PROVE  \E f : IsPicking(f, budget)
<1> DEFINE Good == {n \in Nat : \E f : IsPicking(f, n)}
<1>1. 0 \in Good
  <2>1. IsPicking([n \in 0..0 |-> Start], 0)
    BY DEF IsPicking
  <2> QED
    BY <2>1
<1>2. ASSUME NEW n \in 0..(budget - 1), n \in Good PROVE n + 1 \in Good
  <2>1. PICK f : IsPicking(f, n)
    BY <1>2
  <2> DEFINE g == [k \in 0..(n + 1) |-> IF k <= n THEN f[k] ELSE Schedule!Pick(f[n])]
  <2>2. ASSUME NEW k \in 0..(n + 1)
        PROVE  g[k] = IF k = 0 THEN Start ELSE Schedule!Pick(g[k - 1])
    <3>1. CASE k <= n
      <4>1. k \in 0..n /\ g[k] = f[k]
        BY <3>1
      <4>2. f[k] = IF k = 0 THEN Start ELSE Schedule!Pick(f[k - 1])
        BY <2>1, <4>1 DEF IsPicking
      <4>3. k # 0 => g[k - 1] = f[k - 1]
        BY <4>1
      <4> QED
        BY <4>1, <4>2, <4>3
    <3>2. CASE ~(k <= n)
      <4>1. k = n + 1 /\ k # 0 /\ k - 1 = n /\ g[k] = Schedule!Pick(f[n]) /\ g[n] = f[n]
        BY <3>2
      <4> QED
        BY <4>1
    <3> QED
      BY <3>1, <3>2
  <2>3. DOMAIN g = 0..(n + 1) /\ g = [k \in 0..(n + 1) |-> g[k]]
    OBVIOUS
  <2> HIDE DEF g
  <2>4. IsPicking(g, n + 1)
    BY <2>2, <2>3 DEF IsPicking
  <2> QED
    BY <2>4
<1> HIDE DEF Good
<1>3. budget \in Good
  BY <1>1, <1>2, NumberByNumber
<1> QED
  BY <1>3 DEF Good

LEMMA PickedIs ==
  ASSUME Schedule!ResourceSchedulerAssumption, LaneInv, NEW budget \in Nat
  PROVE  PickInv(Schedule!Picked(lanes, budget), budget)
<1>1. PICK f : f = (CHOOSE g : IsPicking(g, budget)) /\ IsPicking(f, budget)
  BY PickingExists
<1>2. Schedule!Picked(lanes, budget) = f[budget]
  BY <1>1 DEF Schedule!Picked, IsPicking, Start
<1>3. f[0] = Start /\ \A n \in 1..budget : f[n] = Schedule!Pick(f[n - 1])
  <2>1. \A n \in 0..budget : f[n] = IF n = 0 THEN Start ELSE Schedule!Pick(f[n - 1])
    BY <1>1, Zenon DEF IsPicking
  <2>2. 0 \in 0..budget /\ \A n \in 1..budget : n \in 0..budget /\ n # 0
    OBVIOUS
  <2> QED
    BY <2>1, <2>2, Zenon
<1> DEFINE Good == {n \in 0..budget : PickInv(f[n], n)}
<1>4. 0 \in Good
  <2>1. \A l \in Schedule!Lanes : lanes[l] \in Seq(Entries) /\ Len(lanes[l]) \in Nat
    BY DEF LaneInv, QueuesHold
  <2>2. Start.left = lanes /\ Start.batch = {}
    BY DEF Start
  <2>3. \A l \in Schedule!Lanes : Gone(Start, l) = 0
    BY <2>1, <2>2 DEF Gone
  <2>4. LeftOver(Start)
    <3>1. \A l \in Schedule!Lanes : \A i \in 1..Len(lanes[l]) : i + 0 = i
      BY <2>1
    <3> QED
      BY <2>1, <2>2, <2>3, <3>1 DEF LeftOver, LaneInv, QueuesHold
  <2>5. BatchIs(Start) /\ TakenInOrder(Start)
    BY <2>2, <2>3 DEF BatchIs, TakenInOrder
  <2>6. Ids(Start) = {}
    BY <2>2 DEF Ids
  <2>7. IsFiniteSet(Ids(Start)) /\ Cardinality(Ids(Start)) = 0
    BY <2>6, FS_EmptySet
  <2>8. PickInv(Start, 0)
    BY <2>4, <2>5, <2>7 DEF PickInv
  <2> QED
    BY <1>3, <2>8
<1>5. ASSUME NEW n \in 0..(budget - 1), n \in Good PROVE n + 1 \in Good
  <2>1. PickInv(f[n], n) /\ n + 1 \in 1..budget /\ (n + 1) - 1 = n /\ n \in Nat
    BY <1>5
  <2>2. f[n + 1] = Schedule!Pick(f[n])
    BY <1>3, <2>1
  <2>3. PickInv(Schedule!Pick(f[n]), n + 1)
    BY <2>1, PickStep
  <2> QED
    BY <2>1, <2>2, <2>3
<1> HIDE DEF Good
<1>6. budget \in Good
  BY <1>4, <1>5, NumberByNumber
<1> QED
  BY <1>2, <1>6 DEF Good

\* What a dispatch is.
IsDispatch(p) ==
  /\ p.batch # {} /\ lanes' = p.left
  /\ Schedule!Reserve([r \in Ids(p) |-> Schedule!Reservation("dispatch",
                         (CHOOSE entry \in p.batch : entry.id = r).cost)])
  /\ state' = [r \in Communications |-> IF r \in Ids(p) THEN "running" ELSE state[r]]
LEMMA DispatchIs ==
  ASSUME Schedule!ResourceSchedulerAssumption, LaneInv, allocated["execution"] \in Nat,
         NEW most \in 1..Executions + 1, Schedule!Dispatch(most)
  PROVE  \E n \in Nat : \E p : /\ PickInv(p, n) /\ IsDispatch(p)
                               /\ n > 0 => n + allocated["execution"] <= Executions
<1> DEFINE n == Schedule!BatchLimit(most)
           a == Schedule!Available("execution")
           p == Schedule!Picked(lanes, n)
<1>1. a \in Nat /\ (a > 0 => a + allocated["execution"] <= Executions) /\ most \in Nat
  <2>1. Schedule!Budget["execution"] = Executions
    BY DEF Schedule!Budget, Schedule!Kinds
  <2> QED
    BY <2>1 DEF Schedule!Available, Schedule!ResourceSchedulerAssumption
<1> HIDE DEF a
<1>2. n \in Nat /\ n <= a
  <2>1. n = Schedule!Min({most, a})
    BY DEF Schedule!BatchLimit, a
  <2>2. \E x \in {most, a} : \A y \in {most, a} : x <= y
    BY <1>1
  <2>3. Schedule!Min({most, a}) \in {most, a} /\ \A y \in {most, a} : Schedule!Min({most, a}) <= y
    BY <2>2 DEF Schedule!Min
  <2> QED
    BY <1>1, <2>1, <2>3
<1> HIDE DEF n
<1>3. PickInv(p, n)
  BY <1>2, PickedIs
<1>4. IsDispatch(p)
  BY DEF Schedule!Dispatch, IsDispatch, Ids, n
<1>5. n > 0 => n + allocated["execution"] <= Executions
  BY <1>1, <1>2 DEF Schedule!ResourceSchedulerAssumption
<1> QED
  BY <1>2, <1>3, <1>4, <1>5

LEMMA DispatchKeeps ==
  ASSUME Schedule!ResourceSchedulerAssumption, ScheduleInv,
         NEW most \in 1..Executions + 1, Schedule!Dispatch(most)
  PROVE  ScheduleInv'
<1>1. LaneInv /\ ReservedTyped /\ SumsHold /\ RunningHas
      /\ Cardinality(ByDispatch(reserved)) <= Executions
  BY DEF ScheduleInv
<1>2. /\ Cardinality(ByDispatch(reserved)) \in Nat /\ IsFiniteSet(ByDispatch(reserved))
      /\ Cardinality(ByDispatch(reserved)) <= allocated["execution"]
      /\ allocated \in [Schedule!Kinds -> Nat]
  BY <1>1, DispatchedAllocated
<1>3. allocated["execution"] \in Nat
  BY <1>2 DEF Schedule!Kinds
<1>4. PICK n \in Nat : \E p : /\ PickInv(p, n) /\ IsDispatch(p)
                              /\ n > 0 => n + allocated["execution"] <= Executions
  BY <1>1, <1>3, DispatchIs
<1>5. PICK p : /\ PickInv(p, n) /\ IsDispatch(p)
               /\ n > 0 => n + allocated["execution"] <= Executions
  BY <1>4
<1> DEFINE new == [r \in Ids(p) |-> Schedule!Reservation("dispatch",
                     (CHOOSE entry \in p.batch : entry.id = r).cost)]
<1>6. Schedule!Reserve(new) /\ DOMAIN new = Ids(p)
  BY <1>5 DEF IsDispatch
<1>7. \A l \in Schedule!Lanes : lanes[l] \in Seq(Entries) /\ Len(lanes[l]) \in Nat
                                /\ p.left[l] \in Seq(Entries) /\ Len(p.left[l]) \in Nat
                                /\ Len(p.left[l]) <= Len(lanes[l])
  BY <1>1, <1>5 DEF LaneInv, QueuesHold, PickInv, LeftOver
<1>8. \A entry \in p.batch : entry \in Entries
  <2> SUFFICES ASSUME NEW entry \in p.batch PROVE entry \in Entries
    OBVIOUS
  <2>1. PICK l \in Schedule!Lanes : \E i \in 1..Gone(p, l) : entry = lanes[l][i]
    BY <1>5 DEF PickInv, BatchIs
  <2>2. PICK i \in 1..Gone(p, l) : entry = lanes[l][i]
    BY <2>1
  <2>3. i \in 1..Len(lanes[l])
    <3>1. PICK a \in Nat : a = Len(lanes[l])
      BY <1>7
    <3>2. PICK b \in Nat : b = Len(p.left[l])
      BY <1>7
    <3>3. i \in 1..(a - b) /\ b <= a
      BY <1>7, <3>1, <3>2 DEF Gone
    <3>4. i \in 1..a
      BY <3>3
    <3> QED
      BY <3>1, <3>4
  <2> QED
    BY <1>7, <2>2, <2>3
<1>9. Ids(p) \subseteq Communications
  BY <1>8 DEF Ids, Entries
<1>10. \A r \in Ids(p) : new[r] \in Reservations /\ new[r].by = "dispatch" /\ new[r] # Schedule!NotReserved
  <2> SUFFICES ASSUME NEW r \in Ids(p)
               PROVE  new[r] \in Reservations /\ new[r].by = "dispatch" /\ new[r] # Schedule!NotReserved
    OBVIOUS
  <2>1. PICK e \in p.batch : e = CHOOSE entry \in p.batch : entry.id = r
    BY DEF Ids
  <2>2. new[r] = [by |-> "dispatch", cost |-> e.cost] /\ e.cost \in Schedule!Costs
    BY <1>8, <2>1 DEF Schedule!Reservation, Entries
  <2> HIDE DEF new
  <2> QED
    BY <2>2 DEF Reservations, Schedule!NotReserved
<1> HIDE DEF new
<1>11. ReservedTyped' /\ SumsHold'
  BY <1>1, <1>6, <1>9, <1>10, ReserveKeeps
<1>12. reserved' = [r \in Communications |-> IF r \in Ids(p) THEN new[r] ELSE reserved[r]]
       /\ state' = [r \in Communications |-> IF r \in Ids(p) THEN "running" ELSE state[r]]
       /\ lanes' = p.left
  BY <1>5, <1>6 DEF Schedule!Reserve, IsDispatch
<1>13. RunningHas'
  BY <1>1, <1>10, <1>12 DEF RunningHas, States
<1>14. LaneInv'
  <2> DEFINE at == [l \in Schedule!Lanes |-> [i \in 1..Len(p.left[l]) |-> i + Gone(p, l)]]
  <2>1. ASSUME NEW l \in Schedule!Lanes PROVE Keeps(lanes[l], p.left[l], at[l])
    <3>1. PICK a \in Nat : a = Len(lanes[l])
      BY <1>7
    <3>2. PICK b \in Nat : b = Len(p.left[l])
      BY <1>7
    <3>3. b <= a /\ Gone(p, l) = a - b
      BY <1>7, <3>1, <3>2 DEF Gone
    <3>4. ASSUME NEW i \in 1..b
          PROVE  at[l][i] = i + (a - b) /\ at[l][i] \in 1..a /\ p.left[l][i] = lanes[l][at[l][i]]
      <4>1. at[l][i] = i + Gone(p, l) /\ p.left[l][i] = lanes[l][i + Gone(p, l)]
        BY <1>5, <3>2 DEF PickInv, LeftOver
      <4>2. i + (a - b) \in 1..a
        BY <3>3
      <4> QED
        BY <3>3, <4>1, <4>2
    <3> HIDE DEF at
    <3>5. \A i, j \in 1..b : i < j => at[l][i] < at[l][j]
      BY <3>3, <3>4
    <3> QED
      BY <3>1, <3>2, <3>3, <3>4, <3>5 DEF Keeps
  <2> HIDE DEF at
  <2>2. p.left \in [Schedule!Lanes -> Seq(Entries)]
    BY <1>5 DEF PickInv, LeftOver
  <2>3. QueuesHold(p.left) /\ WaitsOnce(p.left) /\ OlderAhead(p.left)
    BY <1>1, <2>1, <2>2, ThinnedKeeps
  <2> QED
    BY <1>12, <2>3 DEF LaneInv
<1>15. Cardinality(ByDispatch(reserved')) <= Executions
  <2>1. ByDispatch(reserved') = ByDispatch(reserved) \cup Ids(p)
    <3>1. ASSUME NEW r \in Communications
          PROVE  reserved'[r].by = "dispatch" <=> reserved[r].by = "dispatch" \/ r \in Ids(p)
      BY <1>10, <1>12
    <3> QED
      BY <1>9, <3>1 DEF ByDispatch
  <2>2. IsFiniteSet(Ids(p)) /\ Cardinality(Ids(p)) \in Nat /\ Cardinality(Ids(p)) <= n
    BY <1>5 DEF PickInv
  <2>3. Cardinality(ByDispatch(reserved) \cup Ids(p)) =
          Cardinality(ByDispatch(reserved)) + Cardinality(Ids(p))
            - Cardinality(ByDispatch(reserved) \cap Ids(p))
        /\ Cardinality(ByDispatch(reserved) \cap Ids(p)) \in Nat
    BY <1>2, <2>2, FS_Union, FS_Intersection, FS_CardinalityType
  <2>4. n > 0
    <3>1. PICK entry \in p.batch : TRUE
      BY <1>5 DEF IsDispatch
    <3>2. Ids(p) # {}
      BY <3>1 DEF Ids
    <3>3. Cardinality(Ids(p)) # 0
      BY <2>2, <3>2, FS_EmptySet
    <3> QED
      BY <2>2, <3>3
  <2>5. n + allocated["execution"] <= Executions
    BY <1>5, <2>4
  <2>6. Executions \in Nat
    BY DEF Schedule!ResourceSchedulerAssumption
  <2>7. ASSUME NEW a \in Nat, NEW b \in Nat, NEW c \in Nat, NEW d \in Nat,
               a <= d, b <= n, n + d <= Executions
        PROVE  a + b - c <= Executions
    BY <2>6, <2>7
  <2>8. Cardinality(ByDispatch(reserved)) + Cardinality(Ids(p))
          - Cardinality(ByDispatch(reserved) \cap Ids(p)) <= Executions
    BY <1>2, <1>3, <2>2, <2>3, <2>5, <2>7
  <2> QED
    BY <2>1, <2>3, <2>8, Zenon
<1> QED
  BY <1>11, <1>13, <1>14, <1>15 DEF ScheduleInv

\* Fewer are reserved for by dispatch, no more than before.
LEMMA FewerDispatched ==
  ASSUME Schedule!ResourceSchedulerAssumption, ScheduleInv,
         ByDispatch(reserved') \subseteq ByDispatch(reserved)
  PROVE  Cardinality(ByDispatch(reserved')) <= Executions
<1>1. Cardinality(ByDispatch(reserved)) \in Nat /\ IsFiniteSet(ByDispatch(reserved))
      /\ Cardinality(ByDispatch(reserved)) <= Executions
  BY DispatchedAllocated DEF ScheduleInv
<1>2. Cardinality(ByDispatch(reserved')) \in Nat
      /\ Cardinality(ByDispatch(reserved')) <= Cardinality(ByDispatch(reserved))
  BY <1>1, FS_Subset, FS_CardinalityType
<1> QED
  BY <1>1, <1>2 DEF Schedule!ResourceSchedulerAssumption

LEMMA ScheduleStep ==
  ASSUME Schedule!ResourceSchedulerAssumption, ScheduleInv, [Schedule!Next]_Schedule!vars
  PROVE  ScheduleInv'
<1>0. /\ LaneInv /\ ReservedTyped /\ SumsHold /\ RunningHas
      /\ Cardinality(ByDispatch(reserved)) <= Executions
  BY DEF ScheduleInv
<1>1. ASSUME NEW r \in Communications, NEW cost \in Schedule!Costs, Schedule!RunNow(r, cost)
      PROVE  ScheduleInv'
  <2> DEFINE new == [q \in {r} |-> Schedule!Reservation("optimize", cost)]
  <2>1. Schedule!Reserve(new) /\ state' = [state EXCEPT ![r] = "running"] /\ lanes' = lanes
    BY <1>1 DEF Schedule!RunNow
  <2>2. DOMAIN new = {r} /\ new[r] \in Reservations /\ new[r].by = "optimize" /\ new[r] # Schedule!NotReserved
    BY DEF Reservations, Schedule!Reservation, Schedule!NotReserved
  <2> HIDE DEF new
  <2>3. ReservedTyped' /\ SumsHold'
    BY <1>0, <2>1, <2>2, ReserveKeeps
  <2>4. reserved' = [q \in Communications |-> IF q \in {r} THEN new[q] ELSE reserved[q]]
    BY <2>1, <2>2 DEF Schedule!Reserve
  <2>5. ByDispatch(reserved') \subseteq ByDispatch(reserved)
    BY <2>2, <2>4 DEF ByDispatch
  <2>6. RunningHas'
    BY <1>0, <2>1, <2>2, <2>4 DEF RunningHas, States
  <2>7. LaneInv'
    BY <1>0, <2>1 DEF LaneInv
  <2> QED
    BY <2>3, <2>5, <2>6, <2>7, FewerDispatched DEF ScheduleInv
<1>2. ASSUME NEW r \in Communications, NEW lane \in Schedule!Lanes,
             NEW cost \in Schedule!Costs, NEW early \in BOOLEAN,
             Schedule!Enqueue(r, lane, cost, early)
      PROVE  ScheduleInv'
  <2>1. LaneInv'
    BY <1>0, <1>2, EnqueueKeeps
  <2>2. reserved' = reserved /\ allocated' = allocated
        /\ state' = [state EXCEPT ![r] = IF early THEN "deferred" ELSE "scheduled"]
    BY <1>2 DEF Schedule!Enqueue
  <2>3. RunningHas'
    BY <1>0, <2>2 DEF RunningHas, States
  <2> QED
    BY <1>0, <2>1, <2>2, <2>3 DEF ScheduleInv, ReservedTyped, SumsHold
<1>3. ASSUME NEW r \in Communications, NEW lane \in Schedule!Lanes, Schedule!Overflow(r,
             lane)
      PROVE  ScheduleInv'
  <2>1. lanes' = lanes /\ reserved' = reserved /\ allocated' = allocated
        /\ state' = [state EXCEPT ![r] = "cancelled"]
    BY <1>3 DEF Schedule!Overflow
  <2>2. RunningHas'
    BY <1>0, <2>1 DEF RunningHas, States
  <2> QED
    BY <1>0, <2>1, <2>2 DEF ScheduleInv, ReservedTyped, SumsHold, LaneInv
\* What is given back is of a request that does not run on.
<1>4. ASSUME NEW r \in Communications, Schedule!Release(r), NEW s \in {"completed",
             "failed", "cancelled"},
             state' = [state EXCEPT ![r] = s]
      PROVE  /\ ReservedTyped' /\ SumsHold' /\ RunningHas'
             /\ Cardinality(ByDispatch(reserved')) <= Executions
  <2>1. reserved' = [reserved EXCEPT ![r] = Schedule!NotReserved]
    BY <1>4 DEF Schedule!Release
  <2>2. ReservedTyped' /\ SumsHold'
    BY <1>0, <1>4, ReleaseKeeps
  <2>3. RunningHas'
    BY <1>0, <1>4, <2>1 DEF RunningHas, States, ReservedTyped
  <2>4. ByDispatch(reserved') \subseteq ByDispatch(reserved)
    BY <1>0, <2>1 DEF ByDispatch, ReservedTyped, Schedule!NotReserved
  <2> QED
    BY <2>2, <2>3, <2>4, FewerDispatched
<1>5. ASSUME NEW r \in Communications, Schedule!Finish(r) PROVE ScheduleInv'
  <2>1. PICK s \in {"completed", "failed"} : state' = [state EXCEPT ![r] = s]
    BY <1>5 DEF Schedule!Finish
  <2>2. Schedule!Release(r) /\ lanes' = lanes
    BY <1>5 DEF Schedule!Finish
  <2>3. LaneInv'
    BY <1>0, <2>2 DEF LaneInv
  <2> QED
    BY <1>4, <2>1, <2>2, <2>3 DEF ScheduleInv
<1>6. ASSUME NEW r \in Communications, Schedule!Cancel(r) PROVE ScheduleInv'
  <2>1. Schedule!Release(r) /\ state' = [state EXCEPT ![r] = "cancelled"]
    BY <1>6 DEF Schedule!Cancel
  <2>2. LaneInv'
    BY <1>0, <1>6, CancelKeeps
  <2> QED
    BY <1>4, <2>1, <2>2 DEF ScheduleInv
<1>7. ASSUME NEW most \in 1..Executions + 1, Schedule!Dispatch(most) PROVE ScheduleInv'
  BY <1>7, DispatchKeeps
<1>8. ASSUME LaneInv', UNCHANGED <<state, reserved, allocated>> PROVE ScheduleInv'
  BY <1>0, <1>8 DEF ScheduleInv, ReservedTyped, SumsHold, RunningHas
<1>9. ASSUME Schedule!Age PROVE ScheduleInv'
  <2>1. LaneInv'
    BY <1>0, <1>9, AgeKeeps
  <2> QED
    BY <1>8, <1>9, <2>1 DEF Schedule!Age
<1>10. ASSUME NEW place \in Schedule!Places, Schedule!WindowOpens(place) PROVE ScheduleInv'
  <2>1. LaneInv'
    BY <1>0, <1>10, WindowKeeps
  <2> QED
    BY <1>8, <1>10, <2>1 DEF Schedule!WindowOpens
<1>11. ASSUME UNCHANGED Schedule!vars PROVE ScheduleInv'
  <2>1. LaneInv'
    BY <1>0, <1>11 DEF LaneInv, Schedule!vars
  <2> QED
    BY <1>8, <1>11, <2>1 DEF Schedule!vars
<1> QED
  BY <1>1, <1>2, <1>3, <1>5, <1>6, <1>7, <1>9, <1>10, <1>11 DEF Schedule!Next

-----------------------------------------------------------------------------
(* What it means. *)

LEMMA ScheduleMeans ==
  ASSUME Schedule!ResourceSchedulerAssumption, ScheduleInv
  PROVE  Schedule!TypeOK /\ Schedule!ReservationsHold
<1>0. /\ LaneInv /\ ReservedTyped /\ SumsHold /\ RunningHas
      /\ Cardinality(ByDispatch(reserved)) <= Executions
      /\ allocated \in [Schedule!Kinds -> Nat]
  BY DispatchedAllocated DEF ScheduleInv
<1>1. \A place \in Schedule!Places : Schedule!Entry(place) \in Entries
  BY <1>0, LanePlaceIs
<1>2. \A r \in Communications :
       reserved[r] = Schedule!NotReserved \/ /\ reserved[r].cost \in Schedule!Costs
                                             /\ reserved[r].by \in {"optimize", "dispatch"}
  BY <1>0 DEF ReservedTyped, Reservations
<1>3. Schedule!TypeOK
  BY <1>0, <1>1, <1>2 DEF Schedule!TypeOK, Entries, RunningHas, States
<1>4. ASSUME NEW kind \in Schedule!Kinds
      PROVE  allocated[kind] = Schedule!Taking(reserved, kind)
  <2>1. DOMAIN reserved = Communications /\ IsFiniteSet(Communications)
    BY <1>0, SameCount DEF ReservedTyped, Schedule!ResourceSchedulerAssumption
  <2>2. Needs(reserved, kind) \in [Communications -> Nat]
    BY <1>0, <2>1, NeedsNumbers DEF ReservedTyped
  <2>3. Needs(reserved, kind) \in [Communications -> Int]
    BY <2>2
  <2>4. Schedule!Taking(reserved, kind) = Total(Needs(reserved, kind), Communications)
    BY <2>1, <2>3, TakingIs
  <2> QED
    BY <1>0, <2>4 DEF SumsHold
<1>5. Schedule!ReservationsHold
  BY <1>0, SameCount, <1>4 DEF Schedule!ReservationsHold, RunningHas, ByDispatch
<1> QED
  BY <1>3, <1>5

LEMMA OlderFirst ==
  ASSUME Schedule!ResourceSchedulerAssumption, ScheduleInv, [Schedule!Next]_Schedule!vars
  PROVE  Schedule!OlderGoFirst
<1>0. LaneInv /\ allocated["execution"] \in Nat
  BY DispatchedAllocated DEF ScheduleInv, Schedule!Kinds
<1> SUFFICES ASSUME NEW r \in Communications, state[r] # "running", state'[r] = "running",
                    Schedule!Waits(r),
                    NEW p \in Schedule!Places, NEW q \in Schedule!Places,
                    Schedule!Taken(Schedule!Entry(p)), ~Schedule!Taken(Schedule!Entry(q)), q[1] \in Schedule!Ready(lanes')
             PROVE  Schedule!Weight[p[1]] + Schedule!Entry(p).wait >= Schedule!Weight[q[1]] + Schedule!Entry(q).wait
  BY DEF Schedule!OlderGoFirst
\* Only a dispatch makes a request run that waits.
<1>1. PICK most \in 1..Executions + 1 : Schedule!Dispatch(most)
  <2>1. state \in [Communications -> States]
    BY DEF ScheduleInv, RunningHas
  <2>2. ASSUME NEW o \in Communications, NEW cost \in Schedule!Costs, Schedule!RunNow(o, cost)
        PROVE  FALSE
    BY <2>1, <2>2 DEF Schedule!RunNow
  <2>3. ASSUME NEW o \in Communications, NEW lane \in Schedule!Lanes,
               NEW cost \in Schedule!Costs, NEW early \in BOOLEAN,
               Schedule!Enqueue(o, lane, cost, early)
        PROVE  FALSE
    BY <2>1, <2>3 DEF Schedule!Enqueue
  <2>4. ASSUME NEW o \in Communications,
               Schedule!Finish(o) \/ Schedule!Cancel(o) \/ \E lane \in Schedule!Lanes : Schedule!Overflow(o, lane)
        PROVE  FALSE
    BY <2>1, <2>4 DEF Schedule!Finish, Schedule!Cancel, Schedule!Overflow
  <2>5. ASSUME Schedule!Age \/ \E place \in Schedule!Places : Schedule!WindowOpens(place)
        PROVE  FALSE
    BY <2>5 DEF Schedule!Age, Schedule!WindowOpens
  <2>6. ASSUME UNCHANGED Schedule!vars PROVE FALSE
    BY <2>6 DEF Schedule!vars
  <2> QED
    BY <2>2, <2>3, <2>4, <2>5, <2>6 DEF Schedule!Next
<1>2. PICK n \in Nat : \E b : PickInv(b, n) /\ IsDispatch(b)
  BY <1>0, <1>1, DispatchIs
<1>3. PICK b : PickInv(b, n) /\ lanes' = b.left
  BY <1>2 DEF IsDispatch
<1>4. PICK l \in Schedule!Lanes : \E i \in 1..Len(lanes[l]) :
        p[1] = l /\ p[2] = i /\ Schedule!Entry(p) = lanes[l][i] /\ lanes[l][i] \in Entries
  BY <1>0, LanePlaceIs
<1>5. PICK i \in 1..Len(lanes[l]) : p[1] = l /\ Schedule!Entry(p) = lanes[l][i]
  BY <1>4
<1>6. PICK m \in Schedule!Lanes : \E j \in 1..Len(lanes[m]) :
        q[1] = m /\ q[2] = j /\ Schedule!Entry(q) = lanes[m][j] /\ lanes[m][j] \in Entries
  BY <1>0, LanePlaceIs
<1>7. PICK j \in 1..Len(lanes[m]) : q[1] = m /\ Schedule!Entry(q) = lanes[m][j]
  BY <1>6
<1>8. ASSUME NEW h \in Schedule!Lanes
      PROVE  /\ b.left[h] \in Seq(Entries) /\ Len(lanes[h]) \in Nat /\ Len(b.left[h]) \in Nat
             /\ Len(b.left[h]) <= Len(lanes[h]) /\ Len(lanes[h]) <= LaneCapacity
             /\ \A x \in 1..Len(b.left[h]) : b.left[h][x] = lanes[h][x + Gone(b, h)]
  BY <1>0, <1>3 DEF PickInv, LeftOver, LaneInv, QueuesHold
\* The one was taken of its lane, the other was left.
<1>9. i \in 1..Gone(b, l)
  <2>1. PICK x \in Nat : x = Len(lanes[l])
    BY <1>8
  <2>2. PICK y \in Nat : y = Len(b.left[l]) /\ y <= x /\ x <= LaneCapacity
    BY <1>8, <2>1
  <2>3. Gone(b, l) = x - y
    BY <2>1, <2>2 DEF Gone
  <2> SUFFICES ASSUME ~(i <= x - y) PROVE FALSE
    BY <2>1, <2>2, <2>3
  <2> DEFINE k == i - (x - y)
  <2>4. k \in 1..y /\ k + (x - y) = i /\ k \in 1..LaneCapacity
    <3>1. PICK a \in 1..x : a = i
      BY <2>1
    <3>2. ~(a <= x - y) /\ y <= x /\ x <= LaneCapacity /\ LaneCapacity \in Nat
      BY <2>2, <3>1 DEF Schedule!ResourceSchedulerAssumption
    <3>3. a - (x - y) \in 1..y /\ a - (x - y) + (x - y) = a /\ a - (x - y) \in 1..LaneCapacity
      BY <3>2
    <3> QED
      BY <3>1, <3>3
  <2> HIDE DEF k
  <2>5. b.left[l][k] = lanes[l][k + Gone(b, l)]
    BY <1>8, <2>2, <2>4
  <2>6. lanes'[l][k].id = Schedule!Entry(p).id /\ k <= Len(lanes'[l])
    <3>1. k + Gone(b, l) = i
      BY <2>3, <2>4
    <3>2. lanes'[l][k] = lanes[l][i]
      BY <1>3, <2>5, <3>1, Zenon
    <3>3. k <= y
      BY <2>4
    <3> QED
      BY <1>3, <1>5, <2>2, <3>2, <3>3, Zenon
  <2> QED
    BY <2>4, <2>6 DEF Schedule!Taken
<1>10. j > Gone(b, m)
  <2>1. PICK h \in Schedule!Lanes, k \in 1..LaneCapacity :
          k <= Len(lanes'[h]) /\ lanes'[h][k].id = Schedule!Entry(q).id
    BY DEF Schedule!Taken
  <2>2. PICK x \in Nat : x = Len(lanes[h])
    BY <1>8
  <2>3. PICK y \in Nat : y = Len(b.left[h]) /\ y <= x
    BY <1>8, <2>2
  <2>4. Gone(b, h) = x - y
    BY <2>2, <2>3 DEF Gone
  <2>5. k \in 1..y /\ k + (x - y) \in 1..x /\ k + (x - y) > x - y
    <3>1. k \in Nat /\ k >= 1
      BY <2>1 DEF Schedule!ResourceSchedulerAssumption
    <3>2. k <= y
      BY <1>3, <2>1, <2>3, Zenon
    <3>3. y <= x
      BY <2>3
    <3> QED
      BY <3>1, <3>2, <3>3
  <2>6. PICK z \in 1..Len(lanes[h]) : z = k + (x - y) /\ z > Gone(b, h)
    BY <2>2, <2>4, <2>5
  <2>7. lanes'[h][k] = lanes[h][z]
    BY <1>3, <1>8, <2>3, <2>4, <2>5, <2>6
  <2>8. lanes[h][z].id = lanes[m][j].id /\ WaitsOnce(lanes)
    BY <1>0, <1>7, <2>1, <2>7 DEF LaneInv
  <2>9. h = m /\ z = j
    BY <2>8 DEF WaitsOnce
  <2> QED
    BY <2>6, <2>9
<1>11. m \in Schedule!Ready(b.left)
  BY <1>3, <1>7
<1>12. TakenInOrder(b)
  BY <1>3 DEF PickInv
<1>13. Schedule!Weight[l] + lanes[l][i].wait >= Schedule!Weight[m] + lanes[m][j].wait
  BY <1>9, <1>10, <1>11, <1>12 DEF TakenInOrder
<1> QED
  BY <1>5, <1>7, <1>13

THEOREM SchedulingTyped == Schedule!ResourceSchedulerAssumption /\ Schedule!Spec => []Schedule!TypeOK
<1> SUFFICES ASSUME Schedule!ResourceSchedulerAssumption
             PROVE  Schedule!Spec => []Schedule!TypeOK
  OBVIOUS
<1>1. Schedule!Init => ScheduleInv
  BY InitSchedule
<1>2. ScheduleInv /\ [Schedule!Next]_Schedule!vars => ScheduleInv'
  BY ScheduleStep
<1>3. ScheduleInv => Schedule!TypeOK
  BY ScheduleMeans
<1> QED
  BY <1>1, <1>2, <1>3, PTL DEF Schedule!Spec

THEOREM ReservationsAdd == Schedule!ResourceSchedulerAssumption /\ Schedule!Spec => []Schedule!ReservationsHold
<1> SUFFICES ASSUME Schedule!ResourceSchedulerAssumption
             PROVE  Schedule!Spec => []Schedule!ReservationsHold
  OBVIOUS
<1>1. Schedule!Init => ScheduleInv
  BY InitSchedule
<1>2. ScheduleInv /\ [Schedule!Next]_Schedule!vars => ScheduleInv'
  BY ScheduleStep
<1>3. ScheduleInv => Schedule!ReservationsHold
  BY ScheduleMeans
<1> QED
  BY <1>1, <1>2, <1>3, PTL DEF Schedule!Spec

THEOREM NobodyIsPassedOver == Schedule!ResourceSchedulerAssumption /\ Schedule!Spec => [][Schedule!OlderGoFirst]_Schedule!vars
<1> SUFFICES ASSUME Schedule!ResourceSchedulerAssumption
             PROVE  Schedule!Spec => [][Schedule!OlderGoFirst]_Schedule!vars
  OBVIOUS
<1>1. Schedule!Init => ScheduleInv
  BY InitSchedule
<1>2. ScheduleInv /\ [Schedule!Next]_Schedule!vars => ScheduleInv'
  BY ScheduleStep
<1>3. ScheduleInv /\ [Schedule!Next]_Schedule!vars => [Schedule!OlderGoFirst]_Schedule!vars
  BY OlderFirst
<1> QED
  BY <1>1, <1>2, <1>3, PTL DEF Schedule!Spec

=============================================================================
