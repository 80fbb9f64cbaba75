--------------------------- MODULE ReplicaRecords ---------------------------
(***************************************************************************)
(* The records that replicas exchange (server/replication: versions,       *)
(* conflicts, merge, delta): how two records of one entity compare, which  *)
(* one wins a conflict, how they merge, and what a delta carries.          *)
(*                                                                         *)
(* A replica holds one entity per category.  An entity it does not hold is *)
(* the record with version 0, which every other record dominates.          *)
(***************************************************************************)
EXTENDS Naturals, FiniteSets

CONSTANTS
  Replicas,   \* replica ids, numbered in the order of their names
  Readers,    \* users whose read receipts are kept
  Categories, \* the categories in use
  Authority   \* authorityReplicaId; 0 for none: last-write-wins

ASSUME RecordsAssumption ==
  /\ Replicas \subseteq Nat \ {0}
  /\ Authority \in Replicas \cup {0}
  /\ Categories \subseteq {"conversations", "messages", "delivery",
                           "read-receipts"}

\* What stands for the content behind contentHash: a message and the title
\* of a conversation are known by the replica that wrote them, a delivery
\* state by its rank, a receipt by the readers (without their readAt).
Content(c) ==
  CASE c = "read-receipts" -> SUBSET Readers
    [] c = "delivery"      -> 0..3
    [] OTHER               -> Replicas \cup {0}

\* at: updatedAt, which matters to messages only.
Record(c) == [version : Nat, at : Nat, data : Content(c)]

IsSnapshot(m) ==
  /\ m = [c \in Categories |-> m[c]]
  /\ \A c \in Categories : m[c] \in Record(c)

Absent(c) == [version |-> 0, at |-> 0,
              data |-> IF c = "read-receipts" THEN {} ELSE 0]

Mergeable(c) == c # "messages"

Greater(a, b) == IF a >= b THEN a ELSE b

(***************************************************************************)
(* Stamps and conflicts.                                                   *)
(***************************************************************************)

Dominates(a, b)  == a.version > b.version
Concurrent(a, b) == a.version = b.version /\ a.data # b.data

\* lwwWinner: the newest, then the one of the higher writer.
Newest(a, b) ==
  IF a.at > b.at \/ (a.at = b.at /\ a.data >= b.data) THEN a ELSE b

\* ConflictResolver.resolve: the record of the authority, then the newest.
Winner(a, b) ==
  CASE a.data = Authority -> a
    [] a.data # Authority /\ b.data = Authority -> b
    [] OTHER -> Newest(a, b)

(***************************************************************************)
(* Merging.                                                                *)
(***************************************************************************)

\* Mutation: the record of the higher version replaces the other.
MergeTakesNewer(c, a, b) == IF b.version > a.version THEN b ELSE a

\* Mutation: a merge makes a new version.
MergeBumps(c, a, b) ==
  [version |-> Greater(a.version, b.version) + 1, at |-> Greater(a.at, b.at),
   data |-> CASE c = "read-receipts" -> a.data \cup b.data
              [] c = "delivery" -> Greater(a.data, b.data)
              [] OTHER -> IF Dominates(b, a) THEN b.data ELSE a.data]

\* mergeRecords for the mergeable categories: readers are united, the most
\* advanced delivery state stays, a scalar field is the first record's unless
\* that is dominated.  The version is the higher of both.
mergeRecords(c, a, b) ==
  [version |-> Greater(a.version, b.version), at |-> Greater(a.at, b.at),
   data |-> CASE c = "read-receipts" -> a.data \cup b.data
              [] c = "delivery" -> Greater(a.data, b.data)
              [] OTHER -> IF Dominates(b, a) THEN b.data ELSE a.data]

\* mergeRecords of messages, which are merged by explicit resolution only.
mergeMessages(a, b) ==
  [version |-> Greater(a.version, b.version), at |-> Greater(a.at, b.at),
   data |-> Newest(a, b).data]

mergeEntity(c, s, t) ==
  CASE Mergeable(c)     -> mergeRecords(c, s, t)
    [] ~ Mergeable(c) /\ Concurrent(s, t) -> Winner(s, t)
    [] OTHER            -> IF Dominates(s, t) THEN s ELSE t

\* The merged snapshot has the categories that were asked for.
mergeReplicas(source, target, cats) ==
  [c \in Categories |-> IF c \in cats THEN mergeEntity(c, source[c], target[c])
                        ELSE Absent(c)]

\* Mutation: a concurrent record replaces the one that is there.
AdoptConcurrent(existing, incoming) ==
  IF Dominates(incoming, existing) \/ Concurrent(incoming, existing)
    THEN incoming ELSE existing

\* applyRecord: only what dominates is adopted.
applyRecord(existing, incoming) ==
  IF Dominates(incoming, existing) THEN incoming ELSE existing

(***************************************************************************)
(* Deltas.                                                                 *)
(***************************************************************************)

\* The order of ALL_CATEGORIES.
Place(c) == CASE c = "conversations" -> 1 [] c = "messages" -> 2
              [] c = "delivery"      -> 3 [] OTHER          -> 4

\* Which categories' entities a delta from source to target carries.
Missing(source, target, cats) ==
  {c \in cats : \/ Dominates(source[c], target[c])
                \/ Mergeable(c) /\ Concurrent(source[c], target[c])}

\* The first n of a delta's items, and what a resumed delta has left.
FirstItems(items, n) ==
  {c \in items : Cardinality({d \in items : Place(d) <= Place(c)}) <= n}
AfterCursor(items, n) == items \ FirstItems(items, n)

applyDelta(target, source, items) ==
  [c \in Categories |->
     IF c \in items
       THEN IF Mergeable(c) THEN mergeRecords(c, target[c], source[c])
            ELSE applyRecord(target[c], source[c])
       ELSE target[c]]
=============================================================================
