----------------------------- MODULE Groups_proofs -----------------------------
(***************************************************************************)
(* Proofs about groups, for all sets of members, devices and requests: the *)
(* ticks of a message are earned and never taken back (GroupReceipts); a   *)
(* message is sent to each device once and is not forgotten, but in the    *)
(* cases the module names (GroupFanout); invitations are kept and answered *)
(* once (GroupChat); a managed group has an owner who is in it, a deleted  *)
(* one nobody, and its replica shows it (GroupManager); the key in use is  *)
(* that of the members (GroupKeys).                                        *)
(***************************************************************************)
EXTENDS GroupReceipts, FiniteSetTheorems, SequenceTheorems, TLAPS

CONSTANTS Devices, Requests, AtomicDrain, SendMayFail, ResumeMayFail,
  Users, Admin, MaxChanges,
  MaxMembers, Public, MaxVersion, MayFail, MaxExpired
VARIABLES plan, queue, sender, requests, sent, confirmed,
  lost, shared,
  members, pending, version,
  group, memberships, replica, work, draft, refreshing, torn,
  keys, secret, bounds

Fanout == INSTANCE GroupFanout
Chat == INSTANCE GroupChat
Manager == INSTANCE GroupManager
Epochs == INSTANCE GroupKeys

-----------------------------------------------------------------------------
(* The ticks of a message (GroupReceipts). *)

Counts == {NoAggregate} \cup [delivered : 0..Applicable, read : 0..ReadApplicable]
Receipt == [delivered : BOOLEAN, read : BOOLEAN]
Storing == [op : {"store"}, member : Members, kind : Kinds,
            aggregate : Counts, receipt : Receipt]
Counting == [op : {"count"}, became : Receipt, aggregate : Counts]
Refreshing == [op : {"refresh"}]
Filling == [op : {"fill"}, view : Counts]
Call == {Idle} \cup Storing \cup Counting \cup Refreshing \cup Filling

Typed ==
  /\ aggregate \in Counts /\ cache \in Counts
  /\ receipts \in [Members -> Receipt]
  /\ lock \in Callers \cup {NoOne}
  /\ missed \in [delivered : Nat, read : Nat]
  /\ calls \in [Callers -> Call]

\* Under the lock a caller works on what is stored.
Locked(c) ==
  /\ calls[c].op \in {"store", "count", "refresh"} => lock = c
  /\ calls[c].op \in {"store", "count"} =>
       aggregate # NoAggregate /\ calls[c].aggregate = aggregate
  /\ calls[c].op = "store" => calls[c].receipt = receipts[calls[c].member]

\* The delivery that the lock's holder has stored and is about to count.
AboutToCount ==
  IF lock # NoOne /\ calls[lock].op = "count" /\ calls[lock].became.delivered
    THEN 1 ELSE 0

Counted == IF aggregate = NoAggregate THEN 0 ELSE aggregate.delivered

Exact == Counted + missed.delivered + AboutToCount = Cardinality(DeliveredTo)

\* What was read earlier is at most what is true now.
Earlier ==
  /\ cache.delivered <= Cardinality(DeliveredTo)
  /\ \A c \in Callers : calls[c].op = "fill" =>
       calls[c].view.delivered <= Cardinality(DeliveredTo)

IInv == Typed /\ (\A c \in Callers : Locked(c)) /\ Exact /\ Earlier

LEMMA DeliveredCounts ==
  ASSUME GroupReceiptsAssumption
  PROVE  /\ IsFiniteSet(DeliveredTo) /\ Cardinality(DeliveredTo) \in Nat
         /\ Applicable \in Nat /\ ReadApplicable \in Nat
         /\ Cardinality(DeliveredTo) <= Applicable
         /\ Cardinality(DeliveredTo) = Applicable => DeliveredTo = Members
<1>1. DeliveredTo \subseteq Members /\ IsFiniteSet(Members)
  BY DEF DeliveredTo, GroupReceiptsAssumption
<1>2. /\ IsFiniteSet(DeliveredTo)
      /\ Cardinality(DeliveredTo) <= Cardinality(Members)
      /\ Cardinality(DeliveredTo) = Cardinality(Members) => DeliveredTo = Members
  BY <1>1, FS_Subset
<1>3. IsFiniteSet(Members \ ReadExcluded)
  BY <1>1, FS_Subset, Members \ ReadExcluded \subseteq Members
<1> QED
  BY <1>1, <1>2, <1>3, FS_CardinalityType DEF Applicable, ReadApplicable

LEMMA InitIInv == ASSUME GroupReceiptsAssumption PROVE Init => IInv
<1> SUFFICES ASSUME Init PROVE IInv
  OBVIOUS
<1>1. Typed
  BY DEF Init, Typed, Counts, Receipt, Call, Idle
<1>2. \A c \in Callers : Locked(c)
  BY DEF Init, Locked, Idle
<1>3. Cardinality(DeliveredTo) = 0
  <2>1. DeliveredTo = {}
    BY DEF Init, DeliveredTo
  <2> QED
    BY <2>1, FS_EmptySet
<1>4. Exact
  BY <1>3 DEF Init, Exact, Counted, AboutToCount, NoAggregate
<1>5. Earlier
  BY <1>3 DEF Init, Earlier, NoAggregate, Idle
<1> QED
  BY <1>1, <1>2, <1>4, <1>5 DEF IInv

UnderLock == {"store", "count", "refresh"}

\* Nobody but the lock's holder is under the lock.
LEMMA OneUnderLock ==
  ASSUME GroupReceiptsAssumption, IInv, NEW d \in Callers,
         lock = NoOne \/ lock # d
  PROVE  calls[d].op \notin UnderLock
BY DEF IInv, Locked, UnderLock, GroupReceiptsAssumption, NoOne

LEMMA RegisterIInv ==
  ASSUME GroupReceiptsAssumption, IInv, Register PROVE IInv'
<1>1. \A d \in Callers : calls[d].op \notin UnderLock
  BY OneUnderLock DEF Register
<1>2. Typed'
  <2>1. [delivered |-> 0, read |-> 0] \in Counts
    BY DeliveredCounts DEF Counts
  <2> QED
    BY <2>1 DEF IInv, Typed, Register
<1>3. \A d \in Callers : Locked(d)'
  BY <1>1 DEF Locked, UnderLock, Register
<1>4. Exact'
  BY DEF IInv, Exact, Counted, AboutToCount, Register, DeliveredTo, NoAggregate
<1>5. Earlier'
  BY DeliveredCounts DEF IInv, Earlier, Register, DeliveredTo
<1> QED
  BY <1>2, <1>3, <1>4, <1>5 DEF IInv

LEMMA ReportIInv ==
  ASSUME GroupReceiptsAssumption, IInv,
         NEW c \in Callers, NEW m \in Members, NEW kind \in Kinds,
         Report(c, m, kind)
  PROVE  IInv'
<1> DEFINE call == [op |-> "store", member |-> m, kind |-> kind,
                    aggregate |-> aggregate, receipt |-> receipts[m]]
<1>1. /\ calls' = [calls EXCEPT ![c] = call] /\ lock = NoOne /\ lock' = c
      /\ UNCHANGED <<aggregate, receipts, cache, missed>>
      /\ aggregate # NoAggregate
  BY DEF Report, Reports, Busy
<1>2. call \in Storing
  BY DEF IInv, Typed, Storing
<1>3. /\ calls'[c] = call
      /\ \A d \in Callers : d # c => calls'[d] = calls[d]
  BY <1>1 DEF IInv, Typed
<1>4. Typed'
  <2> HIDE DEF call
  <2> QED
    BY <1>1, <1>2 DEF IInv, Typed, Call
<1>5. ASSUME NEW d \in Callers PROVE Locked(d)'
  <2>1. CASE d = c
    BY <2>1, <1>1, <1>3 DEF Locked
  <2>2. CASE d # c
    <3>1. calls[d].op \notin UnderLock
      BY <1>1, OneUnderLock
    <3> QED
      BY <2>2, <3>1, <1>3 DEF Locked, UnderLock
  <2> QED
    BY <2>1, <2>2
<1>6. Exact'
  <2>1. AboutToCount = 0 /\ AboutToCount' = 0
    BY <1>1, <1>3 DEF AboutToCount
  <2>2. Cardinality(DeliveredTo)' = Cardinality(DeliveredTo) /\ Counted' = Counted
    BY <1>1 DEF DeliveredTo, Counted
  <2> QED
    BY <1>1, <2>1, <2>2 DEF IInv, Exact
<1>7. Earlier'
  BY <1>1, <1>3 DEF IInv, Earlier, DeliveredTo
<1> QED
  BY <1>4, <1>5, <1>6, <1>7 DEF IInv

\* The delivery that is stored is one receipt more.
LEMMA OneMore ==
  ASSUME GroupReceiptsAssumption, IInv, NEW c \in Callers, StoreReceipt(c)
  PROVE  Cardinality(DeliveredTo)' =
           Cardinality(DeliveredTo) + IF Became(calls[c]).delivered THEN 1 ELSE 0
<1> DEFINE call == calls[c]
           became == Became(call)
           m == call.member
<1>1. call \in Storing /\ call.receipt = receipts[m]
  BY DEF StoreReceipt, IInv, Typed, Call, Idle, Counting, Refreshing, Filling,
         Locked
<1>2. m \in Members /\ receipts[m] \in Receipt
  BY <1>1 DEF IInv, Typed, Storing
<1>3. receipts' = [receipts EXCEPT ![m] =
          [delivered |-> call.receipt.delivered \/ became.delivered,
           read      |-> call.receipt.read \/ became.read]]
  BY DEF StoreReceipt
<1>4. /\ receipts'[m].delivered = (receipts[m].delivered \/ became.delivered)
      /\ \A n \in Members : n # m => receipts'[n] = receipts[n]
  <2> HIDE DEF became, m, call
  <2>1. receipts \in [Members -> Receipt]
    BY DEF IInv, Typed
  <2> QED
    BY <1>1, <1>2, <1>3, <2>1
<1>5. IsFiniteSet(DeliveredTo) /\ Cardinality(DeliveredTo) \in Nat
  BY DeliveredCounts
<1>6. CASE became.delivered
  <2>1. m \notin DeliveredTo
    BY <1>1, <1>6 DEF DeliveredTo, Became
  <2>2. DeliveredTo' = DeliveredTo \cup {m}
    <3> HIDE DEF became, m, call
    <3> QED
      BY <1>2, <1>4, <1>6 DEF DeliveredTo
  <2>3. Cardinality(DeliveredTo \cup {m}) = Cardinality(DeliveredTo) + 1
    BY <2>1, <1>5, FS_AddElement
  <2> QED
    BY <1>6, <2>2, <2>3
<1>7. CASE ~ became.delivered
  <2>1. DeliveredTo' = DeliveredTo
    <3> HIDE DEF became, m, call
    <3> QED
      BY <1>2, <1>4, <1>7 DEF DeliveredTo
  <2> QED
    BY <1>5, <1>7, <2>1
<1> QED
  BY <1>6, <1>7

LEMMA StoreReceiptIInv ==
  ASSUME GroupReceiptsAssumption, IInv, NEW c \in Callers, StoreReceipt(c)
  PROVE  IInv'
<1> DEFINE call == calls[c]
           became == Became(call)
           next == IF became.delivered \/ became.read
                     THEN [op |-> "count", became |-> became,
                           aggregate |-> call.aggregate]
                     ELSE [op |-> "refresh"]
<1>1. /\ call \in Storing
      /\ call.aggregate = aggregate /\ aggregate # NoAggregate /\ lock = c
  BY DEF StoreReceipt, IInv, Typed, Call, Idle, Counting, Refreshing, Filling,
         Locked
<1>2. /\ calls' = [calls EXCEPT ![c] = next]
      /\ UNCHANGED <<aggregate, lock, cache, missed>>
      /\ receipts' = [receipts EXCEPT ![call.member] =
          [delivered |-> call.receipt.delivered \/ became.delivered,
           read      |-> call.receipt.read \/ became.read]]
  BY DEF StoreReceipt, Busy
<1>3. became \in Receipt /\ call.receipt \in Receipt /\ call.member \in Members
  BY <1>1 DEF Became, Receipt, Storing
<1>4. next \in Counting \cup Refreshing
  BY <1>1, <1>3 DEF Counting, Refreshing, Storing
<1>5. /\ calls'[c] = next
      /\ \A d \in Callers : d # c => calls'[d] = calls[d]
  BY <1>2 DEF IInv, Typed
<1>6. Typed'
  <2>1. calls' \in [Callers -> Call]
    <3> HIDE DEF next
    <3> QED
      BY <1>2, <1>4 DEF IInv, Typed, Call
  <2>2. [delivered |-> call.receipt.delivered \/ became.delivered,
         read      |-> call.receipt.read \/ became.read] \in Receipt
    BY <1>3 DEF Receipt
  <2>3. receipts' \in [Members -> Receipt]
    <3> HIDE DEF call, became
    <3> QED
      BY <1>2, <1>3, <2>2 DEF IInv, Typed
  <2> QED
    BY <1>2, <2>1, <2>3 DEF IInv, Typed
<1>7. ASSUME NEW d \in Callers PROVE Locked(d)'
  <2>1. CASE d = c
    <3>1. calls'[d].op # "store" /\ calls'[d].op # "fill"
      BY <2>1, <1>4, <1>5 DEF Counting, Refreshing
    <3>2. calls'[d].op = "count" => calls'[d].aggregate = aggregate
      BY <2>1, <1>1, <1>5
    <3> QED
      BY <2>1, <3>1, <3>2, <1>1, <1>2 DEF Locked
  <2>2. CASE d # c
    <3>1. calls[d].op \notin UnderLock
      BY <2>2, <1>1, OneUnderLock
    <3> QED
      BY <2>2, <3>1, <1>5 DEF Locked, UnderLock
  <2> QED
    BY <2>1, <2>2
<1>8. Exact'
  <2>1. AboutToCount = 0
    BY <1>1 DEF AboutToCount, Storing
  <2>2. AboutToCount' = IF became.delivered THEN 1 ELSE 0
    <3>1. lock # NoOne
      BY <1>1 DEF GroupReceiptsAssumption, NoOne
    <3>2. CASE became.delivered
      <4>1. next = [op |-> "count", became |-> became, aggregate |-> call.aggregate]
        BY <3>2
      <4> HIDE DEF next, became, call
      <4>2. /\ lock' = c /\ lock' # NoOne
            /\ calls'[c].op = "count" /\ calls'[c].became.delivered
        BY <3>1, <3>2, <4>1, <1>1, <1>2, <1>5
      <4> QED
        BY <3>2, <4>2 DEF AboutToCount
    <3>3. CASE ~ became.delivered
      <4>1. calls'[c].op = "count" => calls'[c].became = became
        BY <1>5
      <4> HIDE DEF next, became, call
      <4> QED
        BY <3>3, <4>1, <1>1, <1>2 DEF AboutToCount
    <3> QED
      BY <3>2, <3>3
  <2>3. Counted' = Counted
    BY <1>2 DEF Counted
  <2>4. Cardinality(DeliveredTo)' =
          Cardinality(DeliveredTo) + IF became.delivered THEN 1 ELSE 0
    BY OneMore
  <2>5. Counted + missed.delivered + AboutToCount = Cardinality(DeliveredTo)
    BY DEF IInv, Exact
  <2>6. Counted \in Int /\ missed.delivered \in Nat
    BY DeliveredCounts DEF IInv, Typed, Counted, Counts, NoAggregate
  <2> HIDE DEF became
  <2> QED
    BY <1>2, <2>1, <2>2, <2>3, <2>4, <2>5, <2>6 DEF Exact
<1>9. Earlier'
  <2>1. Cardinality(DeliveredTo)' >= Cardinality(DeliveredTo)
    BY OneMore, DeliveredCounts
  <2>2. Cardinality(DeliveredTo)' \in Int /\ Cardinality(DeliveredTo) \in Int
    BY OneMore, DeliveredCounts
  <2>3. cache' = cache /\ cache.delivered \in Int
    BY <1>2, DeliveredCounts DEF IInv, Typed, Counts, NoAggregate
  <2>4. ASSUME NEW d \in Callers, calls'[d].op = "fill"
        PROVE  calls'[d] = calls[d] /\ calls[d].view.delivered \in Int
    <3>1. d # c
      BY <2>4, <1>4, <1>5 DEF Counting, Refreshing
    <3>2. calls'[d] = calls[d] /\ calls[d] \in Filling
      BY <2>4, <3>1, <1>5
         DEF IInv, Typed, Call, Idle, Storing, Counting, Refreshing
    <3> QED
      BY <3>2, DeliveredCounts DEF Filling, Counts, NoAggregate
  <2> QED
    BY <2>1, <2>2, <2>3, <2>4 DEF IInv, Earlier
<1> QED
  BY <1>6, <1>7, <1>8, <1>9 DEF IInv

LEMMA CountIInv ==
  ASSUME GroupReceiptsAssumption, IInv, NEW c \in Callers, Count(c)
  PROVE  IInv'
<1> DEFINE became == calls[c].became
           more == IF became.delivered THEN 1 ELSE 0
<1>1. /\ calls[c] \in Counting /\ calls[c].aggregate = aggregate
      /\ aggregate # NoAggregate /\ lock = c /\ lock # NoOne
  <2>1. calls[c].op = "count" /\ Locked(c)
    BY DEF Count, IInv
  <2>2. calls[c] \in Counting
    BY <2>1 DEF IInv, Typed, Call, Idle, Storing, Refreshing, Filling
  <2> QED
    BY <2>1, <2>2 DEF Locked, GroupReceiptsAssumption, NoOne
<1>2. /\ calls' = [calls EXCEPT ![c] = [op |-> "refresh"]]
      /\ UNCHANGED <<receipts, lock, cache, missed>>
      /\ aggregate' =
           [delivered |-> Least(Applicable, aggregate.delivered + more),
            read |-> Least(ReadApplicable,
                           aggregate.read + IF became.read THEN 1 ELSE 0)]
  BY <1>1 DEF Count, Busy
<1>3. /\ calls'[c] = [op |-> "refresh"]
      /\ \A d \in Callers : d # c => calls'[d] = calls[d]
  BY <1>2 DEF IInv, Typed
<1>4. aggregate \in [delivered : 0..Applicable, read : 0..ReadApplicable]
  BY <1>1 DEF IInv, Typed, Counts
<1>5. aggregate.delivered + more <= Applicable
  <2>1. aggregate.delivered + missed.delivered + more = Cardinality(DeliveredTo)
    <3>1. AboutToCount = more
      BY <1>1 DEF AboutToCount, Counting
    <3>2. Counted = aggregate.delivered
      BY <1>1 DEF Counted
    <3> QED
      BY <3>1, <3>2 DEF IInv, Exact
  <2>2. missed.delivered \in Nat /\ aggregate.delivered \in Nat
    BY <1>4, DeliveredCounts DEF IInv, Typed
  <2> HIDE DEF became
  <2> QED
    BY <2>1, <2>2, DeliveredCounts
<1>6. /\ aggregate' \in [delivered : 0..Applicable, read : 0..ReadApplicable]
      /\ aggregate' # NoAggregate
      /\ aggregate'.delivered = aggregate.delivered + more
  <2> HIDE DEF became
  <2> QED
    BY <1>2, <1>4, <1>5, DeliveredCounts DEF Least, NoAggregate
<1>7. Typed'
  <2>1. calls' \in [Callers -> Call]
    BY <1>2 DEF IInv, Typed, Call, Refreshing
  <2> QED
    BY <1>2, <1>6, <2>1 DEF IInv, Typed, Counts
<1>8. ASSUME NEW d \in Callers PROVE Locked(d)'
  <2>1. CASE d = c
    BY <2>1, <1>1, <1>2, <1>3 DEF Locked
  <2>2. CASE d # c
    <3>1. calls[d].op \notin UnderLock
      BY <2>2, <1>1, OneUnderLock
    <3> QED
      BY <2>2, <3>1, <1>3 DEF Locked, UnderLock
  <2> QED
    BY <2>1, <2>2
<1>9. Exact'
  <2>1. AboutToCount = more /\ AboutToCount' = 0
    BY <1>1, <1>2, <1>3 DEF AboutToCount, Counting
  <2>2. Counted = aggregate.delivered /\ Counted' = aggregate.delivered + more
    BY <1>1, <1>6 DEF Counted
  <2>3. Cardinality(DeliveredTo)' = Cardinality(DeliveredTo)
    BY <1>2 DEF DeliveredTo
  <2>4. missed.delivered \in Nat /\ aggregate.delivered \in Nat
    BY <1>4, DeliveredCounts DEF IInv, Typed
  <2> HIDE DEF became
  <2> QED
    BY <1>2, <2>1, <2>2, <2>3, <2>4 DEF IInv, Exact
<1>10. Earlier'
  BY <1>2, <1>3 DEF IInv, Earlier, DeliveredTo
<1> QED
  BY <1>7, <1>8, <1>9, <1>10 DEF IInv

\* What Misses adds is what was about to be counted.
LEMMA Missing ==
  ASSUME GroupReceiptsAssumption, IInv, NEW c \in Callers,
         calls[c].op = "count", Misses(calls[c].became)
  PROVE  /\ missed' \in [delivered : Nat, read : Nat]
         /\ missed'.delivered = missed.delivered + AboutToCount
<1>1. lock = c /\ lock # NoOne
  BY DEF IInv, Locked, GroupReceiptsAssumption, NoOne
<1>2. missed \in [delivered : Nat, read : Nat]
  BY DEF IInv, Typed
<1> QED
  BY <1>1, <1>2 DEF Misses, AboutToCount

LEMMA CountFailsIInv ==
  ASSUME GroupReceiptsAssumption, IInv, NEW c \in Callers, CountFails(c)
  PROVE  IInv'
<1>1. /\ calls[c].op = "count" /\ lock = c
      /\ calls' = [calls EXCEPT ![c] = Idle] /\ lock' = NoOne
      /\ Misses(calls[c].became)
      /\ UNCHANGED <<aggregate, receipts, cache>>
  BY DEF CountFails, Release, Busy, IInv, Locked
<1>2. /\ calls'[c] = Idle
      /\ \A d \in Callers : d # c => calls'[d] = calls[d]
  BY <1>1 DEF IInv, Typed
<1>3. Typed'
  BY <1>1, Missing DEF IInv, Typed, Call
<1>4. ASSUME NEW d \in Callers PROVE Locked(d)'
  <2>1. CASE d = c
    BY <2>1, <1>2 DEF Locked, Idle
  <2>2. CASE d # c
    <3>1. calls[d].op \notin UnderLock
      BY <2>2, <1>1, OneUnderLock
    <3> QED
      BY <2>2, <3>1, <1>2 DEF Locked, UnderLock
  <2> QED
    BY <2>1, <2>2
<1>5. Exact'
  <2>1. AboutToCount' = 0
    BY <1>1 DEF AboutToCount
  <2>2. Counted' = Counted /\ Cardinality(DeliveredTo)' = Cardinality(DeliveredTo)
    BY <1>1 DEF Counted, DeliveredTo
  <2>3. Counted \in Int /\ missed.delivered \in Nat /\ AboutToCount \in Nat
    BY DeliveredCounts DEF IInv, Typed, Counted, Counts, NoAggregate, AboutToCount
  <2> QED
    BY <1>1, <2>1, <2>2, <2>3, Missing DEF IInv, Exact
<1>6. Earlier'
  BY <1>1, <1>2 DEF IInv, Earlier, DeliveredTo, Idle
<1> QED
  BY <1>3, <1>4, <1>5, <1>6 DEF IInv

LEMMA RefreshIInv ==
  ASSUME GroupReceiptsAssumption, IInv, NEW c \in Callers, Refresh(c)
  PROVE  IInv'
<1>1. /\ calls[c].op = "refresh" /\ lock = c
      /\ calls' = [calls EXCEPT ![c] = Idle] /\ lock' = NoOne
      /\ cache' = aggregate
      /\ UNCHANGED <<aggregate, receipts, missed>>
  BY DEF Refresh, Release, Busy, IInv, Locked
<1>2. /\ calls'[c] = Idle
      /\ \A d \in Callers : d # c => calls'[d] = calls[d]
  BY <1>1 DEF IInv, Typed
<1>3. Typed'
  BY <1>1 DEF IInv, Typed, Call
<1>4. ASSUME NEW d \in Callers PROVE Locked(d)'
  <2>1. CASE d = c
    BY <2>1, <1>2 DEF Locked, Idle
  <2>2. CASE d # c
    <3>1. calls[d].op \notin UnderLock
      BY <2>2, <1>1, OneUnderLock
    <3> QED
      BY <2>2, <3>1, <1>2 DEF Locked, UnderLock
  <2> QED
    BY <2>1, <2>2
<1>5. AboutToCount = 0
  BY <1>1 DEF AboutToCount
<1>6. Exact'
  <2>1. AboutToCount' = 0
    BY <1>1 DEF AboutToCount
  <2>2. Counted' = Counted /\ Cardinality(DeliveredTo)' = Cardinality(DeliveredTo)
    BY <1>1 DEF Counted, DeliveredTo
  <2> QED
    BY <1>1, <1>5, <2>1, <2>2 DEF IInv, Exact
<1>7. aggregate.delivered <= Cardinality(DeliveredTo)
  <2>1. missed.delivered \in Nat /\ aggregate.delivered \in Int
    BY DeliveredCounts DEF IInv, Typed, Counts, NoAggregate
  <2> QED
    BY <1>5, <2>1, DeliveredCounts DEF IInv, Exact, Counted, NoAggregate
<1>8. Earlier'
  BY <1>1, <1>2, <1>7 DEF IInv, Earlier, DeliveredTo, Idle
<1> QED
  BY <1>3, <1>4, <1>6, <1>8 DEF IInv

\* A caller that only reads or only writes the cache.
LEMMA LookIInv ==
  ASSUME GroupReceiptsAssumption, IInv, NEW c \in Callers, Look(c) \/ Fill(c)
  PROVE  IInv'
<1> DEFINE view == [op |-> "fill", view |-> aggregate]
<1>1. /\ calls[c].op \notin UnderLock
      /\ \/ calls' = [calls EXCEPT ![c] = view] /\ cache' = cache
         \/ /\ calls' = [calls EXCEPT ![c] = Idle]
            /\ calls[c].op = "fill" /\ cache' = calls[c].view
      /\ UNCHANGED <<aggregate, receipts, lock, missed>>
  BY DEF Look, Fill, Busy, Idle, UnderLock
<1>2. view \in Filling /\ Idle \in Call
  BY DEF IInv, Typed, Filling, Call
<1>3. /\ calls'[c] = view \/ calls'[c] = Idle
      /\ \A d \in Callers : d # c => calls'[d] = calls[d]
  BY <1>1 DEF IInv, Typed
<1>4. calls[c].op = "fill" => calls[c].view \in Counts
  BY DEF IInv, Typed, Call, Filling, Idle, Storing, Counting, Refreshing
<1>5. Typed'
  <2> HIDE DEF view
  <2> QED
    BY <1>1, <1>2, <1>4 DEF IInv, Typed, Call
<1>6. ASSUME NEW d \in Callers PROVE Locked(d)'
  <2>1. CASE d = c
    BY <2>1, <1>3 DEF Locked, Idle
  <2>2. CASE d # c
    BY <2>2, <1>1, <1>3 DEF IInv, Locked
  <2> QED
    BY <2>1, <2>2
<1>7. AboutToCount' = AboutToCount
  <2>1. CASE lock = c
    BY <2>1, <1>1, <1>3 DEF AboutToCount, UnderLock, Idle
  <2>2. CASE lock = NoOne
    BY <2>2, <1>1 DEF AboutToCount
  <2>3. CASE lock # NoOne /\ lock # c
    <3>1. calls'[lock] = calls[lock]
      BY <2>3, <1>3 DEF IInv, Typed
    <3> QED
      BY <3>1, <1>1 DEF AboutToCount
  <2> QED
    BY <2>1, <2>2, <2>3
<1>8. Exact'
  BY <1>1, <1>7 DEF IInv, Exact, Counted, DeliveredTo
<1>9. aggregate.delivered <= Cardinality(DeliveredTo)
  <2>1. missed.delivered \in Nat /\ aggregate.delivered \in Int
    BY DeliveredCounts DEF IInv, Typed, Counts, NoAggregate
  <2> QED
    BY <2>1, DeliveredCounts DEF IInv, Exact, Counted, AboutToCount, NoAggregate
<1>10. Earlier'
  <2>1. Cardinality(DeliveredTo)' = Cardinality(DeliveredTo)
    BY <1>1 DEF DeliveredTo
  <2>2. cache'.delivered <= Cardinality(DeliveredTo)
    BY <1>1 DEF IInv, Earlier
  <2>3. ASSUME NEW d \in Callers, calls'[d].op = "fill"
        PROVE  calls'[d].view.delivered <= Cardinality(DeliveredTo)
    BY <2>3, <1>3, <1>9 DEF IInv, Earlier, Idle
  <2> QED
    BY <2>1, <2>2, <2>3 DEF Earlier
<1> QED
  BY <1>5, <1>6, <1>8, <1>10 DEF IInv

LEMMA ForgetIInv ==
  ASSUME GroupReceiptsAssumption, IInv, Forget PROVE IInv'
<1>1. cache' = NoAggregate /\ UNCHANGED <<aggregate, receipts, lock, calls, missed>>
  BY DEF Forget
<1>2. Earlier'
  BY <1>1, DeliveredCounts DEF IInv, Earlier, DeliveredTo, NoAggregate
<1> QED
  BY <1>1, <1>2 DEF IInv, Typed, Locked, Exact, Counted, AboutToCount,
                    DeliveredTo, Counts

LEMMA RestartIInv ==
  ASSUME GroupReceiptsAssumption, IInv, Restart PROVE IInv'
<1>1. /\ cache' = NoAggregate /\ lock' = NoOne
      /\ calls' = [c \in Callers |-> Idle]
      /\ UNCHANGED <<aggregate, receipts>>
  BY DEF Restart
<1>2. /\ missed' \in [delivered : Nat, read : Nat]
      /\ missed'.delivered = missed.delivered + AboutToCount
  <2>1. CASE lock # NoOne /\ calls[lock].op = "count"
    <3>1. lock \in Callers /\ Misses(calls[lock].became)
      BY <2>1 DEF Restart, IInv, Typed
    <3> QED
      BY <2>1, <3>1, Missing
  <2>2. CASE ~ (lock # NoOne /\ calls[lock].op = "count")
    <3>1. AboutToCount = 0 /\ missed' = missed
      BY <2>2 DEF Restart, AboutToCount
    <3> QED
      BY <3>1 DEF IInv, Typed
  <2> QED
    BY <2>1, <2>2
<1>3. Typed'
  BY <1>1, <1>2 DEF IInv, Typed, Call, Counts
<1>4. \A d \in Callers : Locked(d)'
  BY <1>1 DEF Locked, Idle
<1>5. Exact'
  <2>1. AboutToCount' = 0
    BY <1>1 DEF AboutToCount
  <2>2. Counted' = Counted /\ Cardinality(DeliveredTo)' = Cardinality(DeliveredTo)
    BY <1>1 DEF Counted, DeliveredTo
  <2>3. Counted \in Int /\ missed.delivered \in Nat /\ AboutToCount \in Nat
    BY DeliveredCounts DEF IInv, Typed, Counted, Counts, NoAggregate, AboutToCount
  <2> QED
    BY <1>2, <2>1, <2>2, <2>3 DEF IInv, Exact
<1>6. Earlier'
  BY <1>1, DeliveredCounts DEF Earlier, DeliveredTo, Idle, NoAggregate
<1> QED
  BY <1>3, <1>4, <1>5, <1>6 DEF IInv

LEMMA StepIInv ==
  ASSUME GroupReceiptsAssumption PROVE IInv /\ [Next]_vars => IInv'
<1> SUFFICES ASSUME IInv, [Next]_vars PROVE IInv'
  OBVIOUS
<1>1. CASE UNCHANGED vars
  BY <1>1 DEF IInv, Typed, Locked, Exact, Counted, AboutToCount, Earlier,
              DeliveredTo, vars
<1> QED
  BY <1>1, RegisterIInv, ReportIInv, StoreReceiptIInv, CountIInv,
     CountFailsIInv, RefreshIInv, LookIInv, ForgetIInv, RestartIInv
     DEF Next, Proceed

\* What the invariant says of the ticks and of the counters.
LEMMA Earned ==
  ASSUME GroupReceiptsAssumption, IInv
  PROVE  TickIsEarned /\ CountsAreReceipts
<1>1. /\ aggregate.delivered \in Int /\ cache.delivered \in Int
      /\ missed.delivered \in Nat
  BY DeliveredCounts DEF IInv, Typed, Counts, NoAggregate
<1>2. aggregate.delivered <= Cardinality(DeliveredTo)
  BY <1>1, DeliveredCounts DEF IInv, Exact, Counted, AboutToCount, NoAggregate
<1>3. cache.delivered <= Cardinality(DeliveredTo)
  BY DEF IInv, Earlier
<1>4. TickIsEarned
  BY <1>1, <1>2, <1>3, DeliveredCounts DEF TickIsEarned, Tick
<1>5. CountsAreReceipts
  BY <1>1 DEF IInv, Exact, Counted, AboutToCount, CountsAreReceipts
<1> QED
  BY <1>4, <1>5

LEMMA Rises ==
  ASSUME GroupReceiptsAssumption
  PROVE  IInv /\ [Next]_vars => TickRises
<1> SUFFICES ASSUME IInv, [Next]_vars PROVE TickRises
  OBVIOUS
<1>1. CASE aggregate' = aggregate
  BY <1>1 DEF TickRises, Tick, Rank
<1>2. CASE Register
  BY <1>2 DEF Register, TickRises, Tick, Rank
<1>3. ASSUME NEW c \in Callers, Count(c) PROVE TickRises
  <2>1. /\ aggregate # NoAggregate /\ calls[c].aggregate = aggregate
        /\ calls[c].op = "count"
    BY <1>3 DEF IInv, Locked, Count
  <2>2. aggregate \in [delivered : 0..Applicable, read : 0..ReadApplicable]
    BY <2>1 DEF IInv, Typed, Counts
  <2>3. /\ aggregate'.delivered >= aggregate.delivered
        /\ aggregate'.read >= aggregate.read
        /\ aggregate'.delivered \in Int /\ aggregate'.read \in Int
    <3>1. ASSUME NEW n \in Nat, NEW k \in 0..n, NEW more \in {0, 1}
          PROVE  Least(n, k + more) >= k /\ Least(n, k + more) \in Int
      BY DEF Least
    <3>2. aggregate' =
            [delivered |-> Least(Applicable, aggregate.delivered
                             + IF calls[c].became.delivered THEN 1 ELSE 0),
             read |-> Least(ReadApplicable, aggregate.read
                             + IF calls[c].became.read THEN 1 ELSE 0)]
      BY <1>3, <2>1 DEF Count
    <3> QED
      BY <2>2, <3>1, <3>2, DeliveredCounts
  <2>4. aggregate' # NoAggregate
    BY <2>2, <2>3, DeliveredCounts DEF NoAggregate
  <2> QED
    BY <2>1, <2>2, <2>3, <2>4, DeliveredCounts DEF TickRises, Tick, Rank
<1> QED
  BY <1>1, <1>2, <1>3
     DEF Next, Proceed, Report, StoreReceipt, CountFails, Refresh, Look, Fill,
         Forget, Restart, vars

\* The double tick is earned, also from the cache: with any number of members
\* and reports, every applicable member has the message on some device
\* (computeTick over the aggregate that _commitDelivery counts).
THEOREM TickEarned ==
  ASSUME GroupReceiptsAssumption PROVE Spec => []TickIsEarned
<1>1. IInv => TickIsEarned
  BY Earned
<1> QED
  BY <1>1, InitIInv, StepIInv, PTL DEF Spec

\* The counters agree with the members' receipts whenever nobody is at work:
\* each member is counted once, but for those whose count failed.
THEOREM CountsMatchReceipts ==
  ASSUME GroupReceiptsAssumption PROVE Spec => []CountsAreReceipts
<1>1. IInv => CountsAreReceipts
  BY Earned
<1> QED
  BY <1>1, InitIInv, StepIInv, PTL DEF Spec

\* No tick is ever taken back, whatever overlaps, fails or restarts.
THEOREM TicksOnlyRise ==
  ASSUME GroupReceiptsAssumption PROVE Spec => TickOnlyRises
<1>1. Spec => []IInv
  BY InitIInv, StepIInv, PTL DEF Spec
<1> QED
  BY <1>1, Rises, PTL DEF Spec, TickOnlyRises

-----------------------------------------------------------------------------
(* One group message (GroupFanout). *)

FanoutRequest ==
  {Fanout!Idle} \cup [op : {"deliver"}] \cup [op : {"delete"}, found : BOOLEAN]
  \cup [op : {"load"}, state : {"dispatched", "delivered"}]
  \cup [op : {"save"}, state : {"dispatched", "delivered"},
        legs : [Devices -> Fanout!LegStates \cup {"none"}]]

FanoutTyped ==
  /\ queue \subseteq Devices
  /\ sender \in [op : {"idle", "dispatch", "answered"},
                 legs : [Devices -> Fanout!LegStates \cup {"none"}],
                 todo : SUBSET Devices]
  /\ requests \in [Devices -> [Requests -> FanoutRequest]]
  /\ plan \in [Devices -> Fanout!LegStates \cup {"none"}]
  /\ sent \in [Devices -> Nat]
  /\ lost \subseteq Devices /\ shared \subseteq Devices

Delivers(d, r) == requests[d][r].op = "deliver"
Holds(d, r) == Delivers(d, r) \/ Fanout!Found(d, r)

\* Unless two requests have found the same entry, the message for a device is
\* held by one resume at most, and then it was not sent; while it is in the
\* queue it was not sent either and no resume is about to.
OneHand(d) ==
  /\ sent[d] <= 1
  /\ d \in queue => sent[d] = 0 /\ \A r \in Requests : ~ Delivers(d, r)
  /\ \A r \in Requests : Holds(d, r) =>
       sent[d] = 0 /\ \A s \in Requests : Holds(d, s) => s = r

\* Before the sender's request has dealt with a device nobody has its message,
\* and the in-memory queue has no entry that two requests find.
Handed(d) ==
  /\ sender.op = "idle" => d \notin sender.todo
  /\ sender.op = "idle" \/ d \in sender.todo =>
       /\ d \notin queue /\ d \notin shared /\ sent[d] = 0
       /\ \A r \in Requests : ~ Holds(d, r)
  /\ AtomicDrain = TRUE =>
       d \notin shared /\ \A r \in Requests : requests[d][r].op # "delete"
  /\ d \notin shared => OneHand(d)

\* The message is in some hand once the sender's request has begun, or in the
\* history of what was lost, which needs a reason.
SomeHand(d) ==
  /\ sender.op # "idle" =>
       \/ d \in sender.todo \/ sent[d] > 0 \/ d \in queue
       \/ \E r \in Requests : Holds(d, r)
       \/ sender.legs[d] = "failed" \/ d \in lost
  /\ d \in lost => AtomicDrain = FALSE \/ ResumeMayFail = TRUE

FanoutInv == FanoutTyped /\ (\A d \in Devices : Handed(d))

FanoutFullInv == FanoutInv /\ (\A d \in Devices : SomeHand(d))

LEMMA Switches ==
  ASSUME Fanout!GroupFanoutAssumption
  PROVE  AtomicDrain \in BOOLEAN /\ ResumeMayFail \in BOOLEAN
BY DEF Fanout!GroupFanoutAssumption

LEMMA InitFanout == Fanout!Init => FanoutFullInv
<1> SUFFICES ASSUME Fanout!Init PROVE FanoutFullInv
  OBVIOUS
<1>1. FanoutTyped
  BY DEF Fanout!Init, FanoutTyped, Fanout!NoPlan, FanoutRequest
<1>2. \A d \in Devices : Handed(d)
  <2> SUFFICES ASSUME NEW d \in Devices PROVE Handed(d)
    OBVIOUS
  <2>1. \A r \in Requests : requests[d][r].op = "idle"
    BY DEF Fanout!Init, Fanout!Idle
  <2>2. queue = {} /\ sent[d] = 0 /\ sender.todo = {} /\ shared = {}
    BY DEF Fanout!Init
  <2> QED
    BY <2>1, <2>2 DEF Handed, OneHand, Delivers, Holds, Fanout!Found
<1>3. \A d \in Devices : SomeHand(d)
  BY DEF Fanout!Init, SomeHand
<1> QED
  BY <1>1, <1>2, <1>3 DEF FanoutFullInv, FanoutInv

LEMMA FanoutTypedStep ==
  ASSUME Fanout!GroupFanoutAssumption
  PROVE  FanoutTyped /\ [Fanout!Next]_Fanout!vars => FanoutTyped'
<1> SUFFICES ASSUME FanoutTyped, [Fanout!Next]_Fanout!vars PROVE FanoutTyped'
  OBVIOUS
<1> USE DEF FanoutTyped
<1>1. ASSUME NEW online \in SUBSET Devices, Fanout!Send(online) PROVE FanoutTyped'
  BY <1>1 DEF Fanout!Send, Fanout!LegStates, Fanout!history
<1>2. ASSUME NEW d \in Devices, Fanout!Dispatch(d) \/ Fanout!Enqueue(d) PROVE FanoutTyped'
  <2>1. CASE Fanout!Dispatch(d)
    <3>1. /\ \E state \in Fanout!LegStates : Fanout!Leg(d, state)
          /\ sent' = [sent EXCEPT ![d] = @ + 1] \/ sent' = sent
          /\ UNCHANGED <<plan, queue, requests, lost, shared>>
      BY <2>1 DEF Fanout!Dispatch, Fanout!LegStates, Fanout!history
    <3>2. sender' \in [op : {"idle", "dispatch", "answered"},
                       legs : [Devices -> Fanout!LegStates \cup {"none"}],
                       todo : SUBSET Devices]
      <4>1. PICK state \in Fanout!LegStates : Fanout!Leg(d, state)
        BY <3>1
      <4> QED
        BY <4>1 DEF Fanout!Leg
    <3>3. sent' \in [Devices -> Nat]
      BY <3>1
    <3> QED
      BY <3>1, <3>2, <3>3
  <2>2. CASE Fanout!Enqueue(d)
    <3>1. Fanout!Leg(d, "queued") /\ "queued" \in Fanout!LegStates
      BY <2>2 DEF Fanout!Enqueue, Fanout!LegStates
    <3>2. sender' \in [op : {"idle", "dispatch", "answered"},
                       legs : [Devices -> Fanout!LegStates \cup {"none"}],
                       todo : SUBSET Devices]
      BY <3>1 DEF Fanout!Leg
    <3> QED
      BY <2>2, <3>2 DEF Fanout!Enqueue, Fanout!history
  <2> QED
    BY <1>2, <2>1, <2>2
<1>3. CASE Fanout!Conclude
  BY <1>3 DEF Fanout!Conclude, Fanout!history
<1>4. ASSUME NEW d \in Devices, NEW r \in Requests,
             Fanout!Resume(d, r) \/ Fanout!Receive(d, r) \/ Fanout!Proceed(d, r)
      PROVE  FanoutTyped'
  <2>1. requests[d][r] \in FanoutRequest
    OBVIOUS
  <2>2. ASSUME NEW request \in FanoutRequest, Fanout!Open(d, r, request)
        PROVE  requests' \in [Devices -> [Requests -> FanoutRequest]]
    BY <2>2 DEF Fanout!Open
  <2>3. CASE Fanout!Resume(d, r)
    <3>1. \A found \in BOOLEAN : [op |-> "delete", found |-> found] \in FanoutRequest
      BY DEF FanoutRequest
    <3>2. [op |-> "deliver"] \in FanoutRequest /\ Fanout!Idle \in FanoutRequest
      BY DEF FanoutRequest
    <3>3. PICK request \in FanoutRequest : Fanout!Open(d, r, request)
      <4>1. AtomicDrain = TRUE \/ AtomicDrain = FALSE
        BY Switches
      <4>2. CASE AtomicDrain = TRUE
        BY <2>3, <3>2, <4>2 DEF Fanout!Resume, Fanout!Find
      <4>3. CASE AtomicDrain = FALSE
        <5>1. (d \in queue) \in BOOLEAN
          OBVIOUS
        <5>2. Fanout!Open(d, r, [op |-> "delete", found |-> d \in queue])
          BY <2>3, <4>3 DEF Fanout!Resume, Fanout!Find
        <5> QED
          BY <3>1, <5>1, <5>2
      <4> QED
        BY <4>1, <4>2, <4>3
    <3>4. requests' \in [Devices -> [Requests -> FanoutRequest]]
      BY <2>2, <3>3
    <3>5. /\ queue' \subseteq Devices /\ UNCHANGED <<plan, sender, sent, lost>>
          /\ shared' = shared \/ shared' = shared \cup {d}
      BY <2>3 DEF Fanout!Resume, Fanout!Find
    <3> QED
      BY <3>4, <3>5
  <2>4. CASE Fanout!Delete(d, r)
    <3>1. PICK request \in FanoutRequest : Fanout!Open(d, r, request)
      BY <2>4 DEF Fanout!Delete, FanoutRequest
    <3>2. requests' \in [Devices -> [Requests -> FanoutRequest]]
      BY <2>2, <3>1
    <3>3. /\ queue' \subseteq Devices /\ UNCHANGED <<plan, sender, sent, shared>>
          /\ lost' = lost \/ lost' = lost \cup {d}
      BY <2>4 DEF Fanout!Delete
    <3> QED
      BY <3>2, <3>3
  <2>5. CASE Fanout!Deliver(d, r)
    <3>1. requests' \in [Devices -> [Requests -> FanoutRequest]]
      BY <2>2, <2>5 DEF Fanout!Deliver, FanoutRequest
    <3>2. sent' \in [Devices -> Nat]
      BY <2>5 DEF Fanout!Deliver
    <3>3. /\ UNCHANGED <<plan, queue, sender, shared>>
          /\ lost' = lost \/ lost' = lost \cup {d}
      BY <2>5 DEF Fanout!Deliver
    <3> QED
      BY <3>1, <3>2, <3>3
  <2>6. CASE Fanout!Receive(d, r)
    BY <2>2, <2>6 DEF Fanout!Receive, FanoutRequest, Fanout!history
  <2>7. CASE Fanout!Load(d, r)
    <3>1. [op |-> "save", state |-> requests[d][r].state, legs |-> plan]
            \in FanoutRequest
      BY <2>1, <2>7 DEF Fanout!Load, FanoutRequest, Fanout!Idle
    <3> QED
      BY <2>2, <2>7, <3>1 DEF Fanout!Load, Fanout!history
  <2>8. CASE Fanout!Save(d, r)
    <3>1. requests[d][r] \in
            [op : {"save"}, state : {"dispatched", "delivered"},
             legs : [Devices -> Fanout!LegStates \cup {"none"}]]
      BY <2>1, <2>8 DEF Fanout!Save, FanoutRequest, Fanout!Idle
    <3>2. requests' \in [Devices -> [Requests -> FanoutRequest]]
      BY <2>2, <2>8 DEF Fanout!Save, FanoutRequest
    <3>3. plan' \in [Devices -> Fanout!LegStates \cup {"none"}]
      BY <2>8, <3>1 DEF Fanout!Save, Fanout!Moved, Fanout!LegStates
    <3> QED
      BY <2>8, <3>2, <3>3 DEF Fanout!Save, Fanout!history
  <2> QED
    BY <1>4, <2>3, <2>4, <2>5, <2>6, <2>7, <2>8 DEF Fanout!Proceed
<1>5. CASE UNCHANGED Fanout!vars
  BY <1>5 DEF Fanout!vars
<1> QED
  BY <1>1, <1>2, <1>3, <1>4, <1>5 DEF Fanout!Next, Fanout!Dispatching

\* A request that is opened is the only one that changes.
LEMMA Opened ==
  ASSUME FanoutTyped, NEW d \in Devices, NEW r \in Requests, NEW request,
         Fanout!Open(d, r, request)
  PROVE  /\ requests'[d][r] = request
         /\ \A e \in Devices, s \in Requests :
              e # d \/ s # r => requests'[e][s] = requests[e][s]
BY DEF FanoutTyped, Fanout!Open

\* A step of one device's request leaves the others' alone, and does not take
\* from the sender.
LEMMA HandedByRequest ==
  ASSUME Fanout!GroupFanoutAssumption, FanoutInv,
         NEW d \in Devices, NEW e \in Devices, NEW r \in Requests,
         Fanout!Resume(e, r) \/ Fanout!Receive(e, r) \/ Fanout!Proceed(e, r)
  PROVE  Handed(d)'
<1>1. FanoutTyped /\ Handed(d) /\ Handed(e)
  BY DEF FanoutInv
<1>2. sent[d] \in Nat /\ requests[e][r] \in FanoutRequest
  BY <1>1 DEF FanoutTyped
<1>3. AtomicDrain = TRUE \/ AtomicDrain = FALSE
  BY Switches
<1>4. ASSUME UNCHANGED <<sender, queue, sent>>, shared' = shared,
             \A s \in Requests : (Holds(d, s) <=> Holds(d, s)') /\ (Delivers(d, s) <=> Delivers(d, s)'),
             \A s \in Requests : requests'[d][s].op = "delete" => requests[d][s].op = "delete"
      PROVE  Handed(d)'
  BY <1>1, <1>4 DEF Handed, OneHand
<1>5. CASE Fanout!Resume(e, r)
  <2>1. requests[e][r] = Fanout!Idle /\ UNCHANGED <<sender, sent>>
    BY <1>5 DEF Fanout!Resume
  <2>2. ~ Holds(e, r) /\ ~ Delivers(e, r)
    BY <2>1 DEF Holds, Delivers, Fanout!Found, Fanout!Idle
  <2>3. CASE AtomicDrain = TRUE
    <3> DEFINE request == IF e \in queue THEN [op |-> "deliver"] ELSE Fanout!Idle
    <3>1. Fanout!Open(e, r, request) /\ queue' = queue \ {e} /\ shared' = shared
      BY <1>5, <2>3 DEF Fanout!Resume, Fanout!Find
    <3>2. /\ requests'[e][r] = request
          /\ \A f \in Devices, s \in Requests :
               f # e \/ s # r => requests'[f][s] = requests[f][s]
      BY <1>1, <3>1, Opened
    <3>3. request.op # "delete" /\ (request.op = "deliver" <=> e \in queue)
      BY DEF Fanout!Idle
    <3>4. \A s \in Requests : requests'[d][s].op # "delete" /\ requests[d][s].op # "delete"
      BY <1>1, <2>3, <3>2, <3>3 DEF Handed
    <3>5. \A s \in Requests : (Holds(d, s) <=> Delivers(d, s)) /\ (Holds(d, s)' <=> Delivers(d, s)')
      BY <3>4 DEF Holds, Fanout!Found
    <3>6. \A s \in Requests : Delivers(d, s)' <=> Delivers(d, s) \/ (d = e /\ s = r /\ e \in queue)
      BY <2>2, <3>2, <3>3 DEF Delivers
    <3> QED
      BY <1>1, <2>1, <2>2, <2>3, <3>1, <3>4, <3>5, <3>6 DEF Handed, OneHand
  <2>4. CASE AtomicDrain = FALSE
    <3> DEFINE request == [op |-> "delete", found |-> e \in queue]
    <3>1. /\ Fanout!Open(e, r, request) /\ queue' = queue
          /\ shared' = IF e \in queue /\ Fanout!FoundBySome(e) THEN shared \cup {e} ELSE shared
      BY <1>5, <2>4 DEF Fanout!Resume, Fanout!Find
    <3>2. /\ requests'[e][r] = request
          /\ \A f \in Devices, s \in Requests :
               f # e \/ s # r => requests'[f][s] = requests[f][s]
      BY <1>1, <3>1, Opened
    <3>3. request.op = "delete" /\ (request.found <=> e \in queue)
      OBVIOUS
    <3> HIDE DEF request
    <3>4. \A s \in Requests : Delivers(d, s)' <=> Delivers(d, s)
      BY <2>2, <3>2, <3>3 DEF Delivers
    <3>5. \A s \in Requests : Holds(d, s)' <=> Holds(d, s) \/ (d = e /\ s = r /\ e \in queue)
      BY <2>2, <3>2, <3>3, <3>4 DEF Holds, Fanout!Found
    <3>6. CASE d = e /\ e \in queue
      <4>1. sender.op # "idle" /\ d \notin sender.todo
        BY <1>1, <3>6 DEF Handed
      <4>2. ASSUME d \notin shared' PROVE OneHand(d)'
        <5>1. d \notin shared /\ ~ Fanout!FoundBySome(d)
          BY <3>1, <3>6, <4>2
        <5>2. sent[d] = 0 /\ \A s \in Requests : ~ Delivers(d, s)
          BY <1>1, <3>6, <5>1 DEF Handed, OneHand
        <5>3. \A s \in Requests : ~ Holds(d, s)
          BY <5>1, <5>2 DEF Holds, Fanout!FoundBySome
        <5> QED
          BY <2>1, <3>4, <3>5, <5>2, <5>3 DEF OneHand
      <4> QED
        BY <2>1, <2>4, <4>1, <4>2 DEF Handed
    <3>7. CASE ~ (d = e /\ e \in queue)
      <4>1. (d \in shared' <=> d \in shared) /\ \A s \in Requests : Holds(d, s)' <=> Holds(d, s)
        BY <3>1, <3>5, <3>7
      <4> QED
        BY <1>1, <2>1, <2>4, <3>1, <3>4, <4>1 DEF Handed, OneHand
    <3> QED
      BY <3>6, <3>7
  <2> QED
    BY <1>3, <2>3, <2>4
<1>6. CASE Fanout!Delete(e, r)
  <2> DEFINE request ==
        IF requests[e][r].found THEN [op |-> "deliver"] ELSE Fanout!Idle
  <2>1. /\ Fanout!Open(e, r, request) /\ requests[e][r].op = "delete"
        /\ queue' = queue \ {e} /\ UNCHANGED <<sender, sent>> /\ shared' = shared
    BY <1>6 DEF Fanout!Delete
  <2>2. /\ requests'[e][r] = request
        /\ \A f \in Devices, s \in Requests :
             f # e \/ s # r => requests'[f][s] = requests[f][s]
    BY <1>1, <2>1, Opened
  <2>3. request.op # "delete" /\ (request.op = "deliver" <=> requests[e][r].found)
    BY DEF Fanout!Idle
  <2> HIDE DEF request
  <2>4. \A s \in Requests : Holds(d, s)' <=> Holds(d, s)
    BY <2>1, <2>2, <2>3 DEF Holds, Delivers, Fanout!Found
  <2>5. AtomicDrain = FALSE
    BY <1>1, <1>3, <2>1 DEF Handed
  <2>6. ASSUME d \in queue' PROVE \A s \in Requests : Delivers(d, s)' <=> Delivers(d, s)
    BY <2>1, <2>2, <2>6 DEF Delivers
  <2> QED
    BY <1>1, <2>1, <2>4, <2>5, <2>6 DEF Handed, OneHand
<1>7. CASE Fanout!Deliver(e, r)
  <2>1. PICK request :
          /\ Fanout!Open(e, r, request) /\ request.op \notin {"deliver", "delete"}
          /\ sent' = [sent EXCEPT ![e] = @ + 1] \/ sent' = sent
    BY <1>7 DEF Fanout!Deliver, Fanout!Idle
  <2>2. Delivers(e, r) /\ UNCHANGED <<queue, sender, shared>>
    BY <1>7 DEF Fanout!Deliver, Delivers
  <2>3. /\ requests'[e][r] = request
        /\ \A f \in Devices, s \in Requests :
             f # e \/ s # r => requests'[f][s] = requests[f][s]
    BY <1>1, <2>1, Opened
  <2>4. sent'[d] = sent[d] \/ (d = e /\ sent'[d] = sent[d] + 1)
    BY <1>1, <2>1 DEF FanoutTyped
  <2>5. \A s \in Requests : /\ Holds(d, s)' <=> Holds(d, s) /\ (d # e \/ s # r)
                            /\ Delivers(d, s)' <=> Delivers(d, s) /\ (d # e \/ s # r)
    BY <2>1, <2>3 DEF Holds, Delivers, Fanout!Found
  <2>6. \A s \in Requests : requests'[d][s].op = "delete" => requests[d][s].op = "delete"
    BY <2>1, <2>3
  <2>7. Holds(e, r)
    BY <2>2 DEF Holds
  <2>8. CASE d = e
    <3>1. d \notin sender.todo /\ sender.op # "idle"
      BY <1>1, <2>7, <2>8 DEF Handed
    <3>2. ASSUME d \notin shared PROVE OneHand(d)'
      <4>1. sent[d] = 0 /\ d \notin queue /\ \A s \in Requests : Holds(d, s) => s = r
        BY <1>1, <2>2, <2>7, <2>8, <3>2 DEF Handed, OneHand
      <4> QED
        BY <2>2, <2>4, <2>5, <2>8, <4>1 DEF OneHand
    <3> QED
      BY <1>1, <2>2, <2>6, <3>1, <3>2 DEF Handed
  <2>9. CASE d # e
    BY <1>1, <2>2, <2>4, <2>5, <2>6, <2>9 DEF Handed, OneHand
  <2> QED
    BY <2>8, <2>9
<1>8. CASE Fanout!Receive(e, r) \/ Fanout!Load(e, r) \/ Fanout!Save(e, r)
  <2>1. PICK request :
          Fanout!Open(e, r, request) /\ request.op \notin {"deliver", "delete"}
    BY <1>8 DEF Fanout!Receive, Fanout!Load, Fanout!Save, Fanout!Idle
  <2>2. UNCHANGED <<queue, sender, sent>> /\ shared' = shared
    BY <1>8 DEF Fanout!Receive, Fanout!Load, Fanout!Save, Fanout!history
  <2>3. /\ requests'[e][r] = request
        /\ \A f \in Devices, s \in Requests :
             f # e \/ s # r => requests'[f][s] = requests[f][s]
    BY <1>1, <2>1, Opened
  <2>4. requests[e][r].op \notin {"deliver", "delete"}
    BY <1>8 DEF Fanout!Receive, Fanout!Load, Fanout!Save, Fanout!Idle
  <2>5. \A s \in Requests : (Holds(d, s) <=> Holds(d, s)') /\ (Delivers(d, s) <=> Delivers(d, s)')
    BY <2>1, <2>3, <2>4 DEF Holds, Delivers, Fanout!Found
  <2>6. \A s \in Requests : requests'[d][s].op = "delete" => requests[d][s].op = "delete"
    BY <2>1, <2>3
  <2> QED
    BY <1>4, <2>2, <2>5, <2>6
<1> QED
  BY <1>5, <1>6, <1>7, <1>8 DEF Fanout!Proceed

LEMMA HandedStep ==
  ASSUME Fanout!GroupFanoutAssumption, FanoutInv, [Fanout!Next]_Fanout!vars,
         NEW d \in Devices
  PROVE  Handed(d)'
<1>1. FanoutTyped /\ Handed(d)
  BY DEF FanoutInv
<1>2. sent[d] \in Nat
  BY <1>1 DEF FanoutTyped
<1>3. ASSUME requests' = requests
      PROVE  \A s \in Requests : (Holds(d, s) <=> Holds(d, s)') /\ (Delivers(d, s) <=> Delivers(d, s)')
  BY <1>3 DEF Holds, Delivers, Fanout!Found
<1>4. ASSUME NEW online \in SUBSET Devices, Fanout!Send(online) PROVE Handed(d)'
  <2>1. /\ sender.op = "idle" /\ sender'.op = "dispatch"
        /\ UNCHANGED <<queue, requests, sent>> /\ shared' = shared
    BY <1>4 DEF Fanout!Send, Fanout!history
  <2> QED
    BY <1>1, <1>3, <2>1 DEF Handed, OneHand
<1>5. ASSUME NEW e \in Devices, Fanout!Dispatch(e) PROVE Handed(d)'
  <2>1. /\ e \in sender.todo /\ sender'.op = sender.op
        /\ sender'.todo = sender.todo \ {e}
        /\ UNCHANGED <<queue, requests>> /\ shared' = shared
        /\ sent' = [sent EXCEPT ![e] = @ + 1] \/ sent' = sent
    BY <1>1, <1>5 DEF Fanout!Dispatch, Fanout!Leg, FanoutTyped, Fanout!history
  <2>2. sent'[d] = sent[d] \/ (d = e /\ sent'[d] = sent[d] + 1)
    BY <1>1, <2>1 DEF FanoutTyped
  <2> QED
    BY <1>1, <1>2, <1>3, <2>1, <2>2 DEF Handed, OneHand
<1>6. ASSUME NEW e \in Devices, Fanout!Enqueue(e) PROVE Handed(d)'
  <2>1. /\ e \in sender.todo /\ sender'.op = sender.op
        /\ sender'.todo = sender.todo \ {e}
        /\ queue' = queue \cup {e}
        /\ UNCHANGED <<sent, requests>> /\ shared' = shared
    BY <1>1, <1>6 DEF Fanout!Enqueue, Fanout!Leg, FanoutTyped, Fanout!history
  <2>2. \A s \in Requests : Delivers(d, s) => Holds(d, s)
    BY DEF Holds
  <2> QED
    BY <1>1, <1>3, <2>1, <2>2 DEF Handed, OneHand
<1>7. CASE Fanout!Conclude
  <2>1. /\ sender'.op = "answered" /\ sender'.todo = sender.todo
        /\ UNCHANGED <<queue, requests, sent>> /\ shared' = shared
    BY <1>1, <1>7 DEF Fanout!Conclude, FanoutTyped, Fanout!history
  <2> QED
    BY <1>1, <1>3, <2>1 DEF Handed, OneHand
<1>8. CASE UNCHANGED Fanout!vars
  BY <1>1, <1>3, <1>8 DEF Fanout!vars, Handed, OneHand
<1> QED
  BY <1>4, <1>5, <1>6, <1>7, <1>8, HandedByRequest DEF Fanout!Next, Fanout!Dispatching

LEMMA FanoutStep ==
  ASSUME Fanout!GroupFanoutAssumption
  PROVE  FanoutInv /\ [Fanout!Next]_Fanout!vars => FanoutInv'
BY FanoutTypedStep, HandedStep DEF FanoutInv

\* The plan is stored when the sender's request has begun; only then a device's
\* request gets as far as to read it.
PlanInv ==
  /\ sender.op = "idle" =>
       /\ plan = Fanout!NoPlan
       /\ \A d \in Devices, r \in Requests : requests[d][r].op \in {"idle", "delete"}
  /\ sender.op # "idle" =>
       /\ plan \in [Devices -> Fanout!LegStates]
       /\ sender.legs \in [Devices -> Fanout!LegStates]
  /\ \A d \in Devices, r \in Requests :
       requests[d][r].op = "save" => requests[d][r].legs \in [Devices -> Fanout!LegStates]

LEMMA PlanStep ==
  ASSUME Fanout!GroupFanoutAssumption, FanoutInv, PlanInv, [Fanout!Next]_Fanout!vars
  PROVE  PlanInv'
<1>1. FanoutTyped
  BY DEF FanoutInv
<1>2. sender.op \in {"idle", "dispatch", "answered"} /\ sender'.op \in {"idle", "dispatch", "answered"}
  <2>1. FanoutTyped'
    BY FanoutTypedStep, <1>1
  <2> QED
    BY <1>1, <2>1 DEF FanoutTyped
<1>3. ASSUME NEW online \in SUBSET Devices, Fanout!Send(online) PROVE PlanInv'
  <2>1. /\ plan' \in [Devices -> Fanout!LegStates] /\ sender'.legs = plan'
        /\ sender'.op = "dispatch" /\ requests' = requests
    BY <1>3 DEF Fanout!Send, Fanout!LegStates
  <2> QED
    BY <2>1 DEF PlanInv
<1>4. ASSUME NEW d \in Devices, Fanout!Dispatch(d) \/ Fanout!Enqueue(d) PROVE PlanInv'
  <2>1. PICK state \in Fanout!LegStates : Fanout!Leg(d, state)
    BY <1>4 DEF Fanout!Dispatch, Fanout!Enqueue, Fanout!LegStates
  <2>2. plan' = plan /\ requests' = requests /\ sender'.op = sender.op
        /\ sender'.legs = [sender.legs EXCEPT ![d] = state]
    BY <1>1, <1>4, <2>1 DEF Fanout!Dispatch, Fanout!Enqueue, Fanout!Leg, FanoutTyped
  <2> QED
    BY <2>1, <2>2 DEF PlanInv
<1>5. CASE Fanout!Conclude
  <2>1. /\ sender.op = "dispatch" /\ sender'.op = "answered"
        /\ plan' = sender.legs /\ sender'.legs = sender.legs /\ requests' = requests
    BY <1>1, <1>5 DEF Fanout!Conclude, FanoutTyped
  <2> QED
    BY <2>1 DEF PlanInv
<1>6. ASSUME NEW e \in Devices, NEW r \in Requests,
             Fanout!Resume(e, r) \/ Fanout!Receive(e, r) \/ Fanout!Proceed(e, r)
      PROVE  PlanInv'
  <2>1. sender' = sender /\ Handed(e)
    BY <1>6 DEF Fanout!Resume, Fanout!Receive, Fanout!Proceed, Fanout!Delete,
       Fanout!Deliver, Fanout!Load, Fanout!Save, FanoutInv
  <2>2. sender.op = "idle" => sent[e] = 0 /\ e \notin queue /\ ~ Holds(e, r)
    BY <2>1 DEF Handed
  <2>3. ASSUME NEW request, Fanout!Open(e, r, request), plan' = plan,
               sender.op = "idle" => request.op \in {"idle", "delete"},
               request.op = "save" => request.legs \in [Devices -> Fanout!LegStates]
        PROVE  PlanInv'
    <3>1. /\ requests'[e][r] = request
          /\ \A f \in Devices, s \in Requests :
               f # e \/ s # r => requests'[f][s] = requests[f][s]
      BY <1>1, <2>3, Opened
    <3> QED
      BY <2>1, <2>3, <3>1 DEF PlanInv
  <2>4. Fanout!Idle.op = "idle" /\ [op |-> "deliver"].op = "deliver"
    BY DEF Fanout!Idle
  <2>5. CASE Fanout!Resume(e, r)
    <3>1. AtomicDrain = TRUE \/ AtomicDrain = FALSE
      BY Switches
    <3>2. CASE AtomicDrain = TRUE /\ e \in queue
      BY <2>2, <2>3, <2>4, <2>5, <3>2 DEF Fanout!Resume, Fanout!Find
    <3>3. CASE AtomicDrain = TRUE /\ e \notin queue
      BY <2>2, <2>3, <2>4, <2>5, <3>3 DEF Fanout!Resume, Fanout!Find
    <3>4. CASE AtomicDrain = FALSE
      <4> DEFINE request == [op |-> "delete", found |-> e \in queue]
      <4>1. request.op = "delete" /\ Fanout!Open(e, r, request) /\ plan' = plan
        BY <2>5, <3>4 DEF Fanout!Resume, Fanout!Find
      <4> QED
        BY <2>3, <4>1
    <3> QED
      BY <3>1, <3>2, <3>3, <3>4
  <2>6. CASE Fanout!Receive(e, r)
    <3>1. sent[e] > 0 /\ plan' = plan
          /\ Fanout!Open(e, r, [op |-> "load", state |-> "delivered"])
      BY <2>6 DEF Fanout!Receive
    <3> QED
      BY <2>2, <2>3, <3>1
  <2>7. CASE Fanout!Delete(e, r)
    <3>1. CASE requests[e][r].found
      <4>1. Holds(e, r) /\ plan' = plan /\ Fanout!Open(e, r, [op |-> "deliver"])
        BY <2>7, <3>1 DEF Fanout!Delete, Holds, Fanout!Found
      <4> QED
        BY <2>2, <2>3, <2>4, <4>1
    <3>2. CASE ~ requests[e][r].found
      BY <2>3, <2>4, <2>7, <3>2 DEF Fanout!Delete
    <3> QED
      BY <3>1, <3>2
  <2>8. CASE Fanout!Deliver(e, r)
    <3>1. PICK request : Fanout!Open(e, r, request) /\ request.op \notin {"deliver", "delete", "save"}
      BY <2>8 DEF Fanout!Deliver, Fanout!Idle
    <3>2. Holds(e, r) /\ plan' = plan
      BY <2>8 DEF Fanout!Deliver, Holds, Delivers
    <3> QED
      BY <2>2, <2>3, <3>1, <3>2
  <2>9. CASE Fanout!Load(e, r) \/ Fanout!Save(e, r)
    <3>1. sender.op # "idle"
      BY <2>9 DEF PlanInv, Fanout!Load, Fanout!Save
    <3>2. plan \in [Devices -> Fanout!LegStates]
      BY <3>1 DEF PlanInv
    <3>3. CASE Fanout!Load(e, r)
      <4> DEFINE request == [op |-> "save", state |-> requests[e][r].state, legs |-> plan]
      <4>1. request.op = "save" /\ request.legs = plan
            /\ Fanout!Open(e, r, request) /\ plan' = plan
        BY <3>3 DEF Fanout!Load
      <4> HIDE DEF request
      <4> QED
        BY <2>3, <3>1, <3>2, <4>1
    <3>4. CASE Fanout!Save(e, r)
      <4>1. requests[e][r].legs \in [Devices -> Fanout!LegStates]
        BY <3>4 DEF Fanout!Save, PlanInv
      <4>2. requests[e][r].state \in Fanout!LegStates
        <5>1. requests[e][r] \in FanoutRequest /\ requests[e][r].op = "save"
          BY <1>1, <3>4 DEF FanoutTyped, Fanout!Save
        <5>2. requests[e][r].state \in {"dispatched", "delivered"}
          BY <5>1 DEF FanoutRequest, Fanout!Idle
        <5> QED
          BY <5>2 DEF Fanout!LegStates
      <4>3. plan' \in [Devices -> Fanout!LegStates]
        BY <3>4, <4>1, <4>2 DEF Fanout!Save, Fanout!Moved
      <4>4. /\ requests'[e][r] = Fanout!Idle
            /\ \A f \in Devices, s \in Requests :
                 f # e \/ s # r => requests'[f][s] = requests[f][s]
        BY <1>1, <3>4, Opened DEF Fanout!Save
      <4> QED
        BY <2>1, <2>4, <3>1, <4>3, <4>4 DEF PlanInv
    <3> QED
      BY <2>9, <3>3, <3>4
  <2> QED
    BY <1>6, <2>5, <2>6, <2>7, <2>8, <2>9 DEF Fanout!Proceed
<1>7. CASE UNCHANGED Fanout!vars
  BY <1>7 DEF Fanout!vars, PlanInv
<1> QED
  BY <1>3, <1>4, <1>5, <1>6, <1>7 DEF Fanout!Next, Fanout!Dispatching

FanoutTypeInv == FanoutInv /\ PlanInv /\ confirmed \subseteq Devices

LEMMA InitFanoutTypes == Fanout!Init => FanoutTypeInv
<1>1. Fanout!Init => PlanInv
  BY DEF Fanout!Init, PlanInv, Fanout!NoPlan, Fanout!Idle
<1> QED
  BY <1>1, InitFanout DEF FanoutFullInv, FanoutTypeInv, Fanout!Init

LEMMA FanoutTypesStep ==
  ASSUME Fanout!GroupFanoutAssumption
  PROVE  FanoutTypeInv /\ [Fanout!Next]_Fanout!vars => FanoutTypeInv'
<1> SUFFICES ASSUME FanoutTypeInv, [Fanout!Next]_Fanout!vars PROVE FanoutTypeInv'
  OBVIOUS
<1>1. FanoutInv' /\ PlanInv'
  BY FanoutStep, PlanStep DEF FanoutTypeInv
<1>2. confirmed' = confirmed \/ \E d \in Devices : confirmed' = confirmed \cup {d}
  BY DEF Fanout!Next, Fanout!vars, Fanout!Send, Fanout!Dispatching, Fanout!Dispatch,
     Fanout!Enqueue, Fanout!Conclude, Fanout!Resume, Fanout!Receive, Fanout!Proceed,
     Fanout!Delete, Fanout!Deliver, Fanout!Load, Fanout!Save
<1> QED
  BY <1>1, <1>2 DEF FanoutTypeInv

LEMMA FanoutTypes == FanoutTypeInv => Fanout!TypeOK
<1> SUFFICES ASSUME FanoutTypeInv PROVE Fanout!TypeOK
  OBVIOUS
<1>1. plan = Fanout!NoPlan \/ plan \in [Devices -> Fanout!LegStates]
  BY DEF FanoutTypeInv, PlanInv
<1> QED
  BY <1>1 DEF FanoutTypeInv, FanoutInv, FanoutTyped, Fanout!TypeOK

LEMMA FanoutOnce ==
  ASSUME Fanout!GroupFanoutAssumption PROVE FanoutInv => Fanout!SentOnce
<1> SUFFICES ASSUME FanoutInv, NEW d \in Devices, sent[d] > 1
             PROVE  ~ AtomicDrain /\ d \in shared
  BY DEF Fanout!SentOnce
<1>1. Handed(d) /\ sent[d] \in Nat
  BY DEF FanoutInv, FanoutTyped
<1>2. d \in shared
  BY <1>1 DEF Handed, OneHand
<1>3. AtomicDrain # TRUE
  BY <1>1, <1>2 DEF Handed
<1> QED
  BY <1>2, <1>3, Switches

\* A device's request hands the message on, or it is counted as lost.
LEMMA SomeHandByRequest ==
  ASSUME Fanout!GroupFanoutAssumption, FanoutFullInv,
         NEW d \in Devices, NEW e \in Devices, NEW r \in Requests,
         Fanout!Resume(e, r) \/ Fanout!Receive(e, r) \/ Fanout!Proceed(e, r)
  PROVE  SomeHand(d)'
<1>1. FanoutTyped /\ SomeHand(d) /\ sent[d] \in Nat /\ Handed(d) /\ Handed(e)
  BY DEF FanoutFullInv, FanoutInv, FanoutTyped
<1>2. sender' = sender
  BY DEF Fanout!Resume, Fanout!Receive, Fanout!Proceed, Fanout!Delete,
     Fanout!Deliver, Fanout!Load, Fanout!Save
<1>3. AtomicDrain \in BOOLEAN /\ ResumeMayFail \in BOOLEAN
  BY Switches
<1>4. ASSUME lost' = lost, sent' = sent,
             d \in queue => d \in queue' \/ \E s \in Requests : Holds(d, s)',
             \A s \in Requests : Holds(d, s) => Holds(d, s)'
      PROVE  SomeHand(d)'
  BY <1>1, <1>2, <1>4 DEF SomeHand
<1>5. CASE Fanout!Resume(e, r)
  <2>1. requests[e][r] = Fanout!Idle /\ UNCHANGED <<lost, sent>>
    BY <1>5 DEF Fanout!Resume
  <2>2. ~ Holds(e, r)
    BY <2>1 DEF Holds, Delivers, Fanout!Found, Fanout!Idle
  <2>3. PICK request :
          /\ Fanout!Open(e, r, request)
          /\ queue' = queue \/ (queue' = queue \ {e} /\ (e \in queue => request.op = "deliver"))
    BY <1>5 DEF Fanout!Resume, Fanout!Find
  <2>4. /\ requests'[e][r] = request
        /\ \A f \in Devices, s \in Requests :
             f # e \/ s # r => requests'[f][s] = requests[f][s]
    BY <1>1, <2>3, Opened
  <2>5. \A s \in Requests : Holds(d, s) => Holds(d, s)'
    BY <2>2, <2>4 DEF Holds, Delivers, Fanout!Found
  <2>6. d \in queue => d \in queue' \/ \E s \in Requests : Holds(d, s)'
    BY <2>3, <2>4 DEF Holds, Delivers
  <2> QED
    BY <1>4, <2>1, <2>5, <2>6
<1>6. CASE Fanout!Delete(e, r)
  <2> DEFINE request ==
        IF requests[e][r].found THEN [op |-> "deliver"] ELSE Fanout!Idle
  <2>1. /\ Fanout!Open(e, r, request) /\ requests[e][r].op = "delete"
        /\ queue' = queue \ {e} /\ sent' = sent
        /\ lost' = IF e \in queue /\ ~ Fanout!FoundBySome(e) THEN lost \cup {e} ELSE lost
    BY <1>6 DEF Fanout!Delete
  <2>2. /\ requests'[e][r] = request
        /\ \A f \in Devices, s \in Requests :
             f # e \/ s # r => requests'[f][s] = requests[f][s]
    BY <1>1, <2>1, Opened
  <2>3. request.op # "delete" /\ (request.op = "deliver" <=> requests[e][r].found)
    BY DEF Fanout!Idle
  <2> HIDE DEF request
  <2>4. \A s \in Requests : Holds(d, s)' <=> Holds(d, s)
    BY <2>1, <2>2, <2>3 DEF Holds, Delivers, Fanout!Found
  <2>5. AtomicDrain = FALSE
    BY <1>1, <1>3, <2>1 DEF Handed
  <2>6. CASE d \in lost'
    BY <2>5, <2>6 DEF SomeHand
  <2>7. CASE d \notin lost'
    <3>1. d \in queue => d \in queue' \/ Fanout!FoundBySome(d)
      BY <2>1, <2>7
    <3>2. d \in queue => d \in queue' \/ \E s \in Requests : Holds(d, s)
      BY <3>1 DEF Fanout!FoundBySome, Holds
    <3>3. d \notin lost
      BY <2>1, <2>7
    <3> QED
      BY <1>1, <1>2, <2>1, <2>4, <2>7, <3>2, <3>3 DEF SomeHand
  <2> QED
    BY <2>6, <2>7
<1>7. CASE Fanout!Deliver(e, r)
  <2>1. PICK request : Fanout!Open(e, r, request)
    BY <1>7 DEF Fanout!Deliver
  <2>2. /\ requests[e][r].op = "deliver" /\ UNCHANGED queue
        /\ \/ sent' = [sent EXCEPT ![e] = @ + 1] /\ lost' = lost
           \/ ResumeMayFail /\ sent' = sent /\ lost' = lost \cup {e}
    BY <1>7 DEF Fanout!Deliver
  <2>3. \A f \in Devices, s \in Requests :
           f # e \/ s # r => requests'[f][s] = requests[f][s]
    BY <1>1, <2>1, Opened
  <2>4. CASE d = e
    <3>1. CASE sent' = [sent EXCEPT ![e] = @ + 1] /\ lost' = lost
      <4>1. sent'[d] = sent[d] + 1
        BY <1>1, <2>4, <3>1 DEF FanoutTyped
      <4>2. sent'[d] > 0
        BY <1>1, <4>1
      <4> QED
        BY <1>1, <3>1, <4>2 DEF SomeHand
    <3>2. CASE ResumeMayFail /\ lost' = lost \cup {e}
      BY <1>3, <2>4, <3>2 DEF SomeHand
    <3> QED
      BY <2>2, <3>1, <3>2
  <2>5. CASE d # e
    <3>1. sent'[d] = sent[d] /\ (d \in lost' <=> d \in lost)
      BY <1>1, <2>2, <2>5 DEF FanoutTyped
    <3>2. \A s \in Requests : Holds(d, s)' <=> Holds(d, s)
      BY <2>3, <2>5 DEF Holds, Delivers, Fanout!Found
    <3> QED
      BY <1>1, <1>2, <2>2, <3>1, <3>2 DEF SomeHand
  <2> QED
    BY <2>4, <2>5
<1>8. CASE Fanout!Receive(e, r) \/ Fanout!Load(e, r) \/ Fanout!Save(e, r)
  <2>1. PICK request : Fanout!Open(e, r, request)
    BY <1>8 DEF Fanout!Receive, Fanout!Load, Fanout!Save
  <2>2. /\ requests[e][r].op \notin {"deliver", "delete"}
        /\ UNCHANGED <<queue, sent>> /\ lost' = lost
    BY <1>8 DEF Fanout!Receive, Fanout!Load, Fanout!Save, Fanout!Idle, Fanout!history
  <2>3. \A f \in Devices, s \in Requests :
           f # e \/ s # r => requests'[f][s] = requests[f][s]
    BY <1>1, <2>1, Opened
  <2>4. \A s \in Requests : Holds(d, s) => Holds(d, s)'
    BY <2>2, <2>3 DEF Holds, Delivers, Fanout!Found
  <2> QED
    BY <1>4, <2>2, <2>4
<1> QED
  BY <1>5, <1>6, <1>7, <1>8 DEF Fanout!Proceed

LEMMA SomeHandStep ==
  ASSUME Fanout!GroupFanoutAssumption, FanoutFullInv, [Fanout!Next]_Fanout!vars,
         NEW d \in Devices
  PROVE  SomeHand(d)'
<1>1. FanoutTyped /\ SomeHand(d) /\ sent[d] \in Nat /\ Handed(d)
  BY DEF FanoutFullInv, FanoutInv, FanoutTyped
<1>2. ASSUME requests' = requests
      PROVE  \A s \in Requests : Holds(d, s)' <=> Holds(d, s)
  BY <1>2 DEF Holds, Delivers, Fanout!Found
<1>3. ASSUME NEW online \in SUBSET Devices, Fanout!Send(online) PROVE SomeHand(d)'
  <2>1. sender'.op = "dispatch" /\ sender'.todo = Devices /\ lost' = lost
    BY <1>3 DEF Fanout!Send, Fanout!history
  <2> QED
    BY <1>1, <2>1 DEF SomeHand
<1>4. ASSUME NEW e \in Devices, Fanout!Dispatch(e) PROVE SomeHand(d)'
  <2>1. PICK state \in Fanout!LegStates : Fanout!Leg(e, state) /\
            \/ sent' = [sent EXCEPT ![e] = @ + 1]
            \/ state = "failed" /\ sent' = sent
    BY <1>4 DEF Fanout!Dispatch, Fanout!LegStates
  <2>2. /\ sender'.op = sender.op /\ sender'.todo = sender.todo \ {e}
        /\ sender'.legs = [sender.legs EXCEPT ![e] = state]
        /\ UNCHANGED <<queue, requests>> /\ e \in sender.todo /\ lost' = lost
    BY <1>1, <1>4, <2>1 DEF Fanout!Dispatch, Fanout!Leg, FanoutTyped, Fanout!history
  <2>3. sender'.legs[d] = IF d = e THEN state ELSE sender.legs[d]
    BY <1>1, <2>2 DEF FanoutTyped
  <2>4. sent'[d] = IF d = e /\ sent' # sent THEN sent[d] + 1 ELSE sent[d]
    BY <1>1, <2>1 DEF FanoutTyped
  <2>5. CASE d = e
    <3>1. sent'[d] = sent[d] + 1 \/ state = "failed"
      BY <1>1, <2>1, <2>5 DEF FanoutTyped
    <3> QED
      BY <1>1, <2>2, <2>3, <2>5, <3>1 DEF SomeHand
  <2>6. CASE d # e
    BY <1>1, <1>2, <2>2, <2>3, <2>4, <2>6 DEF SomeHand
  <2> QED
    BY <2>5, <2>6
<1>5. ASSUME NEW e \in Devices, Fanout!Enqueue(e) PROVE SomeHand(d)'
  <2>1. /\ sender'.op = sender.op /\ sender'.todo = sender.todo \ {e}
        /\ sender'.legs = [sender.legs EXCEPT ![e] = "queued"]
        /\ queue' = queue \cup {e}
        /\ UNCHANGED <<requests, sent>> /\ lost' = lost
    BY <1>1, <1>5 DEF Fanout!Enqueue, Fanout!Leg, FanoutTyped, Fanout!history
  <2>2. sender'.legs[d] = IF d = e THEN "queued" ELSE sender.legs[d]
    BY <1>1, <2>1 DEF FanoutTyped
  <2> QED
    BY <1>1, <1>2, <2>1, <2>2 DEF SomeHand
<1>6. CASE Fanout!Conclude
  <2>1. /\ sender.op = "dispatch" /\ sender'.todo = sender.todo
        /\ sender'.legs = sender.legs
        /\ UNCHANGED <<queue, requests, sent>> /\ lost' = lost
    BY <1>1, <1>6 DEF Fanout!Conclude, FanoutTyped, Fanout!history
  <2> QED
    BY <1>1, <1>2, <2>1 DEF SomeHand
<1>7. CASE UNCHANGED Fanout!vars
  BY <1>1, <1>2, <1>7 DEF Fanout!vars, SomeHand
<1> QED
  BY <1>3, <1>4, <1>5, <1>6, <1>7, SomeHandByRequest
  DEF Fanout!Next, Fanout!Dispatching

LEMMA FanoutFullStep ==
  ASSUME Fanout!GroupFanoutAssumption
  PROVE  FanoutFullInv /\ [Fanout!Next]_Fanout!vars => FanoutFullInv'
BY FanoutStep, SomeHandStep DEF FanoutFullInv

\* The message is given to the transport once for each device, however many
\* resumes and synchronisations overlap with each other and with the sender.
\* With the in-memory queue that is without exception; with the database's, a
\* find and a deleteMany, the only device that can get it twice is one whose
\* entry two requests found before either deleted it (drainDevice).
THEOREM EachDeviceOnce ==
  ASSUME Fanout!GroupFanoutAssumption PROVE Fanout!Spec => []Fanout!SentOnce
<1>1. Fanout!Init => FanoutInv
  BY InitFanout DEF FanoutFullInv
<1> QED
  BY <1>1, FanoutOnce, FanoutStep, PTL DEF Fanout!Spec

LEMMA FanoutKeepsAll ==
  ASSUME Fanout!GroupFanoutAssumption
  PROVE  FanoutFullInv /\ PlanInv => Fanout!NotForgotten
<1> SUFFICES ASSUME FanoutFullInv, PlanInv, plan # Fanout!NoPlan, NEW d \in Devices
             PROVE  \/ Fanout!LookedAfter(d)
                    \/ d \in lost /\ (~ AtomicDrain \/ ResumeMayFail)
  BY DEF Fanout!NotForgotten
<1>1. sender.op # "idle" /\ SomeHand(d)
  BY DEF FanoutFullInv, PlanInv
<1>2. \A r \in Requests : Holds(d, r) => Fanout!UnderWay(d)
  BY DEF Holds, Delivers, Fanout!UnderWay
<1>3. CASE d \in lost
  BY <1>1, <1>3, Switches DEF SomeHand
<1>4. CASE d \notin lost
  BY <1>1, <1>2, <1>4 DEF SomeHand, Fanout!LookedAfter
<1> QED
  BY <1>3, <1>4

\* What was planned for a device is sent, waits or is being resumed, whether the
\* queue is in memory or in the database and whether resumes fail or not.  The
\* exceptions are the two ways in which the code loses an entry: one that was
\* put into the database between a find and its deleteMany, and one whose resume
\* failed after the drain.
THEOREM NothingForgotten ==
  ASSUME Fanout!GroupFanoutAssumption PROVE Fanout!Spec => []Fanout!NotForgotten
<1>1. Fanout!Init => FanoutFullInv /\ PlanInv
  BY InitFanout, InitFanoutTypes DEF FanoutTypeInv
<1>2. FanoutFullInv /\ PlanInv /\ [Fanout!Next]_Fanout!vars => FanoutFullInv' /\ PlanInv'
  BY FanoutFullStep, PlanStep DEF FanoutFullInv
<1> QED
  BY <1>1, <1>2, FanoutKeepsAll, PTL DEF Fanout!Spec

-----------------------------------------------------------------------------
(* Invitations into a group (GroupChat). *)

Inviting == [op : {"invite"}, user : Users]
Answering == [op : {"answer"}, user : Users, accepts : BOOLEAN,
              pending : [Users -> Nat], version : Nat]

ChatTyped ==
  /\ members \in [Users -> Nat] /\ pending \in [Users -> Nat]
  /\ version \in Nat
  /\ calls \in [Callers -> {Chat!Idle} \cup Inviting \cup Answering]

\* An answer has read the document at a version that is not ahead of it.  If
\* the document is still at that version, what the answer is about to write
\* is what is stored, less the invitation it answers.
ReadCurrent(c) ==
  calls[c].op = "answer" =>
    /\ calls[c].version <= version
    /\ calls[c].version = version =>
         /\ pending[calls[c].user] > 0
         /\ calls[c].pending = [pending EXCEPT ![calls[c].user] = 0]

ChatInv == ChatTyped /\ \A c \in Callers : ReadCurrent(c)

LEMMA InitChatInv == Chat!Init => ChatInv
<1> SUFFICES ASSUME Chat!Init PROVE ChatInv
  OBVIOUS
<1>1. ChatTyped
  BY DEF Chat!Init, ChatTyped
<1>2. \A c \in Callers : ReadCurrent(c)
  BY DEF Chat!Init, ReadCurrent, Chat!Idle
<1> QED
  BY <1>1, <1>2 DEF ChatInv

\* A save that counts up the version leaves the other answers behind it.
LEMMA Overtaken ==
  ASSUME ChatInv, version' = version + 1, NEW d \in Callers,
         calls' = [calls EXCEPT ![d] = Chat!Idle],
         NEW c \in Callers
  PROVE  ReadCurrent(c)'
<1>1. CASE c = d
  <2>1. calls'[c].op = "idle"
    BY <1>1 DEF ChatInv, ChatTyped, Chat!Idle
  <2> QED
    BY <2>1 DEF ReadCurrent
<1>2. CASE c # d
  <2>1. calls'[c] = calls[c]
    BY <1>2 DEF ChatInv, ChatTyped
  <2>2. CASE calls[c].op = "answer"
    <3>1. calls[c].version \in Nat /\ version \in Nat
      BY <2>2 DEF ChatInv, ChatTyped, Inviting, Answering, Chat!Idle
    <3>2. ReadCurrent(c)
      BY DEF ChatInv
    <3>3. calls[c].version <= version
      BY <2>2, <3>2 DEF ReadCurrent
    <3> QED
      BY <2>1, <3>1, <3>3 DEF ReadCurrent
  <2> QED
    BY <2>1, <2>2 DEF ReadCurrent
<1> QED
  BY <1>1, <1>2

LEMMA StepChatInv == ChatInv /\ [Chat!Next]_Chat!vars => ChatInv'
<1> SUFFICES ASSUME ChatInv, [Chat!Next]_Chat!vars PROVE ChatInv'
  OBVIOUS
<1>1. ASSUME NEW d \in Callers, Chat!SaveInvite(d) PROVE ChatInv'
  <2>1. calls[d] \in Inviting
    BY <1>1 DEF ChatInv, ChatTyped, Chat!SaveInvite, Chat!Idle, Answering
  <2>2. ChatTyped'
    BY <1>1, <2>1 DEF ChatInv, ChatTyped, Chat!SaveInvite, Chat!Busy, Inviting
  <2>3. \A c \in Callers : ReadCurrent(c)'
    BY <1>1, Overtaken DEF Chat!SaveInvite, Chat!Busy
  <2> QED
    BY <2>2, <2>3 DEF ChatInv
<1>2. ASSUME NEW d \in Callers, Chat!SaveAnswer(d) PROVE ChatInv'
  <2>1. calls[d] \in Answering
    BY <1>2 DEF ChatInv, ChatTyped, Chat!SaveAnswer, Chat!Idle, Inviting
  <2>2. ChatTyped'
    BY <1>2, <2>1 DEF ChatInv, ChatTyped, Chat!SaveAnswer, Chat!Busy, Answering
  <2>3. \A c \in Callers : ReadCurrent(c)'
    BY <1>2, Overtaken DEF Chat!SaveAnswer, Chat!Busy
  <2> QED
    BY <2>2, <2>3 DEF ChatInv
<1>3. ASSUME NEW d \in Callers, Chat!SaveRefused(d) PROVE ChatInv'
  <2>1. ChatTyped'
    BY <1>3 DEF ChatInv, ChatTyped, Chat!SaveRefused, Chat!Busy
  <2>2. ASSUME NEW c \in Callers PROVE ReadCurrent(c)'
    <3>1. calls'[c] = calls[c] \/ calls'[c].op = "idle"
      BY <1>3 DEF ChatInv, ChatTyped, Chat!SaveRefused, Chat!Busy, Chat!Idle
    <3> QED
      BY <3>1, <1>3 DEF ChatInv, ReadCurrent, Chat!SaveRefused
  <2> QED
    BY <2>1, <2>2 DEF ChatInv
<1>4. ASSUME NEW d \in Callers, NEW u \in Users, Chat!Invite(d, u) PROVE ChatInv'
  <2>1. ChatTyped'
    BY <1>4 DEF ChatInv, ChatTyped, Chat!Invite, Chat!Busy, Inviting
  <2>2. ASSUME NEW c \in Callers PROVE ReadCurrent(c)'
    <3>1. calls'[c] = calls[c] \/ calls'[c].op = "invite"
      BY <1>4 DEF ChatInv, ChatTyped, Chat!Invite, Chat!Busy
    <3> QED
      BY <3>1, <1>4 DEF ChatInv, ReadCurrent, Chat!Invite
  <2> QED
    BY <2>1, <2>2 DEF ChatInv
<1>5. ASSUME NEW d \in Callers, NEW u \in Users, NEW a \in BOOLEAN,
             Chat!Answer(d, u, a)
      PROVE  ChatInv'
  <2> DEFINE call == [op |-> "answer", user |-> u, accepts |-> a,
                      pending |-> [pending EXCEPT ![u] = 0],
                      version |-> version]
  <2>1. calls' = [calls EXCEPT ![d] = call]
    BY <1>5 DEF Chat!Answer, Chat!Busy
  <2>2. call \in Answering
    BY DEF ChatInv, ChatTyped, Answering
  <2>3. ChatTyped'
    <3> HIDE DEF call
    <3> QED
      BY <1>5, <2>1, <2>2 DEF ChatInv, ChatTyped, Chat!Answer
  <2>4. ASSUME NEW c \in Callers PROVE ReadCurrent(c)'
    <3>1. CASE c = d
      <4>1. calls'[c] = call
        BY <2>1, <3>1 DEF ChatInv, ChatTyped
      <4>2. version \in Nat
        BY DEF ChatInv, ChatTyped
      <4> QED
        BY <4>1, <4>2, <1>5 DEF ReadCurrent, Chat!Answer
    <3>2. CASE c # d
      <4>1. calls'[c] = calls[c]
        BY <2>1, <3>2 DEF ChatInv, ChatTyped
      <4> QED
        BY <4>1, <1>5 DEF ChatInv, ReadCurrent, Chat!Answer
    <3> QED
      BY <3>1, <3>2
  <2> QED
    BY <2>3, <2>4 DEF ChatInv
<1>6. CASE UNCHANGED Chat!vars
  BY <1>6 DEF ChatInv, ChatTyped, ReadCurrent, Chat!vars
<1> QED
  BY <1>1, <1>2, <1>3, <1>4, <1>5, <1>6 DEF Chat!Next

\* What the members and invitations become in one step.
LEMMA StepKeepsInvitations ==
  ChatInv /\ [Chat!Next]_Chat!vars => Chat!KeepsInvitations /\ Chat!JoinsByInvitation
<1> SUFFICES ASSUME ChatInv, [Chat!Next]_Chat!vars
             PROVE  Chat!KeepsInvitations /\ Chat!JoinsByInvitation
  OBVIOUS
<1> USE DEF Chat!KeepsInvitations, Chat!JoinsByInvitation
<1>1. ASSUME NEW d \in Callers, Chat!SaveInvite(d)
      PROVE  Chat!KeepsInvitations /\ Chat!JoinsByInvitation
  <2>1. calls[d].user \in Users
    BY <1>1 DEF ChatInv, ChatTyped, Chat!SaveInvite, Chat!Idle, Inviting, Answering
  <2>2. \A u \in Users : pending'[u] >= pending[u] /\ members'[u] = members[u]
    BY <1>1, <2>1 DEF ChatInv, ChatTyped, Chat!SaveInvite
  <2> QED
    BY <2>2 DEF ChatInv, ChatTyped
<1>2. ASSUME NEW d \in Callers, Chat!SaveAnswer(d)
      PROVE  Chat!KeepsInvitations /\ Chat!JoinsByInvitation
  <2>1. calls[d] \in Answering
    BY <1>2 DEF ChatInv, ChatTyped, Chat!SaveAnswer, Chat!Idle, Inviting
  <2>2. /\ pending[calls[d].user] > 0
        /\ pending' = [pending EXCEPT ![calls[d].user] = 0]
    BY <1>2 DEF ChatInv, ReadCurrent, Chat!SaveAnswer
  <2>3. Chat!KeepsInvitations
    <3>1. calls'[d] = Chat!Idle
      BY <1>2 DEF Chat!SaveAnswer, Chat!Busy, ChatInv, ChatTyped
    <3> QED
      BY <1>2, <2>1, <2>2, <3>1 DEF Chat!SaveAnswer, Answering, ChatInv, ChatTyped
  <2>4. Chat!JoinsByInvitation
    <3>1. \A u \in Users : members'[u] = members[u]
                           \/ (u = calls[d].user /\ members'[u] = members[u] + 1)
      BY <1>2, <2>1 DEF Chat!SaveAnswer, Answering, ChatInv, ChatTyped
    <3> QED
      BY <2>2, <3>1 DEF ChatInv, ChatTyped
  <2> QED
    BY <2>3, <2>4
<1>3. CASE UNCHANGED <<members, pending>>
  BY <1>3 DEF ChatInv, ChatTyped
<1> QED
  BY <1>1, <1>2, <1>3
     DEF Chat!Next, Chat!SaveRefused, Chat!Invite, Chat!Answer, Chat!vars

\* However requests overlap, an invitation stays until the invited user's own
\* answer is saved, and a user joins once for an invitation that was there
\* (inviteToGroup, acceptInvite, rejectInvite).
THEOREM InvitationsAreKept == Chat!Spec => Chat!InvitationsKept
<1>1. Chat!Spec => []ChatInv
  BY InitChatInv, StepChatInv, PTL DEF Chat!Spec
<1> QED
  BY <1>1, StepKeepsInvitations, PTL DEF Chat!Spec, Chat!InvitationsKept

-----------------------------------------------------------------------------
(* The managed group: its owner, its replica, its end (GroupManager). *)

States == DOMAIN Manager!Moves
Lives == {"active", "archived"}
GroupStates == {"active", "archived", "deleted"}
Snapshots ==
  [version : 0..MaxVersion, memberships : [Users -> [state : States, role : Manager!Roles]]]
MemberWrites == [write : {"membership"}, user : Users, state : States, role : Manager!Roles]
GroupWrites == [write : {"group"}, owner : Users, state : GroupStates]
OtherWrites == [write : {"list", "replica", "tombstones"}]
Writes == MemberWrites \cup GroupWrites \cup OtherWrites

ManagerTyped ==
  /\ group \in [owner : Users \cup {"nobody"}, version : 0..MaxVersion,
                state : {"none"} \cup GroupStates]
  /\ group.state # "none" => group.owner \in Users
  /\ memberships \in [Users -> [state : States, role : Manager!Roles]]
  /\ work \in Seq(Writes)
  /\ replica \in Snapshots /\ draft \in Snapshots
  /\ \/ refreshing \in [step : {"none"}]
     \/ refreshing \in [step : {"list"}, version : 0..MaxVersion]
     \/ refreshing \in [step : {"store", "done"}, replica : Snapshots]
  /\ torn \in BOOLEAN

Is(i, what) == work[i].write = what
\* u is the group's owner or about to be.
Owning(u) == u = group.owner \/ \E j \in 1..Len(work) : Is(j, "group") /\ work[j].owner = u
\* u is in the group, or is about to be taken in while the group is created.
Joining(u) == \E j \in 1..Len(work) : Is(j, "membership") /\ work[j].user = u
Stays(u) ==
  \/ memberships[u].state \in Manager!InGroup
  \/ memberships[u].state = "none" /\ Joining(u)

\* The owner of a living group is in it, and so is the owner that a write of
\* the record is about to give it.
OwnerStays ==
  /\ group.state \in Lives => Stays(group.owner)
  /\ \A i \in 1..Len(work) :
       Is(i, "group") /\ work[i].state \in Lives => Stays(work[i].owner)
\* No write that is still to come takes such an owner out.
OwnerWrites ==
  \A i \in 1..Len(work) :
    Is(i, "membership") /\ Owning(work[i].user) => work[i].state \in Manager!InGroup

\* The group is deleted or is about to be: then its memberships are
\* tombstones, or become so at the end of the queue.
Ending ==
  \/ group.state = "deleted"
  \/ \E j \in 1..Len(work) : Is(j, "group") /\ work[j].state = "deleted"
Emptying == \E j \in 1..Len(work) : Is(j, "tombstones")
\* The queue holds one write of the record, and tombstones only at its end,
\* when the record goes and no membership is written.
Order ==
  /\ \A i, j \in 1..Len(work) : Is(i, "group") /\ Is(j, "group") => i = j
  /\ \A i \in 1..Len(work) : Is(i, "tombstones") => i = Len(work)
  /\ \A i, j \in 1..Len(work) : Is(i, "tombstones") => ~ Is(j, "membership")
  /\ \A i, j \in 1..Len(work) :
       Is(i, "tombstones") /\ Is(j, "group") => work[j].state = "deleted"
Room == \A i \in 1..Len(work) : Is(i, "group") => group.version < MaxVersion
Empty ==
  /\ \A u \in Users : memberships[u].state \in {"none", "deleted"}
  /\ \A j \in 1..Len(work) : ~ Is(j, "membership")
EmptyOK ==
  /\ Emptying => Ending
  /\ ~ torn /\ Ending => Emptying \/ Empty

\* A list is followed by a replica, which shows what was listed.
Listing ==
  /\ \A i \in 1..Len(work) : Is(i, "list") => i < Len(work) /\ Is(i + 1, "replica")
  /\ \A i \in 1..Len(work) : Is(i, "replica") /\ i # 1 => Is(i - 1, "list")
  /\ work # <<>> => Is(Len(work), "replica") \/ Is(Len(work), "tombstones")
Listed == work # <<>> /\ Is(1, "replica") => draft = Manager!Snapshot(group.version)

\* Nothing precedes the first write of the record.
Fresh ==
  group.state = "none" =>
    /\ group.version = 0
    /\ \A u \in Users : memberships[u].state = "none"
    /\ work # <<>> => Is(1, "group")

ManagerInv ==
  /\ ManagerTyped /\ Fresh /\ OwnerStays /\ OwnerWrites /\ Order /\ Room
  /\ EmptyOK /\ Listing /\ Listed

\* What an operation that begins has to write, entry by entry.
LEMMA Glued31 ==
  ASSUME NEW S, NEW p \in Seq(S), NEW q \in Seq(S), Len(p) = 3, Len(q) = 1
  PROVE  /\ p \o q \in Seq(S) /\ Len(p \o q) = 4 /\ (p \o q)[1] = p[1]
         /\ (p \o q)[2] = p[2] /\ (p \o q)[3] = p[3] /\ (p \o q)[4] = q[1]
<1>1. /\ p \o q \in Seq(S) /\ Len(p \o q) = Len(p) + Len(q)
      /\ \A i \in 1..Len(p) + Len(q) :
           (p \o q)[i] = IF i <= Len(p) THEN p[i] ELSE q[i - Len(p)]
  BY ConcatProperties
<1> QED
  BY <1>1
LEMMA Glued13 ==
  ASSUME NEW S, NEW p \in Seq(S), NEW q \in Seq(S), Len(p) = 1, Len(q) = 3
  PROVE  /\ p \o q \in Seq(S) /\ Len(p \o q) = 4 /\ (p \o q)[1] = p[1]
         /\ (p \o q)[2] = q[1] /\ (p \o q)[3] = q[2] /\ (p \o q)[4] = q[3]
<1>1. /\ p \o q \in Seq(S) /\ Len(p \o q) = Len(p) + Len(q)
      /\ \A i \in 1..Len(p) + Len(q) :
           (p \o q)[i] = IF i <= Len(p) THEN p[i] ELSE q[i - Len(p)]
  BY ConcatProperties
<1> QED
  BY <1>1
LEMMA Glued23 ==
  ASSUME NEW S, NEW p \in Seq(S), NEW q \in Seq(S), Len(p) = 2, Len(q) = 3
  PROVE  /\ p \o q \in Seq(S) /\ Len(p \o q) = 5 /\ (p \o q)[1] = p[1]
         /\ (p \o q)[2] = p[2] /\ (p \o q)[3] = q[1] /\ (p \o q)[4] = q[2] /\ (p \o q)[5] = q[3]
<1>1. /\ p \o q \in Seq(S) /\ Len(p \o q) = Len(p) + Len(q)
      /\ \A i \in 1..Len(p) + Len(q) :
           (p \o q)[i] = IF i <= Len(p) THEN p[i] ELSE q[i - Len(p)]
  BY ConcatProperties
<1> QED
  BY <1>1
LEMMA Glued21 ==
  ASSUME NEW S, NEW p \in Seq(S), NEW q \in Seq(S), Len(p) = 2, Len(q) = 1
  PROVE  /\ p \o q \in Seq(S) /\ Len(p \o q) = 3 /\ (p \o q)[1] = p[1]
         /\ (p \o q)[2] = p[2] /\ (p \o q)[3] = q[1]
<1>1. /\ p \o q \in Seq(S) /\ Len(p \o q) = Len(p) + Len(q)
      /\ \A i \in 1..Len(p) + Len(q) :
           (p \o q)[i] = IF i <= Len(p) THEN p[i] ELSE q[i - Len(p)]
  BY ConcatProperties
<1> QED
  BY <1>1
LEMMA Glued22 ==
  ASSUME NEW S, NEW p \in Seq(S), NEW q \in Seq(S), Len(p) = 2, Len(q) = 2
  PROVE  /\ p \o q \in Seq(S) /\ Len(p \o q) = 4 /\ (p \o q)[1] = p[1]
         /\ (p \o q)[2] = p[2] /\ (p \o q)[3] = q[1] /\ (p \o q)[4] = q[2]
<1>1. /\ p \o q \in Seq(S) /\ Len(p \o q) = Len(p) + Len(q)
      /\ \A i \in 1..Len(p) + Len(q) :
           (p \o q)[i] = IF i <= Len(p) THEN p[i] ELSE q[i - Len(p)]
  BY ConcatProperties
<1> QED
  BY <1>1
LEMMA Glued32 ==
  ASSUME NEW S, NEW p \in Seq(S), NEW q \in Seq(S), Len(p) = 3, Len(q) = 2
  PROVE  /\ p \o q \in Seq(S) /\ Len(p \o q) = 5 /\ (p \o q)[1] = p[1]
         /\ (p \o q)[2] = p[2] /\ (p \o q)[3] = p[3] /\ (p \o q)[4] = q[1] /\ (p \o q)[5] = q[2]
<1>1. /\ p \o q \in Seq(S) /\ Len(p \o q) = Len(p) + Len(q)
      /\ \A i \in 1..Len(p) + Len(q) :
           (p \o q)[i] = IF i <= Len(p) THEN p[i] ELSE q[i - Len(p)]
  BY ConcatProperties
<1> QED
  BY <1>1

GroupWrite(o, s) == [write |-> "group", owner |-> o, state |-> s]
ListWrite == [write |-> "list"]
ReplicaWrite == [write |-> "replica"]
TombstoneWrite == [write |-> "tombstones"]

BecomeWrites(m, o, s) == <<m>> \o Manager!Record(o, s)
TransferWrites(m, n, o, s) == <<m, n>> \o Manager!Record(o, s)
DeleteWrites(o, s) == Manager!Record(o, s) \o <<TombstoneWrite>>
CreateWrites(u, m, others) ==
  <<Manager!Record(u, "active")[1], m>> \o others \o <<ListWrite, ReplicaWrite>>

LEMMA RecordIs ==
  ASSUME NEW o \in Users, NEW s \in GroupStates
  PROVE  /\ Manager!Record(o, s) \in Seq(Writes) /\ Len(Manager!Record(o, s)) = 3
         /\ Manager!Record(o, s)[1] = GroupWrite(o, s) /\ Manager!Record(o, s)[2] = ListWrite
         /\ Manager!Record(o, s)[3] = ReplicaWrite
<1>1. GroupWrite(o, s) \in Writes /\ ListWrite \in Writes /\ ReplicaWrite \in Writes
  BY DEF GroupWrite, ListWrite, ReplicaWrite, Writes, GroupWrites, OtherWrites
<1>2. Manager!Record(o, s) = <<GroupWrite(o, s), ListWrite, ReplicaWrite>>
  BY DEF Manager!Record, GroupWrite, ListWrite, ReplicaWrite
<1> QED
  BY <1>1, <1>2

LEMMA OtherWritesAre ==
  /\ TombstoneWrite \in Writes /\ ListWrite \in Writes /\ ReplicaWrite \in Writes
  /\ \A u \in Users, st \in States, r \in Manager!Roles : Manager!Member(u, st, r) \in Writes
BY DEF TombstoneWrite, ListWrite, ReplicaWrite, Writes, MemberWrites, OtherWrites,
   Manager!Member

LEMMA BecomeQueue ==
  ASSUME NEW m \in Writes, NEW o \in Users, NEW s \in GroupStates
  PROVE  LET q == BecomeWrites(m, o, s)
         IN /\ q \in Seq(Writes) /\ Len(q) = 4 /\ q[1] = m /\ q[2] = GroupWrite(o, s)
            /\ q[3] = ListWrite /\ q[4] = ReplicaWrite
<1> DEFINE q == BecomeWrites(m, o, s)
<1>1. <<m>> \in Seq(Writes) /\ Len(<<m>>) = 1 /\ <<m>>[1] = m
  OBVIOUS
<1>2. /\ Manager!Record(o, s) \in Seq(Writes) /\ Len(Manager!Record(o, s)) = 3
      /\ Manager!Record(o, s)[1] = GroupWrite(o, s) /\ Manager!Record(o, s)[2] = ListWrite
      /\ Manager!Record(o, s)[3] = ReplicaWrite
  BY RecordIs
<1> DEFINE p == <<m>>
           r == Manager!Record(o, s)
<1> HIDE DEF p, r
<1>3. /\ p \o r \in Seq(Writes) /\ Len(p \o r) = 4 /\ (p \o r)[1] = p[1]
      /\ (p \o r)[2] = r[1] /\ (p \o r)[3] = r[2] /\ (p \o r)[4] = r[3]
  <2>1. p \in Seq(Writes) /\ r \in Seq(Writes) /\ Len(p) = 1 /\ Len(r) = 3
    BY <1>1, <1>2 DEF p, r
  <2> QED
    BY <2>1, Glued13
<1>4. q = p \o r
  BY DEF p, r, BecomeWrites
<1> QED
  BY <1>1, <1>2, <1>3, <1>4 DEF p, r

LEMMA TransferQueue ==
  ASSUME NEW m \in Writes, NEW n \in Writes, NEW o \in Users, NEW s \in GroupStates
  PROVE  LET q == TransferWrites(m, n, o, s)
         IN /\ q \in Seq(Writes) /\ Len(q) = 5 /\ q[1] = m /\ q[2] = n
            /\ q[3] = GroupWrite(o, s) /\ q[4] = ListWrite /\ q[5] = ReplicaWrite
<1> DEFINE q == TransferWrites(m, n, o, s)
           p == <<m, n>>
           r == Manager!Record(o, s)
<1>1. p \in Seq(Writes) /\ Len(p) = 2 /\ p[1] = m /\ p[2] = n
  OBVIOUS
<1>2. /\ r \in Seq(Writes) /\ Len(r) = 3
      /\ r[1] = GroupWrite(o, s) /\ r[2] = ListWrite /\ r[3] = ReplicaWrite
  BY RecordIs
<1>3. q = p \o r
  BY DEF TransferWrites
<1> HIDE DEF p, r
<1>4. /\ p \o r \in Seq(Writes) /\ Len(p \o r) = 5 /\ (p \o r)[1] = p[1] /\ (p \o r)[2] = p[2]
      /\ (p \o r)[3] = r[1] /\ (p \o r)[4] = r[2] /\ (p \o r)[5] = r[3]
  BY <1>1, <1>2, Glued23
<1> QED
  BY <1>1, <1>2, <1>3, <1>4

LEMMA DeleteQueue ==
  ASSUME NEW o \in Users, NEW s \in GroupStates
  PROVE  LET q == DeleteWrites(o, s)
         IN /\ q \in Seq(Writes) /\ Len(q) = 4 /\ q[1] = GroupWrite(o, s)
            /\ q[2] = ListWrite /\ q[3] = ReplicaWrite /\ q[4] = TombstoneWrite
<1> DEFINE q == DeleteWrites(o, s)
<1>1. <<TombstoneWrite>> \in Seq(Writes) /\ Len(<<TombstoneWrite>>) = 1
      /\ <<TombstoneWrite>>[1] = TombstoneWrite
  BY OtherWritesAre
<1> QED
  BY <1>1, RecordIs, Glued31 DEF DeleteWrites

LEMMA CreateQueue ==
  ASSUME NEW u \in Users, NEW m \in Writes, NEW others
  PROVE  LET q == CreateWrites(u, m, others)
         IN /\ others = <<>> =>
                 /\ q \in Seq(Writes) /\ Len(q) = 4 /\ q[1] = GroupWrite(u, "active")
                 /\ q[2] = m /\ q[3] = ListWrite /\ q[4] = ReplicaWrite
            /\ \A o \in Writes : others = <<o>> =>
                 /\ q \in Seq(Writes) /\ Len(q) = 5 /\ q[1] = GroupWrite(u, "active")
                 /\ q[2] = m /\ q[3] = o /\ q[4] = ListWrite /\ q[5] = ReplicaWrite
<1> DEFINE q == CreateWrites(u, m, others)
<1> DEFINE g == Manager!Record(u, "active")[1]
           p == <<g, m>>
           e == <<ListWrite, ReplicaWrite>>
<1>1. g = GroupWrite(u, "active") /\ g \in Writes
  BY RecordIs DEF GroupStates
<1> HIDE DEF g
<1>2. /\ p \in Seq(Writes) /\ Len(p) = 2 /\ p[1] = g /\ p[2] = m
      /\ e \in Seq(Writes) /\ Len(e) = 2 /\ e[1] = ListWrite /\ e[2] = ReplicaWrite
  BY <1>1, OtherWritesAre
<1>3. CASE others = <<>>
  <2>1. p \o others = p
    BY <1>2, <1>3
  <2>2. q = p \o e
    BY <2>1 DEF g, CreateWrites
  <2> HIDE DEF p, e
  <2>3. /\ q \in Seq(Writes) /\ Len(q) = 4 /\ q[1] = p[1]
        /\ q[2] = p[2] /\ q[3] = e[1] /\ q[4] = e[2]
    <3>1. /\ p \o e \in Seq(Writes) /\ Len(p \o e) = 4 /\ (p \o e)[1] = p[1]
          /\ (p \o e)[2] = p[2] /\ (p \o e)[3] = e[1] /\ (p \o e)[4] = e[2]
      BY <1>2, Glued22
    <3> QED
      BY <2>2, <3>1
  <2> QED
    BY <1>1, <1>2, <1>3, <2>3
<1>4. ASSUME NEW o \in Writes, others = <<o>>
      PROVE  /\ q \in Seq(Writes) /\ Len(q) = 5 /\ q[1] = GroupWrite(u, "active")
             /\ q[2] = m /\ q[3] = o /\ q[4] = ListWrite /\ q[5] = ReplicaWrite
  <2> DEFINE n == <<o>>
             t == p \o n
  <2>1. n \in Seq(Writes) /\ Len(n) = 1 /\ n[1] = o
    OBVIOUS
  <2>3. q = t \o e
    BY <1>4 DEF g, CreateWrites
  <2> HIDE DEF n, p, e
  <2>2. t \in Seq(Writes) /\ Len(t) = 3 /\ t[1] = g /\ t[2] = m /\ t[3] = o
    BY <1>2, <2>1, Glued21
  <2> HIDE DEF t
  <2>4. /\ q \in Seq(Writes) /\ Len(q) = 5 /\ q[1] = t[1]
        /\ q[2] = t[2] /\ q[3] = t[3] /\ q[4] = e[1] /\ q[5] = e[2]
    <3>1. /\ t \o e \in Seq(Writes) /\ Len(t \o e) = 5 /\ (t \o e)[1] = t[1]
          /\ (t \o e)[2] = t[2] /\ (t \o e)[3] = t[3] /\ (t \o e)[4] = e[1]
          /\ (t \o e)[5] = e[2]
      BY <1>2, <2>2, Glued32
    <3> QED
      BY <2>3, <3>1
  <2> QED
    BY <1>1, <1>2, <2>2, <2>4
<1> QED
  BY <1>3, <1>4



LEMMA NothingIs == ASSUME Manager!GroupManagerAssumption PROVE Manager!Nothing \in Snapshots
BY DEF Manager!Nothing, Snapshots, Manager!NoMembership, States, Manager!Roles,
   Manager!Moves, Manager!GroupManagerAssumption

LEMMA InitManager ==
  ASSUME Manager!GroupManagerAssumption, MaxVersion # 0 PROVE Manager!Init => ManagerInv
<1> SUFFICES ASSUME Manager!Init PROVE ManagerInv
  OBVIOUS
<1>1. work = <<>> /\ Len(work) = 0 /\ 1..Len(work) = {}
  BY DEF Manager!Init
<1>2. /\ Manager!Nothing \in Snapshots
      /\ memberships \in [Users -> [state : States, role : Manager!Roles]]
  BY DEF Manager!Init, Manager!Nothing, Snapshots, Manager!NoMembership, States,
     Manager!Roles, Manager!Moves, Manager!GroupManagerAssumption
<1>3. ManagerTyped
  <2>1. group \in [owner : Users \cup {"nobody"}, version : 0..MaxVersion,
                   state : {"none"} \cup GroupStates]
    BY DEF Manager!Init, Manager!GroupManagerAssumption
  <2>2. refreshing \in [step : {"none"}]
    BY DEF Manager!Init, Manager!NoRefresh
  <2>3. work \in Seq(Writes) /\ torn \in BOOLEAN /\ group.state = "none"
    <3>1. <<>> \in Seq(Writes)
      OBVIOUS
    <3> QED
      BY <3>1 DEF Manager!Init
  <2>4. replica \in Snapshots /\ draft \in Snapshots
    BY <1>2 DEF Manager!Init
  <2> QED
    BY <1>2, <2>1, <2>2, <2>3, <2>4 DEF ManagerTyped
<1>4. OwnerStays /\ OwnerWrites /\ Order /\ Room /\ EmptyOK /\ Listing /\ Listed
  BY <1>1 DEF Manager!Init, OwnerStays, OwnerWrites, Order, Room, EmptyOK, Listing,
     Listed, Ending, Emptying, Lives
<1>5. Fresh
  BY DEF Manager!Init, Fresh, Manager!NoMembership
<1> QED
  BY <1>3, <1>4, <1>5 DEF ManagerInv

\* The first write of the queue is done.
FirstDone == work # <<>> /\ work' = Tail(work)
\* The writes that are left.
LEMMA Popped ==
  ASSUME work \in Seq(Writes), FirstDone
  PROVE  /\ work' \in Seq(Writes) /\ Len(work') = Len(work) - 1 /\ Len(work) \in Nat \ {0}
         /\ Head(work) = work[1] /\ work[1] \in Writes
         /\ \A i \in 1..Len(work') : work'[i] = work[i + 1] /\ i + 1 \in 1..Len(work)
<1>1. work' \in Seq(Writes) /\ Len(work') = Len(work) - 1 /\ Len(work) \in Nat \ {0}
  BY HeadTailProperties DEF FirstDone
<1>2. \A i \in 1..Len(work') : work'[i] = work[i + 1]
  BY HeadTailProperties DEF FirstDone
<1> QED
  BY <1>1, <1>2, ElementOfSeq

\* The queue stays in order when its first write is done.
LEMMA OrderPops ==
  ASSUME work \in Seq(Writes), FirstDone, Order
  PROVE  Order' /\ (Is(1, "group") => \A i \in 1..Len(work') : ~ Is(i, "group")')
<1>1. /\ Len(work') = Len(work) - 1 /\ Len(work) \in Nat \ {0}
      /\ \A i \in 1..Len(work') : work'[i] = work[i + 1] /\ i + 1 \in 1..Len(work)
  BY Popped
<1>2. ASSUME NEW i \in 1..Len(work'), NEW j \in 1..Len(work'),
             Is(i, "group")', Is(j, "group")'
      PROVE  i = j
  <2>1. /\ Is(i + 1, "group") /\ Is(j + 1, "group")
        /\ i + 1 \in 1..Len(work) /\ j + 1 \in 1..Len(work)
    BY <1>1, <1>2 DEF Is
  <2>2. i + 1 = j + 1
    BY <2>1 DEF Order
  <2> QED
    BY <2>2
<1>3. ASSUME NEW i \in 1..Len(work'), Is(i, "tombstones")'
      PROVE  /\ i = Len(work')
             /\ \A j \in 1..Len(work') : ~ Is(j, "membership")'
             /\ \A j \in 1..Len(work') : Is(j, "group")' => work'[j].state = "deleted"
  <2>1. Is(i + 1, "tombstones") /\ i + 1 \in 1..Len(work)
    BY <1>1, <1>3 DEF Is
  <2>2. i + 1 = Len(work)
    BY <2>1 DEF Order
  <2>3. ASSUME NEW j \in 1..Len(work')
        PROVE  /\ ~ Is(j, "membership")'
               /\ Is(j, "group")' => work'[j].state = "deleted"
    <3>1. j + 1 \in 1..Len(work) /\ work'[j] = work[j + 1]
      BY <1>1
    <3>2. ~ Is(j + 1, "membership") /\ (Is(j + 1, "group") => work[j + 1].state = "deleted")
      BY <2>1, <3>1 DEF Order
    <3> QED
      BY <3>1, <3>2 DEF Is
  <2>4. i = Len(work')
    BY <1>1, <2>2
  <2> QED
    BY <2>3, <2>4
<1>4. ASSUME Is(1, "group"), NEW i \in 1..Len(work'), Is(i, "group")' PROVE FALSE
  <2>1. Is(i + 1, "group") /\ i + 1 \in 1..Len(work) /\ 1 \in 1..Len(work)
    BY <1>1, <1>4 DEF Is
  <2>2. i + 1 = 1
    BY <1>4, <2>1 DEF Order
  <2> QED
    BY <2>2
<1> QED
  BY <1>2, <1>3, <1>4 DEF Order

LEMMA ListingPops ==
  ASSUME work \in Seq(Writes), FirstDone, Listing
  PROVE  /\ Listing'
         /\ work' # <<>> /\ Is(1, "replica")' => Is(1, "list")
         /\ work' = <<>> => Is(1, "replica") \/ Is(1, "tombstones")
<1>1. /\ Len(work') = Len(work) - 1 /\ Len(work) \in Nat \ {0} /\ work' \in Seq(Writes)
      /\ \A i \in 1..Len(work') : work'[i] = work[i + 1] /\ i + 1 \in 1..Len(work)
  BY Popped
<1>2. \A i \in 1..Len(work') : \A what : Is(i, what)' <=> Is(i + 1, what)
  BY <1>1 DEF Is
<1>3. ASSUME NEW i \in 1..Len(work'), Is(i, "list")'
      PROVE  i < Len(work') /\ Is(i + 1, "replica")'
  <2>1. Is(i + 1, "list") /\ i + 1 \in 1..Len(work)
    BY <1>1, <1>2, <1>3
  <2>2. i + 1 < Len(work) /\ Is(i + 1 + 1, "replica")
    BY <2>1 DEF Listing
  <2>3. i < Len(work') /\ i + 1 \in 1..Len(work')
    BY <1>1, <2>2
  <2> QED
    BY <1>2, <2>2, <2>3
<1>4. ASSUME NEW i \in 1..Len(work'), Is(i, "replica")', i # 1
      PROVE  Is(i - 1, "list")'
  <2>1. Is(i + 1, "replica") /\ i + 1 \in 1..Len(work) /\ i + 1 # 1
    BY <1>1, <1>2, <1>4
  <2>2. Is((i + 1) - 1, "list")
    BY <2>1 DEF Listing
  <2>3. (i + 1) - 1 = (i - 1) + 1 /\ i - 1 \in 1..Len(work')
    BY <1>1, <1>4
  <2> QED
    BY <1>2, <2>2, <2>3
<1>5. ASSUME work' # <<>>
      PROVE  /\ Is(Len(work), "replica")' \/ Is(Len(work), "tombstones")'
             /\ Is(1, "replica")' => Is(1, "list")
  <2>1. Len(work') \in 1..Len(work') /\ 1 \in 1..Len(work') /\ Len(work') + 1 = Len(work)
        /\ 1 + 1 \in 1..Len(work)
    BY <1>1, <1>5, EmptySeq
  <2>2. Is(Len(work), "replica") \/ Is(Len(work), "tombstones")
    BY DEF Listing, FirstDone
  <2>3. Is(2, "replica") => Is(1, "list")
    BY <2>1 DEF Listing
  <2>4. Is(1, "replica")' <=> Is(2, "replica")
    BY <1>1, <2>1 DEF Is
  <2>5. work'[Len(work')] = work[Len(work)]
    BY <1>1, <2>1
  <2>6. Is(Len(work), "replica")' \/ Is(Len(work), "tombstones")'
    BY <2>2, <2>5 DEF Is
  <2> QED
    BY <2>3, <2>4, <2>6
<1>6. ASSUME work' = <<>> PROVE Is(1, "replica") \/ Is(1, "tombstones")
  <2>1. Len(work') = 0
    BY <1>6
  <2>2. Len(work) = 1
    BY <1>1, <2>1
  <2> QED
    BY <2>2 DEF Listing, FirstDone
<1> QED
  BY <1>3, <1>4, <1>5, <1>6 DEF Listing

LEMMA WriteMembershipKeeps ==
  ASSUME ManagerInv, work # <<>>, Manager!WriteMembership(Head(work)),
         UNCHANGED <<refreshing, torn>>
  PROVE  ManagerInv'
<1> DEFINE w == Head(work)
<1>1. /\ Fresh /\ ManagerTyped /\ OwnerStays /\ OwnerWrites /\ Order /\ Room
      /\ EmptyOK /\ Listing /\ Listed
      /\ work \in Seq(Writes)
  BY DEF ManagerInv, ManagerTyped
<1>2. /\ Is(1, "membership") /\ FirstDone
      /\ memberships' = [memberships EXCEPT ![w.user] = [state |-> w.state, role |-> w.role]]
      /\ UNCHANGED <<group, replica, draft, refreshing, torn>>
  BY <1>1, Popped DEF Manager!WriteMembership, Is, FirstDone
<1>3. /\ work' \in Seq(Writes) /\ Len(work') = Len(work) - 1 /\ Len(work) \in Nat \ {0}
      /\ w = work[1] /\ w \in Writes
      /\ \A i \in 1..Len(work') : work'[i] = work[i + 1] /\ i + 1 \in 1..Len(work)
  BY <1>1, <1>2, Popped
<1>4. w \in MemberWrites
  BY <1>2, <1>3 DEF Is, Writes, GroupWrites, OtherWrites
<1> HIDE DEF w
<1>5. ManagerTyped'
  <2>1. memberships' \in [Users -> [state : States, role : Manager!Roles]]
    BY <1>1, <1>2, <1>4 DEF ManagerTyped, MemberWrites
  <2> QED
    BY <1>1, <1>2, <1>3, <2>1 DEF ManagerTyped
<1>6. Fresh'
  BY <1>1, <1>2, <1>3 DEF Fresh, Is
<1>7. ASSUME NEW u \in Users, Stays(u), Owning(u)
      PROVE  Stays(u)'
  <2>1. CASE u = w.user
    <3>1. w.state \in Manager!InGroup
      BY <1>1, <1>2, <1>3, <1>7, <2>1 DEF OwnerWrites
    <3> QED
      BY <1>1, <1>2, <1>4, <2>1, <3>1 DEF Stays, ManagerTyped, MemberWrites
  <2>2. CASE u # w.user
    <3>1. memberships'[u] = memberships[u]
      BY <1>1, <1>2, <2>2 DEF ManagerTyped
    <3>2. ASSUME Joining(u) PROVE Joining(u)'
      <4>1. PICK j \in 1..Len(work) : Is(j, "membership") /\ work[j].user = u
        BY <3>2 DEF Joining
      <4>2. j # 1
        BY <1>3, <2>2, <4>1
      <4>3. j - 1 \in 1..Len(work') /\ work'[j - 1] = work[j]
        BY <1>3, <4>2
      <4> QED
        BY <4>1, <4>3 DEF Joining, Is
    <3> QED
      BY <1>7, <3>1, <3>2 DEF Stays
  <2> QED
    BY <2>1, <2>2
<1>8. OwnerStays'
  <2>1. ASSUME group'.state \in Lives PROVE Stays(group.owner)'
    <3>1. group.owner \in Users /\ Stays(group.owner)
      BY <1>1, <1>2, <2>1 DEF OwnerStays, ManagerTyped, Lives
    <3> QED
      BY <1>2, <1>7, <3>1 DEF Owning
  <2>2. ASSUME NEW i \in 1..Len(work'), Is(i, "group")', work'[i].state \in Lives
        PROVE  Stays(work[i].owner)'
    <3>1. work'[i] = work[i + 1] /\ i + 1 \in 1..Len(work) /\ work[i + 1] \in Writes
      BY <1>1, <1>3, ElementOfSeq
    <3>2. Is(i + 1, "group") /\ work[i + 1].state \in Lives
      BY <2>2, <3>1 DEF Is
    <3>3. work[i + 1].owner \in Users
      BY <3>1, <3>2 DEF Is, Writes, GroupWrites, MemberWrites, OtherWrites
    <3>4. Stays(work[i + 1].owner) /\ Owning(work[i + 1].owner)
      BY <1>1, <3>1, <3>2 DEF OwnerStays, Owning
    <3> QED
      BY <1>7, <3>1, <3>3, <3>4
  <2> QED
    BY <2>1, <2>2 DEF OwnerStays
<1>9. OwnerWrites'
  <2> SUFFICES ASSUME NEW i \in 1..Len(work'), Is(i, "membership")', Owning(work[i].user)'
               PROVE  work'[i].state \in Manager!InGroup
    BY DEF OwnerWrites
  <2>1. Is(i + 1, "membership") /\ work'[i] = work[i + 1] /\ i + 1 \in 1..Len(work)
    BY <1>3 DEF Is
  <2>2. Owning(work[i + 1].user)
    BY <1>2, <1>3, <2>1 DEF Owning, Is
  <2> QED
    BY <1>1, <2>1, <2>2 DEF OwnerWrites
<1>10. Order' /\ Room'
  BY <1>1, <1>2, <1>3, OrderPops DEF Room, Is
<1>11. EmptyOK'
  <2>1. ~ Emptying /\ ~ Empty /\ ~ Emptying'
    <3>1. 1 \in 1..Len(work)
      BY <1>3
    <3>2. \A i \in 1..Len(work) : ~ Is(i, "tombstones")
      BY <1>1, <1>2, <3>1 DEF Order
    <3>3. ~ Emptying'
      BY <1>3, <3>2 DEF Emptying, Is
    <3>4. ~ Empty
      BY <1>2, <3>1 DEF Empty
    <3> QED
      BY <3>2, <3>3, <3>4 DEF Emptying
  <2>2. Ending' => Ending
    BY <1>2, <1>3 DEF Ending, Is
  <2> QED
    BY <1>1, <1>2, <2>1, <2>2 DEF EmptyOK
<1>12. Listing' /\ Listed'
  <2>1. ~ Is(1, "list")
    BY <1>2 DEF Is
  <2> QED
    BY <1>1, <1>2, <2>1, ListingPops DEF Listed
<1> QED
  BY <1>5, <1>6, <1>8, <1>9, <1>10, <1>11, <1>12 DEF ManagerInv

\* A write that is no membership's leaves everybody where they stay.
LEMMA StillStays ==
  ASSUME work \in Seq(Writes), FirstDone, UNCHANGED memberships, ~ Is(1, "membership"),
         NEW u, Stays(u)
  PROVE  Stays(u)'
<1>1. /\ Len(work') = Len(work) - 1 /\ Len(work) \in Nat \ {0}
      /\ \A i \in 1..Len(work') : work'[i] = work[i + 1] /\ i + 1 \in 1..Len(work)
  BY Popped
<1>2. ASSUME Joining(u) PROVE Joining(u)'
  <2>1. PICK j \in 1..Len(work) : Is(j, "membership") /\ work[j].user = u
    BY <1>2 DEF Joining
  <2>2. j # 1
    BY <2>1
  <2>3. j - 1 \in 1..Len(work') /\ work'[j - 1] = work[j]
    BY <1>1, <2>2
  <2> QED
    BY <2>1, <2>3 DEF Joining, Is
<1> QED
  BY <1>2 DEF Stays

\* A write that changes neither the record nor a membership.
LEMMA QuietKeeps ==
  ASSUME ManagerInv, FirstDone, UNCHANGED <<group, memberships, torn>>,
         Is(1, "list") \/ Is(1, "replica") \/ (Is(1, "tombstones") /\ Empty),
         ManagerTyped', Listed'
  PROVE  ManagerInv'
<1>1. /\ Fresh /\ ManagerTyped /\ OwnerStays /\ OwnerWrites /\ Order /\ Room /\ EmptyOK
      /\ Listing /\ Listed /\ work \in Seq(Writes)
  BY DEF ManagerInv, ManagerTyped
<1>2. ~ Is(1, "group") /\ ~ Is(1, "membership")
  BY DEF Is
<1>3. /\ Len(work') = Len(work) - 1 /\ Len(work) \in Nat \ {0}
      /\ \A i \in 1..Len(work') : work'[i] = work[i + 1] /\ i + 1 \in 1..Len(work)
  BY <1>1, Popped
<1>4. Fresh'
  BY <1>1, <1>2 DEF Fresh, FirstDone
<1>5. OwnerStays'
  <2>1. group.state \in Lives => Stays(group.owner)'
    BY <1>1, <1>2, StillStays DEF OwnerStays
  <2>2. ASSUME NEW i \in 1..Len(work'), Is(i, "group")', work'[i].state \in Lives
        PROVE  Stays(work[i].owner)'
    <3>1. work'[i] = work[i + 1] /\ i + 1 \in 1..Len(work)
      BY <1>3
    <3>2. Stays(work[i + 1].owner)
      BY <1>1, <2>2, <3>1 DEF OwnerStays, Is
    <3>3. ASSUME NEW u, u = work[i + 1].owner, Stays(u) PROVE Stays(u)'
      BY <1>1, <1>2, <3>3, StillStays
    <3> QED
      BY <3>1, <3>2, <3>3 DEF Stays, Joining
  <2> QED
    BY <2>1, <2>2 DEF OwnerStays
<1>6. OwnerWrites'
  <2> SUFFICES ASSUME NEW i \in 1..Len(work'), Is(i, "membership")', Owning(work[i].user)'
               PROVE  work'[i].state \in Manager!InGroup
    BY DEF OwnerWrites
  <2>1. Is(i + 1, "membership") /\ work'[i] = work[i + 1] /\ i + 1 \in 1..Len(work)
    BY <1>3 DEF Is
  <2>2. Owning(work[i + 1].user)
    BY <1>3, <2>1 DEF Owning, Is
  <2> QED
    BY <1>1, <2>1, <2>2 DEF OwnerWrites
<1>7. Order' /\ Room'
  BY <1>1, <1>3, OrderPops DEF Room, Is
<1>8. EmptyOK'
  <2>1. Ending' <=> Ending
    <3>1. ASSUME Ending PROVE Ending'
      <4>1. CASE group.state = "deleted"
        BY <4>1 DEF Ending
      <4>2. CASE group.state # "deleted"
        <5>1. PICK j \in 1..Len(work) : Is(j, "group") /\ work[j].state = "deleted"
          BY <3>1, <4>2 DEF Ending
        <5>2. j - 1 \in 1..Len(work') /\ work'[j - 1] = work[j]
          BY <1>2, <1>3, <5>1
        <5> QED
          BY <5>1, <5>2 DEF Ending, Is
      <4> QED
        BY <4>1, <4>2
    <3>2. ASSUME Ending' PROVE Ending
      BY <1>3, <3>2 DEF Ending, Is
    <3> QED
      BY <3>1, <3>2
  <2>2. Emptying' => Emptying
    BY <1>3 DEF Emptying, Is
  <2>3. Empty => Empty'
    BY <1>3 DEF Empty, Is
  <2>4. ASSUME Emptying, ~ Empty PROVE Emptying'
    <3>1. PICK j \in 1..Len(work) : Is(j, "tombstones")
      BY <2>4 DEF Emptying
    <3>2. j # 1
      BY <2>4, <3>1 DEF Is
    <3>3. j - 1 \in 1..Len(work') /\ work'[j - 1] = work[j]
      BY <1>3, <3>2
    <3> QED
      BY <3>1, <3>3 DEF Emptying, Is
  <2> QED
    BY <1>1, <2>1, <2>2, <2>3, <2>4 DEF EmptyOK
<1>9. Listing'
  BY <1>1, ListingPops
<1> QED
  BY <1>4, <1>5, <1>6, <1>7, <1>8, <1>9 DEF ManagerInv

LEMMA WriteGroupKeeps ==
  ASSUME Manager!GroupManagerAssumption, ManagerInv, work # <<>>,
         Manager!WriteGroup(Head(work)),
         UNCHANGED <<refreshing, torn>>
  PROVE  ManagerInv'
<1> DEFINE w == Head(work)
<1>1. /\ Fresh /\ ManagerTyped /\ OwnerStays /\ OwnerWrites /\ Order /\ Room /\ EmptyOK
      /\ Listing /\ Listed /\ work \in Seq(Writes)
  BY DEF ManagerInv, ManagerTyped
<1>2. /\ Is(1, "group") /\ FirstDone
      /\ group' = [owner |-> w.owner, state |-> w.state, version |-> group.version + 1]
      /\ UNCHANGED <<memberships, replica, draft, refreshing, torn>>
  BY <1>1, Popped DEF Manager!WriteGroup, Is, FirstDone
<1>3. /\ work' \in Seq(Writes) /\ Len(work') = Len(work) - 1 /\ Len(work) \in Nat \ {0}
      /\ w = work[1] /\ w \in Writes
      /\ \A i \in 1..Len(work') : work'[i] = work[i + 1] /\ i + 1 \in 1..Len(work)
  BY <1>1, <1>2, Popped
<1>4. w \in GroupWrites /\ 1 \in 1..Len(work) /\ ~ Is(1, "membership")
  BY <1>2, <1>3 DEF Is, Writes, MemberWrites, OtherWrites
<1> HIDE DEF w
<1>5. /\ group'.owner = w.owner /\ group'.state = w.state
      /\ group'.version = group.version + 1
      /\ w.owner \in Users /\ w.state \in GroupStates /\ w.state # "none"
  BY <1>2, <1>4 DEF GroupWrites, GroupStates
<1>6. ManagerTyped'
  <2>1. group.version < MaxVersion /\ group.version \in 0..MaxVersion /\ MaxVersion \in Nat
    BY <1>1, <1>2, <1>4 DEF Room, ManagerTyped, Manager!GroupManagerAssumption
  <2>2. group' \in [owner : Users \cup {"nobody"}, version : 0..MaxVersion,
                    state : {"none"} \cup GroupStates]
    BY <1>2, <1>5, <2>1
  <2> QED
    BY <1>1, <1>2, <1>3, <1>5, <2>2 DEF ManagerTyped
<1>7. Fresh'
  BY <1>5 DEF Fresh
<1>8. Order' /\ \A i \in 1..Len(work') : ~ Is(i, "group")'
  BY <1>1, <1>2, OrderPops
<1>9. OwnerStays'
  <2>1. w.state \in Lives => Stays(w.owner)
    BY <1>1, <1>2, <1>3, <1>4 DEF OwnerStays
  <2>2. w.state \in Lives => (Stays(group.owner))'
    <3>1. ASSUME NEW u, u = w.owner, Stays(u) PROVE Stays(u)'
      BY <1>1, <1>2, <1>4, <3>1, StillStays
    <3> QED
      BY <1>5, <2>1, <3>1 DEF Stays, Joining
  <2> QED
    BY <1>5, <1>8, <2>2 DEF OwnerStays
<1>10. OwnerWrites'
  <2> SUFFICES ASSUME NEW i \in 1..Len(work'), Is(i, "membership")', Owning(work[i].user)'
               PROVE  work'[i].state \in Manager!InGroup
    BY DEF OwnerWrites
  <2>1. Is(i + 1, "membership") /\ work'[i] = work[i + 1] /\ i + 1 \in 1..Len(work)
    BY <1>3 DEF Is
  <2>2. work'[i].user = w.owner
    BY <1>5, <1>8 DEF Owning, Is
  <2>3. Owning(work[i + 1].user)
    BY <1>2, <1>3, <1>4, <2>1, <2>2 DEF Owning
  <2> QED
    BY <1>1, <2>1, <2>3 DEF OwnerWrites
<1>11. Room'
  BY <1>8 DEF Room
<1>12. EmptyOK'
  <2>1. Ending' <=> w.state = "deleted"
    BY <1>5, <1>8 DEF Ending
  <2>2. w.state = "deleted" => Ending
    BY <1>2, <1>3, <1>4 DEF Ending
  <2>3. Emptying' => Emptying
    BY <1>3 DEF Emptying, Is
  <2>4. Emptying => Emptying'
    <3> SUFFICES ASSUME Emptying PROVE Emptying'
      OBVIOUS
    <3>1. PICK j \in 1..Len(work) : Is(j, "tombstones")
      BY DEF Emptying
    <3>2. j - 1 \in 1..Len(work') /\ work'[j - 1] = work[j]
      BY <1>2, <1>3, <3>1 DEF Is
    <3> QED
      BY <3>1, <3>2 DEF Emptying, Is
  <2>5. Empty => Empty'
    BY <1>2, <1>3 DEF Empty, Is
  <2>6. Emptying => w.state = "deleted"
    BY <1>1, <1>2, <1>3, <1>4 DEF Order, Emptying
  <2> QED
    BY <1>1, <1>2, <2>1, <2>2, <2>3, <2>4, <2>5, <2>6 DEF EmptyOK
<1>13. Listing' /\ Listed'
  <2>1. ~ Is(1, "list")
    BY <1>2 DEF Is
  <2> QED
    BY <1>1, <1>2, <2>1, ListingPops DEF Listed
<1> QED
  BY <1>6, <1>7, <1>8, <1>9, <1>10, <1>11, <1>12, <1>13 DEF ManagerInv

LEMMA ListKeeps ==
  ASSUME ManagerInv, work # <<>>, Manager!ListMemberships(Head(work)),
         UNCHANGED <<refreshing, torn>>
  PROVE  ManagerInv'
<1>1. ManagerTyped /\ work \in Seq(Writes)
  BY DEF ManagerInv, ManagerTyped
<1>2. /\ Is(1, "list") /\ FirstDone /\ draft' = Manager!Snapshot(group.version)
      /\ UNCHANGED <<group, memberships, replica, refreshing, torn>>
  BY <1>1, Popped DEF Manager!ListMemberships, Is, FirstDone
<1>3. work' \in Seq(Writes)
  BY <1>1, <1>2, Popped
<1>4. draft' \in Snapshots
  BY <1>1, <1>2 DEF ManagerTyped, Manager!Snapshot, Snapshots
<1>5. ManagerTyped'
  BY <1>1, <1>2, <1>3, <1>4 DEF ManagerTyped
<1>6. Listed'
  BY <1>2 DEF Listed, Manager!Snapshot
<1> QED
  BY <1>2, <1>5, <1>6, QuietKeeps

LEMMA ReplicaKeeps ==
  ASSUME Manager!GroupManagerAssumption, ManagerInv, work # <<>>,
         Manager!WriteReplica(Head(work)),
         UNCHANGED <<refreshing, torn>>
  PROVE  ManagerInv'
<1>1. ManagerTyped /\ Listing /\ work \in Seq(Writes)
  BY DEF ManagerInv, ManagerTyped
<1>2. /\ Is(1, "replica") /\ FirstDone /\ replica' = draft /\ draft' = Manager!Nothing
      /\ UNCHANGED <<group, memberships, refreshing, torn>>
  BY <1>1, Popped DEF Manager!WriteReplica, Is, FirstDone
<1>3. work' \in Seq(Writes)
  BY <1>1, <1>2, Popped
<1>4. draft' \in Snapshots
  BY <1>2, NothingIs
<1>5. ManagerTyped'
  BY <1>1, <1>2, <1>3, <1>4 DEF ManagerTyped
<1>6. Listed'
  <2>1. ~ Is(1, "list")
    BY <1>2 DEF Is
  <2> QED
    BY <1>1, <1>2, <2>1, ListingPops DEF Listed
<1> QED
  BY <1>2, <1>5, <1>6, QuietKeeps

LEMMA TombstoneKeeps ==
  ASSUME ManagerInv, work # <<>>, Manager!WriteTombstone(Head(work)),
         UNCHANGED <<refreshing, torn>>
  PROVE  ManagerInv'
<1> DEFINE left == {u \in Users : memberships[u].state \notin {"none", "deleted"}}
<1>1. /\ Fresh /\ ManagerTyped /\ OwnerStays /\ OwnerWrites /\ Order /\ Room /\ EmptyOK
      /\ Listing /\ Listed /\ work \in Seq(Writes)
  BY DEF ManagerInv, ManagerTyped
<1>2. /\ Len(work) \in Nat \ {0} /\ Head(work) = work[1] /\ 1 \in 1..Len(work)
  BY <1>1, HeadTailProperties
<1>3. /\ Is(1, "tombstones") /\ UNCHANGED <<group, replica, draft, refreshing, torn>>
      /\ IF left = {} THEN FirstDone /\ UNCHANGED memberships
         ELSE /\ \E u \in left : memberships' = [memberships EXCEPT ![u].state = "deleted"]
              /\ UNCHANGED work
  BY <1>2 DEF Manager!WriteTombstone, Is, FirstDone
<1>4. \A j \in 1..Len(work) : ~ Is(j, "membership")
  BY <1>1, <1>2, <1>3 DEF Order
<1>5. CASE left = {}
  <2>1. FirstDone /\ UNCHANGED <<group, memberships, torn, replica, draft, refreshing>>
    BY <1>3, <1>5
  <2>2. Empty
    BY <1>4, <1>5 DEF Empty
  <2>3. work' \in Seq(Writes)
    BY <1>1, <2>1, Popped
  <2>4. ManagerTyped'
    BY <1>1, <2>1, <2>3 DEF ManagerTyped
  <2>5. Listed'
    <3>1. ~ Is(1, "list")
      BY <1>3 DEF Is
    <3> QED
      BY <1>1, <2>1, <3>1, ListingPops DEF Listed
  <2> QED
    BY <1>3, <2>1, <2>2, <2>4, <2>5, QuietKeeps
<1>6. CASE left # {}
  <2>1. PICK u \in left : memberships' = [memberships EXCEPT ![u].state = "deleted"]
    BY <1>3, <1>6
  <2>2. UNCHANGED <<group, work, replica, draft, refreshing, torn>>
    BY <1>3, <1>6
  <2>3. Emptying /\ Ending
    BY <1>1, <1>2, <1>3 DEF Emptying, EmptyOK
  <2>4. /\ group.state = "deleted"
        /\ \A j \in 1..Len(work) : ~ Is(j, "group")
    <3>1. Len(work) = 1
      BY <1>1, <1>2, <1>3 DEF Order
    <3>2. \A j \in 1..Len(work) : ~ Is(j, "group")
      BY <1>3, <3>1 DEF Is
    <3> QED
      BY <2>3, <3>2 DEF Ending
  <2>5. ManagerTyped'
    <3>1. memberships' \in [Users -> [state : States, role : Manager!Roles]]
      BY <1>1, <2>1 DEF ManagerTyped, States, Manager!Moves
    <3> QED
      BY <1>1, <2>2, <3>1 DEF ManagerTyped
  <2>6. Fresh' /\ OwnerStays'
    BY <2>2, <2>4 DEF Fresh, OwnerStays, Is, Lives
  <2>7. OwnerWrites' /\ Order' /\ Room' /\ Listing' 
    <3>1. OwnerWrites'
      BY <1>4, <2>2 DEF OwnerWrites, Is
    <3>2. Order' /\ Room' /\ Listing'
      BY <1>1, <2>2 DEF Order, Room, Listing, Is
    <3> QED
      BY <3>1, <3>2
  <2>8. EmptyOK'
    BY <2>2, <2>3 DEF EmptyOK, Emptying, Ending, Is
  <2>9. Listed'
    BY <1>3, <2>2 DEF Listed, Is
  <2> QED
    BY <2>5, <2>6, <2>7, <2>8, <2>9 DEF ManagerInv
<1> QED
  BY <1>5, <1>6

LEMMA WriteKeeps ==
  ASSUME Manager!GroupManagerAssumption, ManagerInv, Manager!Write PROVE ManagerInv'
BY WriteMembershipKeeps, WriteGroupKeeps, ListKeeps, ReplicaKeeps, TombstoneKeeps DEF
   Manager!Write

LEMMA TearKeeps ==
  ASSUME Manager!GroupManagerAssumption, ManagerInv, Manager!Tear PROVE ManagerInv'
<1>1. /\ ManagerTyped /\ OwnerStays
  BY DEF ManagerInv
<1>2. /\ work' = <<>> /\ torn' = TRUE /\ draft' = Manager!Nothing /\ group.state # "none"
      /\ memberships[group.owner].state # "none"
      /\ UNCHANGED <<group, memberships, replica, refreshing>>
  BY DEF Manager!Tear
<1>3. 1..Len(work') = {} /\ work' \in Seq(Writes)
  BY <1>2, EmptySeq
<1>4. ManagerTyped'
  BY <1>1, <1>2, <1>3, NothingIs DEF ManagerTyped
<1>5. OwnerStays'
  BY <1>1, <1>2, <1>3 DEF OwnerStays, Stays
<1>6. Fresh' /\ OwnerWrites' /\ Order' /\ Room' /\ EmptyOK'
  BY <1>2, <1>3 DEF Fresh, OwnerWrites, Order, Room, EmptyOK, Emptying
<1>7. Listing' /\ Listed'
  BY <1>2, <1>3 DEF Listing, Listed
<1> QED
  BY <1>4, <1>5, <1>6, <1>7 DEF ManagerInv

LEMMA RefreshKeeps ==
  ASSUME ManagerInv, Manager!Refresh PROVE ManagerInv'
<1>1. ManagerTyped
  BY DEF ManagerInv
<1>2. UNCHANGED <<group, memberships, work, draft, torn>>
  BY DEF Manager!Refresh
<1>3. ManagerTyped'
  <2>1. CASE refreshing.step = "none"
    BY <1>1, <1>2, <2>1 DEF Manager!Refresh, ManagerTyped
  <2>2. CASE refreshing.step = "list"
    <3>1. refreshing.version \in 0..MaxVersion
      BY <1>1, <2>2 DEF ManagerTyped
    <3>2. Manager!Snapshot(refreshing.version) \in Snapshots
      BY <1>1, <3>1 DEF Manager!Snapshot, Snapshots, ManagerTyped
    <3> QED
      BY <1>1, <1>2, <2>2, <3>2 DEF Manager!Refresh, ManagerTyped
  <2>3. CASE refreshing.step = "store"
    <3>1. refreshing.replica \in Snapshots
      BY <1>1, <2>3 DEF ManagerTyped
    <3>2. /\ replica' = refreshing.replica
          /\ refreshing' = [refreshing EXCEPT !.step = "done"]
      BY <2>3 DEF Manager!Refresh
    <3>3. refreshing \in [step : {"store", "done"}, replica : Snapshots]
      BY <1>1, <2>3 DEF ManagerTyped
    <3>4. refreshing' \in [step : {"store", "done"}, replica : Snapshots]
      BY <3>2, <3>3
    <3>5. replica' \in Snapshots
      BY <3>1, <3>2
    <3> QED
      BY <1>1, <1>2, <3>4, <3>5 DEF ManagerTyped
  <2>4. refreshing.step \in {"none", "list", "store", "done"}
    BY <1>1 DEF ManagerTyped
  <2> QED
    BY <2>1, <2>2, <2>3, <2>4 DEF Manager!Refresh
<1> QED
  BY <1>2, <1>3 DEF ManagerInv, Fresh, OwnerStays, OwnerWrites, Order, Room, EmptyOK,
     Listing, Listed, Stays, Joining, Owning, Ending, Emptying, Empty, Is,
     Manager!Snapshot

\* Between operations.
LEMMA Settled ==
  ASSUME ManagerInv, work = <<>>
  PROVE  /\ group.state \in Lives =>
              group.owner \in Users /\ memberships[group.owner].state \in Manager!InGroup
         /\ group.state = "deleted" /\ ~ torn =>
              \A u \in Users : memberships[u].state \in {"none", "deleted"}
         /\ group.state = "none" =>
              group.version = 0 /\ \A u \in Users : memberships[u].state = "none"
         /\ group.state # "none" => group.owner \in Users
         /\ group.state \in {"none"} \cup GroupStates
         /\ memberships \in [Users -> [state : States, role : Manager!Roles]]
<1>1. 1..Len(work) = {}
  OBVIOUS
<1>2. /\ Fresh /\ ManagerTyped /\ OwnerStays /\ EmptyOK
  BY DEF ManagerInv
<1>3. ~ Emptying
  BY <1>1 DEF Emptying
<1> QED
  BY <1>1, <1>2, <1>3 DEF OwnerStays, Stays, Joining, EmptyOK, Ending, Empty, Fresh,
     ManagerTyped, Lives

\* An operation that writes u's membership and then the record as it is.
LEMMA BecomeKeeps ==
  ASSUME ManagerInv, work = <<>>, group.version < MaxVersion, group.state # "none",
         group.state = "deleted" => torn,
         NEW u \in Users, NEW st \in States, NEW r \in Manager!Roles,
         u = group.owner => st \in Manager!InGroup, Manager!Become(u, st, r)
  PROVE  ManagerInv'
<1> DEFINE m == Manager!Member(u, st, r)
           g == GroupWrite(group.owner, group.state)
<1>1. /\ group.owner \in Users /\ group.state \in GroupStates
      /\ group.state \in Lives => memberships[group.owner].state \in Manager!InGroup
      /\ ManagerTyped
  BY Settled DEF ManagerInv
<1>2. UNCHANGED <<group, memberships, replica, draft, refreshing, torn>>
  BY DEF Manager!Become, Manager!Do
<1>3. m \in Writes /\ m.write = "membership" /\ m.user = u /\ m.state = st
  BY OtherWritesAre DEF Manager!Member
<1>4. /\ g.write = "group" /\ g.owner = group.owner /\ g.state = group.state
      /\ ListWrite.write = "list" /\ ReplicaWrite.write = "replica"
  BY DEF GroupWrite, ListWrite, ReplicaWrite
<1>5. /\ work' \in Seq(Writes) /\ Len(work') = 4 /\ work'[1] = m /\ work'[2] = g
      /\ work'[3] = ListWrite /\ work'[4] = ReplicaWrite
  <2>1. work' = BecomeWrites(m, group.owner, group.state)
    BY DEF Manager!Become, Manager!Do, BecomeWrites
  <2> HIDE DEF m
  <2> QED
    BY <1>1, <1>3, <2>1, BecomeQueue
<1> HIDE DEF m, g
<1>6. \A i \in 1..Len(work') :
        /\ (Is(i, "membership")' <=> i = 1) /\ (Is(i, "group")' <=> i = 2)
        /\ (Is(i, "list")' <=> i = 3) /\ (Is(i, "replica")' <=> i = 4)
        /\ ~ Is(i, "tombstones")'
  BY <1>3, <1>4, <1>5 DEF Is
<1>7. ManagerTyped'
  BY <1>1, <1>2, <1>5 DEF ManagerTyped
<1>8. Fresh'
  BY <1>2 DEF Fresh
<1>9. OwnerStays'
  BY <1>1, <1>2, <1>4, <1>5, <1>6 DEF OwnerStays, Stays
<1>10. OwnerWrites'
  BY <1>2, <1>3, <1>4, <1>5, <1>6 DEF OwnerWrites, Owning
<1>11. Order' /\ Room'
  BY <1>2, <1>5, <1>6 DEF Order, Room
<1>12. EmptyOK'
  BY <1>2, <1>4, <1>5, <1>6 DEF EmptyOK, Ending, Emptying
<1>13. Listing'
  <2>1. work' # <<>> => Is(Len(work), "replica")'
    BY <1>4, <1>5 DEF Is
  <2>2. \A i \in 1..Len(work') : Is(i, "list")' => i < Len(work') /\ Is(i + 1, "replica")'
    BY <1>4, <1>5, <1>6 DEF Is
  <2>3. \A i \in 1..Len(work') : Is(i, "replica")' /\ i # 1 => Is(i - 1, "list")'
    BY <1>4, <1>5, <1>6 DEF Is
  <2> QED
    BY <2>1, <2>2, <2>3 DEF Listing
<1>14. Listed'
  BY <1>3, <1>5 DEF Listed, Is
<1> QED
  BY <1>7, <1>8, <1>9, <1>10, <1>11, <1>12, <1>13, <1>14 DEF ManagerInv

\* An operation that writes the record only: edit, archive, restore.
LEMMA RecordKeeps ==
  ASSUME ManagerInv, work = <<>>, group.version < MaxVersion, group.state \in Lives,
         NEW s \in Lives, Manager!Do(Manager!Record(group.owner, s))
  PROVE  ManagerInv'
<1> DEFINE g == GroupWrite(group.owner, s)
<1>1. /\ group.owner \in Users /\ s \in GroupStates /\ group.state # "none"
      /\ memberships[group.owner].state \in Manager!InGroup /\ ManagerTyped
  BY Settled DEF ManagerInv, Lives, GroupStates
<1>2. UNCHANGED <<group, memberships, replica, draft, refreshing, torn>>
  BY DEF Manager!Do
<1>3. /\ g.write = "group" /\ g.owner = group.owner /\ g.state = s
      /\ ListWrite.write = "list" /\ ReplicaWrite.write = "replica"
  BY DEF GroupWrite, ListWrite, ReplicaWrite
<1>4. /\ work' \in Seq(Writes) /\ Len(work') = 3 /\ work'[1] = g
      /\ work'[2] = ListWrite /\ work'[3] = ReplicaWrite
  BY <1>1, RecordIs DEF Manager!Do
<1> HIDE DEF g
<1>5. \A i \in 1..Len(work') :
        /\ (Is(i, "group")' <=> i = 1) /\ (Is(i, "list")' <=> i = 2)
        /\ (Is(i, "replica")' <=> i = 3)
        /\ ~ Is(i, "tombstones")' /\ ~ Is(i, "membership")'
  BY <1>3, <1>4 DEF Is
<1>6. ManagerTyped' /\ Fresh'
  BY <1>1, <1>2, <1>4 DEF ManagerTyped, Fresh
<1>7. OwnerStays'
  BY <1>1, <1>2, <1>3, <1>4, <1>5 DEF OwnerStays, Stays
<1>8. OwnerWrites' /\ Order' /\ Room'
  BY <1>2, <1>4, <1>5 DEF OwnerWrites, Order, Room
<1>9. EmptyOK'
  BY <1>1, <1>2, <1>3, <1>4, <1>5 DEF EmptyOK, Ending, Emptying, Lives
<1>10. Listing' /\ Listed'
  <2>1. work' # <<>> => Is(Len(work), "replica")'
    BY <1>3, <1>4 DEF Is
  <2>2. \A i \in 1..Len(work') : Is(i, "list")' => i < Len(work') /\ Is(i + 1, "replica")'
    BY <1>3, <1>4, <1>5 DEF Is
  <2>3. \A i \in 1..Len(work') : Is(i, "replica")' /\ i # 1 => Is(i - 1, "list")'
    BY <1>3, <1>4, <1>5 DEF Is
  <2>4. Listed'
    BY <1>3, <1>4 DEF Listed, Is
  <2> QED
    BY <2>1, <2>2, <2>3, <2>4 DEF Listing
<1> QED
  BY <1>6, <1>7, <1>8, <1>9, <1>10 DEF ManagerInv

LEMMA DeleteKeeps ==
  ASSUME ManagerInv, NEW a \in Users, Manager!Delete(a)
  PROVE  ManagerInv'
<1> DEFINE g == GroupWrite(group.owner, "deleted")
<1>1. /\ work = <<>> /\ group.version < MaxVersion /\ group.state # "none"
      /\ UNCHANGED <<group, memberships, replica, draft, refreshing, torn>>
  BY DEF Manager!Delete, Manager!Unlocked, Manager!Do
<1>2. /\ group.owner \in Users /\ "deleted" \in GroupStates /\ ManagerTyped
      /\ group.state \in Lives => memberships[group.owner].state \in Manager!InGroup
  BY <1>1, Settled DEF ManagerInv, GroupStates
<1>3. /\ g.write = "group" /\ g.owner = group.owner /\ g.state = "deleted"
      /\ ListWrite.write = "list" /\ ReplicaWrite.write = "replica"
      /\ TombstoneWrite.write = "tombstones"
  BY DEF GroupWrite, ListWrite, ReplicaWrite, TombstoneWrite
<1>4. /\ work' \in Seq(Writes) /\ Len(work') = 4 /\ work'[1] = g
      /\ work'[2] = ListWrite /\ work'[3] = ReplicaWrite /\ work'[4] = TombstoneWrite
  <2>1. work' = DeleteWrites(group.owner, "deleted")
    BY DEF Manager!Delete, Manager!Do, DeleteWrites, TombstoneWrite
  <2> QED
    BY <1>2, <2>1, DeleteQueue
<1> HIDE DEF g
<1>5. \A i \in 1..Len(work') :
        /\ (Is(i, "group")' <=> i = 1) /\ (Is(i, "list")' <=> i = 2)
        /\ (Is(i, "replica")' <=> i = 3) /\ (Is(i, "tombstones")' <=> i = 4)
        /\ ~ Is(i, "membership")'
  BY <1>3, <1>4 DEF Is
<1>6. ManagerTyped' /\ Fresh'
  BY <1>1, <1>2, <1>4 DEF ManagerTyped, Fresh
<1>7. OwnerStays'
  BY <1>1, <1>2, <1>3, <1>4, <1>5 DEF OwnerStays, Stays, Lives
<1>8. OwnerWrites' /\ Order' /\ Room'
  BY <1>1, <1>3, <1>4, <1>5 DEF OwnerWrites, Order, Room
<1>9. EmptyOK'
  <2>1. 1 \in 1..Len(work') /\ 4 \in 1..Len(work')
    BY <1>4
  <2>2. Emptying'
    BY <1>5, <2>1 DEF Emptying
  <2>3. Ending'
    BY <1>3, <1>4, <1>5, <2>1 DEF Ending
  <2> QED
    BY <2>2, <2>3 DEF EmptyOK
<1>10. Listing' /\ Listed'
  <2>1. work' # <<>> => Is(Len(work), "tombstones")'
    BY <1>3, <1>4 DEF Is
  <2>2. \A i \in 1..Len(work') : Is(i, "list")' => i < Len(work') /\ Is(i + 1, "replica")'
    BY <1>3, <1>4, <1>5 DEF Is
  <2>3. \A i \in 1..Len(work') : Is(i, "replica")' /\ i # 1 => Is(i - 1, "list")'
    BY <1>3, <1>4, <1>5 DEF Is
  <2>4. Listed'
    BY <1>3, <1>4 DEF Listed, Is
  <2> QED
    BY <2>1, <2>2, <2>3, <2>4 DEF Listing
<1> QED
  BY <1>6, <1>7, <1>8, <1>9, <1>10 DEF ManagerInv

LEMMA TransferKeeps ==
  ASSUME ManagerInv, NEW u \in Users, Manager!Transfer(u)
  PROVE  ManagerInv'
<1> DEFINE g == GroupWrite(u, group.state)
           m == Manager!Member(u, memberships[u].state, "owner")
           n == Manager!Member(group.owner, memberships[group.owner].state, "administrator")
<1>1. /\ work = <<>> /\ group.version < MaxVersion /\ group.state = "active"
      /\ memberships[u].state \in Manager!InGroup
      /\ UNCHANGED <<group, memberships, replica, draft, refreshing, torn>>
  BY DEF Manager!Transfer, Manager!Active, Manager!Unlocked, Manager!Do
<1>2. /\ group.owner \in Users /\ group.state \in GroupStates /\ ManagerTyped
      /\ memberships[group.owner].state \in Manager!InGroup
      /\ memberships[u].state \in States /\ memberships[group.owner].state \in States
  BY <1>1, Settled DEF ManagerInv, GroupStates, Lives
<1>3. /\ g.write = "group" /\ g.owner = u /\ g.state = "active"
      /\ ListWrite.write = "list" /\ ReplicaWrite.write = "replica"
  BY <1>1 DEF GroupWrite, ListWrite, ReplicaWrite
<1>4. /\ m \in Writes /\ n \in Writes /\ m.write = "membership" /\ n.write = "membership"
      /\ m.state \in Manager!InGroup /\ n.state \in Manager!InGroup
  <2>1. "owner" \in Manager!Roles /\ "administrator" \in Manager!Roles
    BY DEF Manager!Roles
  <2> QED
    BY <1>1, <1>2, <2>1, OtherWritesAre DEF Manager!Member
<1>5. /\ work' \in Seq(Writes) /\ Len(work') = 5 /\ work'[1] = m /\ work'[2] = n
      /\ work'[3] = g /\ work'[4] = ListWrite /\ work'[5] = ReplicaWrite
  <2>1. work' = TransferWrites(m, n, u, group.state)
    BY DEF Manager!Transfer, Manager!Do, TransferWrites
  <2> HIDE DEF m, n
  <2> QED
    BY <1>2, <1>4, <2>1, TransferQueue
<1> HIDE DEF g, m, n
<1>6. \A i \in 1..Len(work') :
        /\ (Is(i, "membership")' <=> i \in {1, 2}) /\ (Is(i, "group")' <=> i = 3)
        /\ (Is(i, "list")' <=> i = 4) /\ (Is(i, "replica")' <=> i = 5)
        /\ ~ Is(i, "tombstones")'
  BY <1>3, <1>4, <1>5 DEF Is
<1>7. ManagerTyped' /\ Fresh'
  BY <1>1, <1>2, <1>5 DEF ManagerTyped, Fresh
<1>8. OwnerStays'
  BY <1>1, <1>2, <1>3, <1>5, <1>6 DEF OwnerStays, Stays
<1>9. OwnerWrites'
  BY <1>4, <1>5, <1>6 DEF OwnerWrites
<1>10. Order' /\ Room'
  BY <1>1, <1>5, <1>6 DEF Order, Room
<1>11. EmptyOK'
  BY <1>1, <1>3, <1>5, <1>6 DEF EmptyOK, Ending, Emptying
<1>12. Listing' /\ Listed'
  <2>1. work' # <<>> => Is(Len(work), "replica")'
    BY <1>3, <1>5 DEF Is
  <2>2. \A i \in 1..Len(work') : Is(i, "list")' => i < Len(work') /\ Is(i + 1, "replica")'
    BY <1>3, <1>5, <1>6 DEF Is
  <2>3. \A i \in 1..Len(work') : Is(i, "replica")' /\ i # 1 => Is(i - 1, "list")'
    BY <1>3, <1>5, <1>6 DEF Is
  <2>4. Listed'
    BY <1>4, <1>5 DEF Listed, Is
  <2> QED
    BY <2>1, <2>2, <2>3, <2>4 DEF Listing
<1> QED
  BY <1>7, <1>8, <1>9, <1>10, <1>11, <1>12 DEF ManagerInv

LEMMA CreateKeeps ==
  ASSUME Manager!GroupManagerAssumption, MaxVersion # 0, ManagerInv,
         NEW u \in Users, Manager!Create(u)
  PROVE  ManagerInv'
<1> DEFINE g == GroupWrite(u, "active")
           m == Manager!Member(u, "active", "owner")
<1>1. /\ work = <<>> /\ group.state = "none"
      /\ UNCHANGED <<group, memberships, replica, draft, refreshing, torn>>
  BY DEF Manager!Create, Manager!Do
<1>2. /\ ManagerTyped /\ group.version = 0 /\ 0 < MaxVersion
      /\ \A v \in Users : memberships[v].state = "none"
  BY <1>1, Settled DEF ManagerInv, Manager!GroupManagerAssumption
<1>3. /\ g.write = "group" /\ g.owner = u /\ g.state = "active"
      /\ ListWrite.write = "list" /\ ReplicaWrite.write = "replica"
  BY DEF GroupWrite, ListWrite, ReplicaWrite
<1>4. \A v \in Users, r \in Manager!Roles :
        /\ Manager!Member(v, "active", r) \in Writes /\ Manager!Member(v, "active", r).user = v
        /\ Manager!Member(v, "active", r).write = "membership"
        /\ Manager!Member(v, "active", r).state = "active"
  <2>1. "active" \in States
    BY DEF States, Manager!Moves
  <2> QED
    BY <2>1, OtherWritesAre DEF Manager!Member
<1>5. /\ m \in Writes /\ m.write = "membership" /\ m.user = u /\ m.state = "active"
  BY <1>4 DEF Manager!Roles
<1>6. PICK others \in {<<>>} \cup {<<Manager!Member(o, "active", r)>> :
                                      o \in Users \ {u}, r \in Manager!Roles} :
        work' = CreateWrites(u, m, others)
  <2>1. PICK others \in {<<>>} \cup {<<Manager!Member(o, "active", r)>> :
                                      o \in Users \ {u}, r \in Manager!Roles} :
          Manager!Do(<<Manager!Record(u, "active")[1], Manager!Member(u, "active", "owner")>>
             \o others \o <<[write |-> "list"], [write |-> "replica"]>>)
    BY DEF Manager!Create
  <2>2. work' = CreateWrites(u, m, others)
    BY <2>1 DEF Manager!Do, CreateWrites, ListWrite, ReplicaWrite
  <2> QED
    BY <2>2
<1> HIDE DEF g, m
<1>7. /\ work' \in Seq(Writes) /\ Len(work') >= 4 /\ Len(work') \in Nat
      /\ work'[1] = g /\ work'[2] = m
      /\ work'[Len(work')] = ReplicaWrite /\ work'[Len(work') - 1] = ListWrite
      /\ \A i \in 1..Len(work') : i \in {1, Len(work') - 1, Len(work')}
            \/ (work'[i].write = "membership" /\ work'[i].state = "active")
  <2>1. CASE others = <<>>
    <3>1. /\ work' \in Seq(Writes) /\ Len(work') = 4 /\ work'[1] = g
          /\ work'[2] = m /\ work'[3] = ListWrite /\ work'[4] = ReplicaWrite
      BY <1>5, <1>6, <2>1, CreateQueue DEF g
    <3> QED
      BY <1>5, <3>1
  <2>2. CASE others # <<>>
    <3>1. PICK o \in Users, r \in Manager!Roles : others = <<Manager!Member(o, "active", r)>>
      BY <1>6, <2>2
    <3> DEFINE n == Manager!Member(o, "active", r)
    <3>2. n \in Writes /\ n.write = "membership" /\ n.state = "active" /\ others = <<n>>
      BY <1>4, <3>1
    <3> HIDE DEF n
    <3>3. /\ work' \in Seq(Writes) /\ Len(work') = 5 /\ work'[1] = g
          /\ work'[2] = m /\ work'[3] = n /\ work'[4] = ListWrite /\ work'[5] = ReplicaWrite
      BY <1>5, <1>6, <3>2, CreateQueue DEF g
    <3> QED
      BY <1>5, <3>2, <3>3
  <2> QED
    BY <2>1, <2>2
<1>8. \A i \in 1..Len(work') :
        /\ (Is(i, "group")' <=> i = 1) /\ (Is(i, "list")' <=> i = Len(work') - 1)
        /\ (Is(i, "replica")' <=> i = Len(work'))
        /\ ~ Is(i, "tombstones")'
  BY <1>3, <1>7 DEF Is
<1>9. ManagerTyped' /\ Fresh'
  BY <1>1, <1>2, <1>3, <1>7 DEF ManagerTyped, Fresh, Is
<1>10. OwnerStays'
  <2>1. 2 \in 1..Len(work') /\ Is(2, "membership")' /\ work'[2].user = u
    BY <1>5, <1>7 DEF Is
  <2>2. memberships'[u].state = "none" /\ work'[1].owner = u
    BY <1>1, <1>2, <1>3, <1>7
  <2>3. ASSUME NEW i \in 1..Len(work'), Is(i, "group")' PROVE Stays(work[i].owner)'
    <3>1. work'[i].owner = u
      BY <1>8, <2>2, <2>3
    <3> QED
      BY <2>1, <2>2, <3>1 DEF Stays, Joining
  <2>4. group'.state \notin Lives
    BY <1>1 DEF Lives
  <2> QED
    BY <2>3, <2>4 DEF OwnerStays
<1>11. OwnerWrites'
  BY <1>3, <1>7 DEF OwnerWrites, Is, Manager!InGroup, ListWrite, ReplicaWrite
<1>12. Order' /\ Room'
  BY <1>1, <1>2, <1>7, <1>8 DEF Order, Room
<1>13. EmptyOK'
  BY <1>1, <1>3, <1>7, <1>8 DEF EmptyOK, Ending, Emptying
<1>14. Listing' /\ Listed'
  <2>1. work' # <<>> => Is(Len(work), "replica")'
    BY <1>3, <1>7 DEF Is
  <2>2. \A i \in 1..Len(work') : Is(i, "list")' => i < Len(work') /\ Is(i + 1, "replica")'
    BY <1>3, <1>7, <1>8 DEF Is
  <2>3. \A i \in 1..Len(work') : Is(i, "replica")' /\ i # 1 => Is(i - 1, "list")'
    BY <1>3, <1>7, <1>8 DEF Is
  <2>4. Listed'
    BY <1>3, <1>7 DEF Listed, Is
  <2> QED
    BY <2>1, <2>2, <2>3, <2>4 DEF Listing
<1> QED
  BY <1>9, <1>10, <1>11, <1>12, <1>13, <1>14 DEF ManagerInv

LEMMA InviteKeeps ==
  ASSUME ManagerInv, NEW a \in Users, NEW u \in Users, NEW r \in Manager!Roles,
         Manager!Invite(a, u, r)
  PROVE  ManagerInv'
<1>1. /\ work = <<>> /\ group.version < MaxVersion /\ group.state = "active"
      /\ Manager!Become(u, "invited", r)
      /\ memberships[u].state # "none" =>
           memberships[u].state # "invited" /\ Manager!CanBecome(u, "invited")
  BY DEF Manager!Invite, Manager!Active, Manager!Unlocked
<1>2. u # group.owner
  BY <1>1, Settled DEF Manager!CanBecome, Manager!Moves, Manager!InGroup, Lives
<1>3. "invited" \in States
  BY DEF States, Manager!Moves
<1> QED
  BY <1>1, <1>2, <1>3, BecomeKeeps

LEMMA AnswerKeeps ==
  ASSUME ManagerInv, NEW u \in Users,
         Manager!Accept(u) \/ Manager!Reject(u) \/ \E a \in Users : Manager!Approve(a, u)
  PROVE  ManagerInv'
<1>1. /\ work = <<>> /\ group.version < MaxVersion /\ group.state = "active"
      /\ memberships[u].state \in {"invited", "pending"}
      /\ \E st \in {"active", "left"} : Manager!Become(u, st, memberships[u].role)
  BY DEF Manager!Accept, Manager!Reject, Manager!Approve, Manager!Active,
     Manager!Unlocked
<1>2. u # group.owner /\ memberships[u].role \in Manager!Roles
  BY <1>1, Settled DEF Manager!InGroup, Lives
<1>3. "active" \in States /\ "left" \in States
  BY DEF States, Manager!Moves
<1> QED
  BY <1>1, <1>2, <1>3, BecomeKeeps

LEMMA JoinKeeps ==
  ASSUME ManagerInv, NEW u \in Users, Manager!Join(u)
  PROVE  ManagerInv'
<1>1. /\ work = <<>> /\ group.version < MaxVersion /\ group.state = "active"
      /\ memberships[u].state \notin Manager!InGroup
      /\ \E st \in {"active", "pending"} : Manager!Become(u, st, memberships[u].role)
  BY DEF Manager!Join, Manager!Active, Manager!Unlocked
<1>2. u # group.owner /\ memberships[u].role \in Manager!Roles
  BY <1>1, Settled DEF Lives
<1>3. "active" \in States /\ "pending" \in States
  BY DEF States, Manager!Moves
<1> QED
  BY <1>1, <1>2, <1>3, BecomeKeeps

LEMMA LeaveKeeps ==
  ASSUME ManagerInv, NEW u \in Users, Manager!Leave(u)
  PROVE  ManagerInv'
<1>1. /\ work = <<>> /\ group.version < MaxVersion /\ group.state # "none" /\ u # group.owner
      /\ Manager!CanBecome(u, "left") /\ Manager!Become(u, "left", memberships[u].role)
  BY DEF Manager!Leave, Manager!Unlocked
<1>2. /\ memberships[u].role \in Manager!Roles /\ "left" \in States
      /\ memberships[u].state \notin {"none", "deleted"}
  BY <1>1, Settled DEF Manager!CanBecome, States, Manager!Moves
<1>3. group.state = "deleted" => torn
  BY <1>1, <1>2, Settled
<1> QED
  BY <1>1, <1>2, <1>3, BecomeKeeps

LEMMA AdministerKeeps ==
  ASSUME ManagerInv, NEW a \in Users, NEW u \in Users,
         NEW st \in {"removed", "banned", "muted", "active"}, Manager!Administer(a, u, st)
  PROVE  ManagerInv'
<1>1. /\ work = <<>> /\ group.version < MaxVersion /\ group.state = "active" /\ u # group.owner
      /\ Manager!Become(u, st, memberships[u].role)
  BY DEF Manager!Administer, Manager!Active, Manager!Unlocked
<1>2. memberships[u].role \in Manager!Roles /\ st \in States
  BY <1>1, Settled DEF States, Manager!Moves
<1> QED
  BY <1>1, <1>2, BecomeKeeps

LEMMA ChangeRoleKeeps ==
  ASSUME ManagerInv, NEW a \in Users, NEW u \in Users, NEW r \in Manager!Roles,
         Manager!ChangeRole(a, u, r)
  PROVE  ManagerInv'
<1>1. /\ work = <<>> /\ group.version < MaxVersion /\ group.state = "active" /\ u # group.owner
      /\ Manager!Become(u, memberships[u].state, r)
  BY DEF Manager!ChangeRole, Manager!Active, Manager!Unlocked
<1>2. memberships[u].state \in States
  BY <1>1, Settled
<1> QED
  BY <1>1, <1>2, BecomeKeeps

LEMMA EditKeeps ==
  ASSUME ManagerInv, NEW u \in Users,
         Manager!Edit(u) \/ Manager!Archive(u) \/ Manager!Restore(u)
  PROVE  ManagerInv'
<1>1. /\ work = <<>> /\ group.version < MaxVersion /\ group.state \in Lives
      /\ \E s \in Lives : Manager!Do(Manager!Record(group.owner, s))
  BY DEF Manager!Edit, Manager!Archive, Manager!Restore, Manager!Active,
     Manager!Unlocked, Lives
<1> QED
  BY <1>1, RecordKeeps

LEMMA ManagerStep ==
  ASSUME Manager!GroupManagerAssumption, MaxVersion # 0, ManagerInv,
         [Manager!Next]_Manager!vars
  PROVE  ManagerInv'
<1>1. CASE UNCHANGED Manager!vars
  BY <1>1 DEF Manager!vars, ManagerInv, ManagerTyped, Fresh, OwnerStays, OwnerWrites,
     Order, Room, EmptyOK, Listing, Listed, Stays, Joining, Owning, Ending, Emptying,
     Empty, Is, Manager!Snapshot
<1>2. CASE Manager!Write
  BY <1>2, WriteKeeps
<1>3. CASE Manager!Tear
  BY <1>3, TearKeeps
<1>4. CASE Manager!Refresh
  BY <1>4, RefreshKeeps
<1>5. ASSUME NEW u \in Users,
             \/ Manager!Create(u) \/ Manager!Accept(u) \/ Manager!Reject(u) \/ Manager!Join(u)
             \/ Manager!Leave(u) \/ Manager!Transfer(u)
             \/ Manager!Edit(u) \/ Manager!Archive(u) \/ Manager!Restore(u) \/ Manager!Delete(u)
      PROVE  ManagerInv'
  BY <1>5, CreateKeeps, AnswerKeeps, JoinKeeps, LeaveKeeps, TransferKeeps, EditKeeps,
     DeleteKeeps
<1>6. ASSUME NEW u \in Users, NEW a \in Users,
             \/ Manager!Approve(a, u)
             \/ \E state \in {"removed", "banned", "muted", "active"} : Manager!Administer(a, u, state)
             \/ \E role \in Manager!Roles : Manager!Invite(a, u, role) \/ Manager!ChangeRole(a, u, role)
      PROVE  ManagerInv'
  BY <1>6, AnswerKeeps, AdministerKeeps, InviteKeeps, ChangeRoleKeeps
<1> QED
  BY <1>1, <1>2, <1>3, <1>4, <1>5, <1>6 DEF Manager!Next

LEMMA ManagerMeans ==
  ASSUME Manager!GroupManagerAssumption, ManagerInv
  PROVE  Manager!OwnerIsIn /\ Manager!DeletedIsEmpty
<1>1. Fresh /\ ManagerTyped /\ OwnerStays /\ EmptyOK
  BY DEF ManagerInv
<1>2. Manager!OwnerIsIn
  BY <1>1 DEF Manager!OwnerIsIn, OwnerStays, Lives, Stays
<1>3. Manager!DeletedIsEmpty
  BY Settled DEF Manager!DeletedIsEmpty
<1> QED
  BY <1>2, <1>3

\* A sequence whose tail is empty.
LEMMA LastOne ==
  ASSUME NEW S, NEW s \in Seq(S), s # <<>>, Tail(s) = <<>>
  PROVE  Len(s) = 1
<1>1. Len(Tail(s)) = 0
  <2>1. Len(<<>>) = 0
    OBVIOUS
  <2> QED
    BY <2>1, Zenon
<1>2. Len(Tail(s)) = Len(s) - 1 /\ Len(s) \in Nat
  BY HeadTailProperties
<1> QED
  BY <1>1, <1>2

\* Who ends an operation has just stored the replica, or deleted the group.
LEMMA StepShows ==
  ASSUME ManagerInv, Manager!ReplicaShowsGroup, [Manager!Next]_Manager!vars
  PROVE  Manager!ReplicaShowsGroup'
<1> USE DEF Manager!ReplicaShowsGroup, Manager!Refreshed, Manager!Snapshot
<1>1. Listing /\ Listed /\ Order /\ EmptyOK /\ work \in Seq(Writes)
  BY DEF ManagerInv, ManagerTyped
<1>2. CASE UNCHANGED Manager!vars
  BY <1>2 DEF Manager!vars
<1>3. CASE Manager!Write
  <2> SUFFICES ASSUME work' = <<>>, group'.state \in {"active", "archived"}
               PROVE  replica' = [version |-> group'.version, memberships |-> memberships']
    OBVIOUS
  <2>1. /\ work # <<>> /\ Head(work) = work[1] /\ work' \in {work, Tail(work)}
    BY <1>1, <1>3, HeadTailProperties DEF Manager!Write, Manager!WriteMembership,
       Manager!WriteGroup, Manager!ListMemberships, Manager!WriteReplica,
       Manager!WriteTombstone
  <2>2. Len(work) = 1
    <3>1. Tail(work) = <<>>
      BY <2>1
    <3> QED
      BY <1>1, <2>1, <3>1, LastOne
  <2>3. Is(1, "replica") \/ Is(1, "tombstones")
    BY <1>1, <2>1, <2>2 DEF Listing
  <2>4. CASE Is(1, "replica")
    <3>1. Manager!WriteReplica(Head(work))
      BY <1>3, <2>1, <2>4 DEF Manager!Write, Manager!WriteMembership,
         Manager!WriteGroup, Manager!ListMemberships, Manager!WriteTombstone, Is
    <3>2. draft = Manager!Snapshot(group.version)
      BY <1>1, <2>1, <2>4 DEF Listed
    <3> QED
      BY <3>1, <3>2 DEF Manager!WriteReplica
  <2>5. CASE Is(1, "tombstones")
    <3>1. Manager!WriteTombstone(Head(work))
      BY <1>3, <2>1, <2>5 DEF Manager!Write, Manager!WriteMembership,
         Manager!WriteGroup, Manager!ListMemberships, Manager!WriteReplica, Is
    <3>2. group.state = "deleted"
      <4>1. Ending
        BY <1>1, <2>2, <2>5 DEF EmptyOK, Emptying
      <4>2. \A j \in 1..Len(work) : ~ Is(j, "group")
        BY <2>2, <2>5 DEF Is
      <4> QED
        BY <4>1, <4>2 DEF Ending
    <3> QED
      BY <3>1, <3>2 DEF Manager!WriteTombstone
  <2> QED
    BY <2>3, <2>4, <2>5
<1>4. CASE Manager!Tear
  BY <1>4 DEF Manager!Tear
<1>5. CASE Manager!Refresh
  <2>1. refreshing.step \in {"none", "list", "store", "done"}
    BY DEF ManagerInv, ManagerTyped
  <2>2. CASE refreshing.step = "store"
    <3>1. refreshing \in [step : {"store"}, replica : Snapshots]
      BY <2>2 DEF ManagerInv, ManagerTyped
    <3> QED
      BY <1>5, <2>2, <3>1 DEF Manager!Refresh
  <2>3. CASE refreshing.step \in {"none", "list"}
    BY <1>5, <2>3 DEF Manager!Refresh
  <2> QED
    BY <1>5, <2>1, <2>2, <2>3 DEF Manager!Refresh
<1>6. ASSUME work = <<>>, UNCHANGED <<group, memberships, replica, refreshing, torn>>
      PROVE  Manager!ReplicaShowsGroup'
  BY <1>6
<1>7. ASSUME NEW u \in Users,
             \/ Manager!Create(u) \/ Manager!Accept(u) \/ Manager!Reject(u) \/ Manager!Join(u)
             \/ Manager!Leave(u) \/ Manager!Transfer(u)
             \/ Manager!Edit(u) \/ Manager!Archive(u) \/ Manager!Restore(u) \/ Manager!Delete(u)
      PROVE  Manager!ReplicaShowsGroup'
  BY <1>6, <1>7 DEF Manager!Create, Manager!Accept, Manager!Reject, Manager!Join,
     Manager!Leave, Manager!Transfer, Manager!Edit, Manager!Archive,
     Manager!Restore, Manager!Delete, Manager!Active, Manager!Unlocked,
     Manager!Become, Manager!Do
<1>8. ASSUME NEW u \in Users, NEW a \in Users,
             \/ Manager!Approve(a, u)
             \/ \E state \in {"removed", "banned", "muted", "active"} : Manager!Administer(a, u, state)
             \/ \E role \in Manager!Roles : Manager!Invite(a, u, role) \/ Manager!ChangeRole(a, u, role)
      PROVE  Manager!ReplicaShowsGroup'
  BY <1>6, <1>8 DEF Manager!Approve, Manager!Administer, Manager!Invite,
     Manager!ChangeRole, Manager!Active, Manager!Unlocked, Manager!Become, Manager!Do
<1> QED
  BY <1>2, <1>3, <1>4, <1>5, <1>7, <1>8 DEF Manager!Next

\* Whatever sequence of invitations, transfers, departures, deletions and
\* operations that fail half way, in a public group and in a private one, the
\* owner a living group names is in it (assertNotOwner, transferOwnership).
THEOREM OwnerStaysIn ==
  ASSUME Manager!GroupManagerAssumption, MaxVersion # 0
  PROVE  Manager!Spec => []Manager!OwnerIsIn
BY InitManager, ManagerStep, ManagerMeans, PTL DEF Manager!Spec
\* Once deleteGroup has gone through, nobody is in the group, and no request
\* that is decided later brings anybody in.
THEOREM DeletedStaysEmpty ==
  ASSUME Manager!GroupManagerAssumption, MaxVersion # 0
  PROVE  Manager!Spec => []Manager!DeletedIsEmpty
BY InitManager, ManagerStep, ManagerMeans, PTL DEF Manager!Spec
\* Between operations the stored replica shows a living group as it is, although
\* each was built from a list read before, unless an operation failed half way or
\* a refresh outside the lock has stored last (_refreshReplica).
THEOREM OperationsShow ==
  ASSUME Manager!GroupManagerAssumption, MaxVersion # 0
  PROVE  Manager!Spec => []Manager!ReplicaShowsGroup
<1>1. Manager!Init => Manager!ReplicaShowsGroup
  BY DEF Manager!Init, Manager!ReplicaShowsGroup
<1> QED
  BY <1>1, InitManager, ManagerStep, StepShows, PTL DEF Manager!Spec

-----------------------------------------------------------------------------
(* The key of a group (GroupKeys). *)

KeyRecords ==
  [state : {"none", "active", "superseded", "expired"},
   for : SUBSET Users, knows : SUBSET Users]
Changing == {"join", "leave"}
KeyCalls ==
  {Epochs!Idle}
  \cup [op : {"look"}, trigger : Changing]
  \cup [op : {"wait"}, trigger : Epochs!Triggers]
  \cup [op : {"draw"}, trigger : Epochs!Triggers, for : SUBSET Users]
  \cup [op : {"store"}, old : 0..MaxVersion, for : SUBSET Users,
        knows : SUBSET Users]
  \cup [op : {"supersede"}, old : 0..MaxVersion]
Holding == {"draw", "store", "supersede"}

KeysTyped ==
  /\ members \subseteq Users /\ secret \subseteq Users /\ missed \in BOOLEAN
  /\ keys \in [Epochs!Versions -> KeyRecords]
  /\ calls \in [Callers -> KeyCalls]
  /\ lock \in Callers \cup {Epochs!NoOne}
  /\ \A c \in Callers : calls[c].op \in Holding <=> lock = c

\* Versions are taken in order, and only the last one taken is in use, but for
\* the one that is being superseded.
IsActive(v) == keys[v].state = "active"
Replaced(v) == \E c \in Callers : calls[c].op = "supersede" /\ calls[c].old = v
InOrder ==
  /\ \A v, w \in Epochs!Versions : w < v /\ keys[v] # Epochs!NoKey => keys[w] # Epochs!NoKey
  /\ \A v \in Epochs!Versions : IsActive(v) /\ ~ Replaced(v) =>
       \A w \in Epochs!Versions : w > v => keys[w] = Epochs!NoKey
  /\ \A c \in Callers :
       /\ calls[c].op \in {"store", "supersede"} /\ calls[c].old # 0 =>
            calls[c].old \in Epochs!Versions /\ keys[calls[c].old] # Epochs!NoKey
       /\ calls[c].op = "store" =>
            \A v \in Epochs!Versions : IsActive(v) => v = calls[c].old
       /\ calls[c].op = "supersede" =>
            /\ calls[c].old + 1 \in Epochs!Versions /\ keys[calls[c].old + 1] # Epochs!NoKey
            /\ \A v \in Epochs!Versions : IsActive(v) => v \in {calls[c].old, calls[c].old + 1}

\* A change of the members is still to be handled; one of them a departure.
Pending ==
  \E c \in Callers : calls[c].op \in {"look", "wait"} /\ calls[c].trigger \in Changing
PendingLeave ==
  \E c \in Callers : calls[c].op \in {"look", "wait"} /\ calls[c].trigger = "leave"
Fits(S) == S = members \/ Pending
Among(S) == S \subseteq members \/ PendingLeave

\* A rotation that will replace version v, and one that renews the secret.
Renewing == \E c \in Callers : calls[c].op = "draw" /\ calls[c].trigger = "leave"
Replacing(v) == \E c \in Callers : calls[c].op = "store" /\ calls[c].old = v
Rotating(v) ==
  Replacing(v)
    \/ \E c \in Callers : calls[c].op = "draw" /\ calls[c].trigger # "establish"

\* Who a key was made for, and who can derive it.
FitInv ==
  /\ Among(secret) \/ Renewing
  /\ \A c \in Callers :
       /\ calls[c].op \in {"draw", "store"} =>
            Fits(calls[c].for) /\ Among(calls[c].for)
       /\ calls[c].op = "store" =>
            calls[c].knows = secret /\ calls[c].for \subseteq calls[c].knows
  /\ \A v \in Epochs!Versions : IsActive(v) /\ ~ Replaced(v) =>
       /\ keys[v].for \subseteq keys[v].knows
       /\ Fits(keys[v].for) \/ Rotating(v)
       /\ Among(keys[v].knows) \/ Renewing \/ Replacing(v)

GroupKeyInv == KeysTyped /\ InOrder /\ (~ missed => FitInv)

\* The versions of a key are numbers from 1.
LEMMA VersionsAreNumbers ==
  ASSUME Epochs!GroupKeysAssumption
  PROVE  /\ MaxVersion \in Nat /\ Epochs!Versions = 1..MaxVersion
         /\ \A v \in Epochs!Versions : v \in Nat /\ v # 0 /\ v \in 0..MaxVersion
<1>1. MaxVersion \in {MaxVersion, MaxChanges, MaxExpired}
  OBVIOUS
<1>2. MaxVersion \in Nat
  BY <1>1 DEF Epochs!GroupKeysAssumption
<1> QED
  BY <1>2 DEF Epochs!Versions

\* A group has no key at first.
LEMMA InitKeys ==
  ASSUME Epochs!GroupKeysAssumption, Epochs!Init PROVE GroupKeyInv
<1>1. Epochs!NoKey \in KeyRecords /\ Epochs!NoKey.state = "none"
  BY DEF Epochs!NoKey, KeyRecords
<1>2. Epochs!Idle \in KeyCalls /\ Epochs!Idle.op = "idle"
  BY DEF Epochs!Idle, KeyCalls
<1>3. KeysTyped
  BY <1>1, <1>2 DEF Epochs!Init, KeysTyped, Epochs!GroupKeysAssumption, Epochs!NoOne,
     Holding
<1>4. InOrder
  BY <1>1, <1>2 DEF Epochs!Init, InOrder, IsActive
<1>5. FitInv
  BY <1>1, <1>2 DEF Epochs!Init, FitInv, IsActive, Among
<1> QED
  BY <1>3, <1>4, <1>5 DEF GroupKeyInv

\* What is known of the call of c, and of the others when it goes on.
Goes(c, call) == calls' = [calls EXCEPT ![c] = call]

\* A call goes on, the others stay where they are.
LEMMA CallGoes ==
  ASSUME KeysTyped, NEW c \in Callers, NEW call \in KeyCalls, Goes(c, call)
  PROVE  /\ calls' \in [Callers -> KeyCalls] /\ calls'[c] = call
         /\ \A d \in Callers : d # c => calls'[d] = calls[d]
BY DEF KeysTyped, Goes

\* Only the holder of the lock is at work on the key.
LEMMA OneHolder ==
  ASSUME KeysTyped, NEW c \in Callers, NEW d \in Callers, calls[c].op \in Holding,
         calls[d].op \in Holding
  PROVE  c = d
BY DEF KeysTyped

\* At rest, and until a new key is stored, one version is active at most.
LEMMA OneActive ==
  ASSUME Epochs!GroupKeysAssumption, KeysTyped, InOrder, NEW v \in Epochs!Versions,
         NEW w \in Epochs!Versions,
         IsActive(v), IsActive(w), ~ Replaced(v), ~ Replaced(w)
  PROVE  v = w
<1>1. v \in Nat /\ w \in Nat /\ keys[v] # Epochs!NoKey /\ keys[w] # Epochs!NoKey
  BY VersionsAreNumbers DEF IsActive, Epochs!NoKey
<1> QED
  BY <1>1 DEF InOrder

\* findActive.
LEMMA ActiveIs ==
  ASSUME Epochs!GroupKeysAssumption, KeysTyped, InOrder,
         \A v \in Epochs!Versions : ~ Replaced(v)
  PROVE  /\ Epochs!Active \in 0..MaxVersion
         /\ Epochs!Active # 0 => Epochs!Active \in Epochs!Versions /\ IsActive(Epochs!Active)
         /\ \A v \in Epochs!Versions : IsActive(v) => Epochs!Active = v
<1>1. Epochs!ActiveVersions = {v \in Epochs!Versions : IsActive(v)}
  BY DEF Epochs!ActiveVersions, IsActive
<1>2. CASE Epochs!ActiveVersions = {}
  BY <1>1, <1>2, VersionsAreNumbers DEF Epochs!Active, Epochs!Newest
<1>3. CASE Epochs!ActiveVersions # {}
  <2>1. PICK v \in Epochs!Versions : IsActive(v)
    BY <1>1, <1>3
  <2>2. \A w \in Epochs!Versions : IsActive(w) => w = v
    BY <2>1, OneActive
  <2>3. v \in Nat /\ v # 0 /\ v \in 0..MaxVersion
    BY VersionsAreNumbers
  <2>4. Epochs!ActiveVersions = {v}
    BY <1>1, <2>1, <2>2
  <2>5. Epochs!Newest({v}) = v
    BY <2>3 DEF Epochs!Newest
  <2> QED
    BY <2>1, <2>2, <2>3, <2>4, <2>5 DEF Epochs!Active
<1> QED
  BY <1>2, <1>3

\* A change of the members; its handler has yet to look.
LEMMA ChangeKeeps ==
  ASSUME GroupKeyInv, NEW c \in Callers, NEW trigger \in Changing,
         NEW changed \in SUBSET Users, Epochs!Change(c, trigger, changed),
         trigger = "join" => members \subseteq changed
  PROVE  GroupKeyInv'
<1> PICK call : call = [op |-> "look", trigger |-> trigger]
  OBVIOUS
<1>1. /\ members' = changed /\ Goes(c, call) /\ calls[c].op = "idle"
      /\ UNCHANGED <<keys, secret, lock, missed>>
  BY DEF Epochs!Change, Epochs!Busy, Goes, Epochs!Idle
<1>2. call \in KeyCalls /\ call.op = "look" /\ call.trigger = trigger
  BY DEF KeyCalls
<1>3. KeysTyped
  BY DEF GroupKeyInv
<1>4. /\ calls' \in [Callers -> KeyCalls] /\ calls'[c] = call
      /\ \A d \in Callers : d # c => calls'[d] = calls[d]
  BY <1>1, <1>2, <1>3, CallGoes
<1>5. KeysTyped'
  BY <1>1, <1>2, <1>3, <1>4 DEF KeysTyped, Holding
<1>6. /\ \A v : Replaced(v)' <=> Replaced(v)
      /\ \A v : Replacing(v)' <=> Replacing(v)
      /\ \A v : Rotating(v)' <=> Rotating(v)
      /\ \A v : IsActive(v)' <=> IsActive(v)
      /\ Renewing' <=> Renewing
  BY <1>1, <1>2, <1>4 DEF Replaced, Replacing, Rotating, Renewing, IsActive
<1>7. InOrder'
  BY <1>1, <1>2, <1>4, <1>6 DEF GroupKeyInv, InOrder
<1>8. Pending' /\ (trigger = "leave" => PendingLeave') /\ (PendingLeave => PendingLeave')
  BY <1>1, <1>2, <1>4 DEF Pending, PendingLeave
<1>9. \A S : Fits(S)' /\ (Among(S) => Among(S)')
  BY <1>1, <1>8 DEF Fits, Among, Changing
<1>10. FitInv => FitInv'
  BY <1>1, <1>2, <1>4, <1>6, <1>9 DEF FitInv
<1> QED
  BY <1>1, <1>5, <1>7, <1>10 DEF GroupKeyInv

\* What leaves the keys and the members alone, and no rotation to its end.
Quietly == UNCHANGED <<members, keys, secret>>

\* The order of the versions rests on what is stored and on the rotation.
LEMMA OrderStays ==
  ASSUME KeysTyped, InOrder, keys' = keys, NEW c \in Callers, NEW call \in KeyCalls,
         Goes(c, call), call.op \notin {"store", "supersede"},
         calls[c].op # "supersede"
  PROVE  InOrder'
<1>1. /\ calls'[c] = call /\ \A d \in Callers : d # c => calls'[d] = calls[d]
  BY CallGoes
<1>2. \A v : Replaced(v)' <=> Replaced(v)
  BY <1>1 DEF Replaced
<1>3. \A v : IsActive(v)' <=> IsActive(v)
  BY DEF IsActive
<1> QED
  BY <1>1, <1>2, <1>3 DEF InOrder

\* A member asks for a key.
LEMMA AskKeeps ==
  ASSUME GroupKeyInv, NEW c \in Callers, NEW trigger \in {"establish", "manual"},
         Epochs!Ask(c, trigger)
  PROVE  GroupKeyInv'
<1> PICK call : call = [op |-> "wait", trigger |-> trigger]
  OBVIOUS
<1>1. /\ Goes(c, call) /\ calls[c].op = "idle"
      /\ UNCHANGED <<members, keys, secret, lock, missed>>
  BY DEF Epochs!Ask, Epochs!Busy, Goes, Epochs!Idle
<1>2. call \in KeyCalls /\ call.op = "wait" /\ call.trigger = trigger
  BY DEF KeyCalls, Epochs!Triggers
<1>3. KeysTyped /\ InOrder
  BY DEF GroupKeyInv
<1>4. /\ calls' \in [Callers -> KeyCalls] /\ calls'[c] = call
      /\ \A d \in Callers : d # c => calls'[d] = calls[d]
  BY <1>1, <1>2, <1>3, CallGoes
<1>5. KeysTyped'
  BY <1>1, <1>2, <1>3, <1>4 DEF KeysTyped, Holding
<1>6. /\ \A v : Replaced(v)' <=> Replaced(v)
      /\ \A v : Replacing(v)' <=> Replacing(v)
      /\ \A v : Rotating(v)' <=> Rotating(v)
      /\ \A v : IsActive(v)' <=> IsActive(v)
      /\ (Renewing' <=> Renewing) /\ (Pending' <=> Pending)
      /\ (PendingLeave' <=> PendingLeave)
  <2>1. /\ \A v : IsActive(v)' <=> IsActive(v)
        /\ \A v : Replaced(v)' <=> Replaced(v)
        /\ \A v : Replacing(v)' <=> Replacing(v)
        /\ \A v : Rotating(v)' <=> Rotating(v)
    BY <1>1, <1>2, <1>4 DEF Replaced, Replacing, Rotating, IsActive
  <2>2. (Renewing' <=> Renewing) /\ (Pending' <=> Pending)
          /\ (PendingLeave' <=> PendingLeave)
    BY <1>1, <1>2, <1>4 DEF Renewing, Pending, PendingLeave, Changing
  <2> QED
    BY <2>1, <2>2
<1>7. InOrder'
  BY <1>1, <1>2, <1>3, OrderStays
<1>9. \A S : (Fits(S)' <=> Fits(S)) /\ (Among(S)' <=> Among(S))
  BY <1>1, <1>6 DEF Fits, Among
<1>10. FitInv => FitInv'
  BY <1>1, <1>2, <1>4, <1>6, <1>9 DEF FitInv
<1> QED
  BY <1>1, <1>5, <1>7, <1>10 DEF GroupKeyInv

\* With a free lock nothing is being done to the key.
LEMMA NobodyHolds ==
  ASSUME Epochs!GroupKeysAssumption, KeysTyped, lock = Epochs!NoOne
  PROVE  /\ \A c \in Callers : calls[c].op \notin Holding
         /\ \A v : ~ Replaced(v) /\ ~ Replacing(v) /\ ~ Rotating(v)
         /\ ~ Renewing
<1>1. \A c \in Callers : calls[c].op \notin Holding
  BY DEF KeysTyped, Epochs!GroupKeysAssumption, Epochs!NoOne
<1> QED
  BY <1>1 DEF Holding, Replaced, Replacing, Rotating, Renewing

\* The handler of a change finds a key to rotate, or drops the change.
LEMMA LookKeeps ==
  ASSUME Epochs!GroupKeysAssumption, GroupKeyInv, NEW c \in Callers, Epochs!Look(c)
  PROVE  GroupKeyInv'
<1>0. KeysTyped /\ InOrder
  BY DEF GroupKeyInv
<1>1. calls[c].op = "look" /\ UNCHANGED <<members, keys, secret, lock>>
  BY DEF Epochs!Look
<1>2. calls[c].trigger \in Changing
  BY <1>0, <1>1 DEF KeysTyped, KeyCalls, Epochs!Idle
<1>3. CASE Epochs!Active = 0
  <2>1. Goes(c, Epochs!Idle) /\ missed' = (missed \/ lock # Epochs!NoOne \/ secret # {})
    BY <1>3 DEF Epochs!Look, Epochs!Busy, Goes
  <2>2. Epochs!Idle \in KeyCalls /\ Epochs!Idle.op = "idle"
    BY DEF Epochs!Idle, KeyCalls
  <2>3. /\ calls' \in [Callers -> KeyCalls] /\ calls'[c] = Epochs!Idle
        /\ \A d \in Callers : d # c => calls'[d] = calls[d]
    BY <1>0, <2>1, <2>2, CallGoes
  <2>4. KeysTyped'
    BY <1>0, <1>1, <2>1, <2>2, <2>3 DEF KeysTyped, Holding
  <2>5. InOrder'
    BY <1>0, <1>1, <2>1, <2>2, OrderStays
  <2>6. ASSUME ~ missed' PROVE FitInv'
    <3>1. lock = Epochs!NoOne /\ secret = {}
      BY <2>1, <2>6 DEF GroupKeyInv, KeysTyped
    <3>2. lock' = Epochs!NoOne /\ secret' = {} /\ \A v \in Epochs!Versions : ~ IsActive(v)
      <4>1. \A v \in Epochs!Versions : IsActive(v) => Epochs!Active = v
        BY <1>0, <3>1, NobodyHolds, ActiveIs
      <4> QED
        BY <1>1, <1>3, <3>1, <4>1, VersionsAreNumbers
    <3>3. \A d \in Callers : calls'[d].op \notin Holding
      BY <2>4, <3>2 DEF KeysTyped, Epochs!GroupKeysAssumption, Epochs!NoOne
    <3> QED
      BY <1>1, <3>2, <3>3 DEF FitInv, Among, Holding, IsActive
  <2> QED
    BY <2>4, <2>5, <2>6 DEF GroupKeyInv
<1>4. CASE Epochs!Active # 0
  <2> PICK call : call = [op |-> "wait", trigger |-> calls[c].trigger]
    OBVIOUS
  <2>1. Goes(c, call) /\ missed' = missed
    BY <1>4 DEF Epochs!Look, Epochs!Busy, Goes
  <2>2. call \in KeyCalls /\ call.op = "wait" /\ call.trigger = calls[c].trigger
    BY <1>2 DEF KeyCalls, Epochs!Triggers, Changing, Epochs!FreshTriggers
  <2>3. /\ calls' \in [Callers -> KeyCalls] /\ calls'[c] = call
        /\ \A d \in Callers : d # c => calls'[d] = calls[d]
    BY <1>0, <2>1, <2>2, CallGoes
  <2>4. KeysTyped'
    BY <1>0, <1>1, <2>1, <2>2, <2>3 DEF KeysTyped, Holding
  <2>5. InOrder'
    BY <1>0, <1>1, <2>1, <2>2, OrderStays
  <2>6. /\ \A v : Replaced(v)' <=> Replaced(v)
        /\ \A v : Replacing(v)' <=> Replacing(v)
        /\ \A v : Rotating(v)' <=> Rotating(v)
        /\ \A v : IsActive(v)' <=> IsActive(v)
    BY <1>1, <2>2, <2>3 DEF Replaced, Replacing, Rotating, IsActive
  <2>7. (Renewing' <=> Renewing) /\ (Pending' <=> Pending)
          /\ (PendingLeave' <=> PendingLeave)
    BY <1>1, <1>2, <2>2, <2>3 DEF Renewing, Pending, PendingLeave
  <2>8. \A S : (Fits(S)' <=> Fits(S)) /\ (Among(S)' <=> Among(S))
    BY <1>1, <2>7 DEF Fits, Among
  <2>9. FitInv => FitInv'
    BY <1>1, <2>2, <2>3, <2>6, <2>7, <2>8 DEF FitInv
  <2> QED
    BY <2>1, <2>4, <2>5, <2>9 DEF GroupKeyInv
<1> QED
  BY <1>3, <1>4

\* The turn of an operation: what it was to follow is now what it rotates for.
LEMMA EnterKeeps ==
  ASSUME Epochs!GroupKeysAssumption, GroupKeyInv, NEW c \in Callers, Epochs!Enter(c)
  PROVE  GroupKeyInv'
<1> PICK call : call = [op |-> "draw", trigger |-> calls[c].trigger, for |-> members]
  OBVIOUS
<1>0. KeysTyped /\ InOrder
  BY DEF GroupKeyInv
<1>1. /\ calls[c].op = "wait" /\ lock = Epochs!NoOne /\ lock' = c /\ Goes(c, call)
      /\ UNCHANGED <<members, keys, secret, missed>>
  BY DEF Epochs!Enter, Epochs!Busy, Goes
<1>2. calls[c].trigger \in Epochs!Triggers
  BY <1>0, <1>1 DEF KeysTyped, KeyCalls, Epochs!Idle
<1>3. call \in KeyCalls /\ call.op = "draw" /\ call.trigger = calls[c].trigger
        /\ call.for = members
  BY <1>0, <1>2 DEF KeyCalls, KeysTyped
<1>4. /\ calls' \in [Callers -> KeyCalls] /\ calls'[c] = call
      /\ \A d \in Callers : d # c => calls'[d] = calls[d]
  BY <1>0, <1>1, <1>3, CallGoes
<1>5. /\ \A d \in Callers : calls[d].op \notin Holding
      /\ \A v : ~ Replaced(v) /\ ~ Replacing(v) /\ ~ Rotating(v)
      /\ ~ Renewing
  BY <1>0, <1>1, NobodyHolds
<1>6. KeysTyped'
  BY <1>0, <1>1, <1>3, <1>4, <1>5 DEF KeysTyped, Holding
<1>7. InOrder'
  BY <1>0, <1>1, <1>3, OrderStays
<1>8. FitInv => FitInv'
  <2> SUFFICES ASSUME FitInv PROVE FitInv'
    OBVIOUS
  <2>1. /\ calls[c].trigger = "leave" => Renewing'
        /\ calls[c].trigger # "establish" => \A v : Rotating(v)'
    BY <1>3, <1>4 DEF Renewing, Rotating
  <2>2. Pending => Pending' \/ calls[c].trigger \in Changing
    BY <1>4 DEF Pending
  <2>3. PendingLeave => PendingLeave' \/ calls[c].trigger = "leave"
    BY <1>4 DEF PendingLeave
  <2>4. \A S : (Fits(S) => Fits(S)' \/ \A v : Rotating(v)')
                /\ (Among(S) => Among(S)' \/ Renewing')
    BY <1>1, <2>1, <2>2, <2>3 DEF Fits, Among, Changing
  <2>5. \A d \in Callers : calls'[d].op \in {"draw", "store"} => d = c
    BY <1>4, <1>5 DEF Holding
  <2>6. Fits(members)' /\ Among(members)' /\ members' = members
    BY <1>1 DEF Fits, Among
  <2>7. Among(secret)' \/ Renewing'
    BY <1>1, <1>5, <2>4 DEF FitInv, Among
  <2>8. ASSUME NEW v \in Epochs!Versions, IsActive(v)'
        PROVE  /\ keys'[v].for \subseteq keys'[v].knows
               /\ Fits(keys[v].for)' \/ Rotating(v)'
               /\ Among(keys[v].knows)' \/ Renewing'
    <3>1. IsActive(v) /\ keys' = keys
      BY <1>1, <2>8 DEF IsActive
    <3>2. /\ keys[v].for \subseteq keys[v].knows
          /\ Fits(keys[v].for) /\ Among(keys[v].knows)
      BY <1>5, <3>1 DEF FitInv
    <3> QED
      BY <1>1, <2>4, <3>1, <3>2 DEF Fits, Among
  <2> QED
    BY <1>3, <1>4, <2>5, <2>6, <2>7, <2>8 DEF FitInv
<1> QED
  BY <1>1, <1>6, <1>7, <1>8 DEF GroupKeyInv

\* A sweep takes a version out of use.
LEMMA ExpireKeeps ==
  ASSUME Epochs!GroupKeysAssumption, GroupKeyInv, NEW v \in Epochs!Versions,
         Epochs!Expire(v)
  PROVE  GroupKeyInv'
<1> PICK r : r = [keys[v] EXCEPT !.state = "expired"]
  OBVIOUS
<1>0. KeysTyped /\ InOrder
  BY DEF GroupKeyInv
<1>1. /\ keys[v].state \in {"active", "superseded"} /\ keys' = [keys EXCEPT ![v] = r]
      /\ UNCHANGED <<members, secret, lock, calls, missed>>
  BY DEF Epochs!Expire
<1>2. r \in KeyRecords /\ r.state = "expired"
  BY <1>0 DEF KeysTyped, KeyRecords
<1>3. Epochs!NoKey.state = "none"
  BY DEF Epochs!NoKey
<1>4. /\ keys'[v] = r /\ keys' \in [Epochs!Versions -> KeyRecords] /\ keys[v] # Epochs!NoKey /\ r # Epochs!NoKey
      /\ \A w \in Epochs!Versions : w # v => keys'[w] = keys[w]
  BY <1>0, <1>1, <1>2, <1>3 DEF KeysTyped
<1>5. /\ \A w \in Epochs!Versions : IsActive(w)' => w # v /\ IsActive(w)
      /\ \A w \in Epochs!Versions : (keys'[w] = Epochs!NoKey) <=> (keys[w] = Epochs!NoKey)
  BY <1>2, <1>4 DEF IsActive
<1>6. KeysTyped'
  BY <1>0, <1>1, <1>4 DEF KeysTyped
<1>7. \A w : Replaced(w)' <=> Replaced(w)
  BY <1>1 DEF Replaced
<1>8. InOrder'
  BY <1>0, <1>1, <1>4, <1>5, <1>7 DEF InOrder
<1>9. /\ \A w : (Replacing(w)' <=> Replacing(w)) /\ (Rotating(w)' <=> Rotating(w))
      /\ (Renewing' <=> Renewing)
      /\ \A S : (Fits(S)' <=> Fits(S)) /\ (Among(S)' <=> Among(S))
  BY <1>1 DEF Replacing, Rotating, Renewing, Fits, Among, Pending, PendingLeave
<1>10. FitInv => FitInv'
  BY <1>1, <1>4, <1>5, <1>7, <1>9 DEF FitInv
<1> QED
  BY <1>1, <1>6, <1>8, <1>10 DEF GroupKeyInv

\* The holder of the lock is the only one that draws, stores or supersedes.
LEMMA TheHolder ==
  ASSUME KeysTyped, NEW c \in Callers, calls[c].op \in Holding
  PROVE  /\ lock = c
         /\ \A d \in Callers : d # c => calls[d].op \notin Holding
         /\ \A v : Replaced(v) <=> calls[c].op = "supersede" /\ calls[c].old = v
         /\ \A v : Replacing(v) <=> calls[c].op = "store" /\ calls[c].old = v
         /\ \A v : Rotating(v) <=>
              \/ Replacing(v)
              \/ calls[c].op = "draw" /\ calls[c].trigger # "establish"
         /\ Renewing <=> calls[c].op = "draw" /\ calls[c].trigger = "leave"
<1>1. lock = c /\ \A d \in Callers : d # c => calls[d].op \notin Holding
  BY DEF KeysTyped
<1>2. \A v : Replaced(v) <=> calls[c].op = "supersede" /\ calls[c].old = v
  BY <1>1 DEF Replaced, Holding
<1>3. \A v : Replacing(v) <=> calls[c].op = "store" /\ calls[c].old = v
  BY <1>1 DEF Replacing, Holding
<1>4. \A v : Rotating(v) <=>
        \/ Replacing(v)
        \/ calls[c].op = "draw" /\ calls[c].trigger # "establish"
  BY <1>1 DEF Rotating, Holding
<1>5. Renewing <=> calls[c].op = "draw" /\ calls[c].trigger = "leave"
  BY <1>1 DEF Renewing, Holding
<1> QED
  BY <1>1, <1>2, <1>3, <1>4, <1>5

\* The new secret is for the members that were read, and who had the old one;
\* the old one is renewed after a departure.
LEMMA DrawnIsAmong ==
  ASSUME KeysTyped, FitInv, NEW c \in Callers, calls[c].op = "draw"
  PROVE  /\ calls[c].for \subseteq Epochs!Drawn(calls[c]) /\ Among(Epochs!Drawn(calls[c]))
         /\ Epochs!Drawn(calls[c]) \subseteq Users
<1>1. Among(calls[c].for) /\ calls[c].for \subseteq Users
  BY DEF FitInv, KeysTyped, KeyCalls, Epochs!Idle
<1>2. CASE calls[c].trigger \in Epochs!FreshTriggers \cup {"establish"} \/ secret = {}
  BY <1>1, <1>2 DEF Epochs!Drawn
<1>3. CASE ~ (calls[c].trigger \in Epochs!FreshTriggers \cup {"establish"} \/ secret = {})
  <2>1. ~ Renewing
    BY <1>3, TheHolder DEF Holding, Epochs!FreshTriggers
  <2>2. Among(secret)
    BY <2>1 DEF FitInv
  <2>3. Epochs!Drawn(calls[c]) = secret \cup calls[c].for
    BY <1>3 DEF Epochs!Drawn
  <2> QED
    BY <1>1, <2>2, <2>3 DEF Among, KeysTyped
<1> QED
  BY <1>2, <1>3

\* The next secret is drawn, and the key before it found.
LEMMA DrawKeeps ==
  ASSUME Epochs!GroupKeysAssumption, GroupKeyInv, NEW c \in Callers, Epochs!Draw(c)
  PROVE  GroupKeyInv'
<1>0. KeysTyped /\ InOrder
  BY DEF GroupKeyInv
<1>1. /\ calls[c].op = "draw" /\ secret' = Epochs!Drawn(calls[c])
      /\ UNCHANGED <<members, keys, missed>>
  BY DEF Epochs!Draw
<1>2. /\ lock = c /\ \A d \in Callers : d # c => calls[d].op \notin Holding
      /\ \A v : ~ Replaced(v) /\ ~ Replacing(v)
      /\ \A v : Rotating(v) <=> calls[c].trigger # "establish"
      /\ Renewing <=> calls[c].trigger = "leave"
  BY <1>0, <1>1, TheHolder DEF Holding
<1>3. calls[c].trigger \in Epochs!Triggers /\ calls[c].for \in SUBSET Users
  BY <1>0, <1>1 DEF KeysTyped, KeyCalls, Epochs!Idle
<1>4. secret' \subseteq Users
  <2>1. Epochs!Drawn(calls[c]) \in {calls[c].for, secret \cup calls[c].for}
    BY DEF Epochs!Drawn
  <2> QED
    BY <1>0, <1>1, <1>3, <2>1 DEF KeysTyped
<1>5. CASE calls[c].trigger = "establish" /\ Epochs!Active # 0
  <2>1. Goes(c, Epochs!Idle) /\ lock' = Epochs!NoOne
    BY <1>1, <1>5 DEF Epochs!Draw, Epochs!Release, Epochs!Busy, Goes
  <2>2. Epochs!Idle \in KeyCalls /\ Epochs!Idle.op = "idle"
    BY DEF Epochs!Idle, KeyCalls
  <2>3. /\ calls' \in [Callers -> KeyCalls] /\ calls'[c] = Epochs!Idle
        /\ \A d \in Callers : d # c => calls'[d] = calls[d]
    BY <1>0, <2>1, <2>2, CallGoes
  <2>4. \A d \in Callers : calls'[d].op \notin Holding
    BY <1>2, <2>2, <2>3 DEF Holding
  <2>5. KeysTyped'
    BY <1>0, <1>1, <1>4, <2>1, <2>3, <2>4 DEF KeysTyped, Epochs!GroupKeysAssumption,
       Epochs!NoOne
  <2>6. InOrder'
    BY <1>0, <1>1, <2>1, <2>2, OrderStays
  <2>7. ASSUME FitInv PROVE FitInv'
    <3>1. Among(secret')
      BY <1>0, <1>1, <2>7, DrawnIsAmong
    <3>2. (Pending' <=> Pending) /\ (PendingLeave' <=> PendingLeave)
      BY <1>1, <2>2, <2>3 DEF Pending, PendingLeave
    <3>3. Among(secret)' /\ \A S : (Fits(S)' <=> Fits(S)) /\ (Among(S)' <=> Among(S))
      BY <1>1, <3>1, <3>2 DEF Fits, Among
    <3>4. \A v \in Epochs!Versions : IsActive(v)' =>
            /\ keys'[v].for \subseteq keys'[v].knows
            /\ Fits(keys[v].for)' /\ Among(keys[v].knows)'
      BY <1>1, <1>2, <1>5, <2>7, <3>3 DEF FitInv, IsActive
    <3> QED
      BY <1>1, <2>4, <3>3, <3>4 DEF FitInv, Holding, Fits, Among
  <2> QED
    BY <1>1, <2>5, <2>6, <2>7 DEF GroupKeyInv
<1>6. CASE ~ (calls[c].trigger = "establish" /\ Epochs!Active # 0)
  <2> PICK drawn, old, call :
        /\ drawn = Epochs!Drawn(calls[c]) /\ old = Epochs!Active
        /\ call = [op |-> "store", old |-> old, for |-> calls[c].for, knows |-> drawn]
    OBVIOUS
  <2>1. Goes(c, call) /\ lock' = lock
    BY <1>1, <1>6 DEF Epochs!Draw, Epochs!Busy, Goes
  <2>2. /\ old \in 0..MaxVersion
        /\ old # 0 => old \in Epochs!Versions /\ IsActive(old)
        /\ \A v \in Epochs!Versions : IsActive(v) => v = old
    BY <1>0, <1>2, ActiveIs
  <2>3. /\ call \in KeyCalls /\ call.op = "store" /\ call.old = old
        /\ call.for = calls[c].for /\ call.knows = drawn
    BY <1>1, <1>3, <1>4, <2>2 DEF KeyCalls
  <2>4. /\ calls' \in [Callers -> KeyCalls] /\ calls'[c] = call
        /\ \A d \in Callers : d # c => calls'[d] = calls[d]
    BY <1>0, <2>1, <2>3, CallGoes
  <2>5. KeysTyped'
    BY <1>0, <1>1, <1>2, <1>4, <2>1, <2>3, <2>4 DEF KeysTyped, Holding
  <2>6. \A d \in Callers : d # c => calls'[d].op \notin Holding
    BY <1>2, <2>4
  <2>7. InOrder'
    <3>1. \A v : ~ Replaced(v)' /\ (IsActive(v)' <=> IsActive(v))
      BY <1>1, <2>3, <2>4, <2>6 DEF Replaced, IsActive, Holding
    <3>2. old # 0 => keys[old] # Epochs!NoKey
      BY <2>2 DEF IsActive, Epochs!NoKey
    <3> QED
      BY <1>0, <1>1, <1>2, <2>2, <2>3, <2>4, <2>6, <3>1, <3>2 DEF InOrder, Holding
  <2>8. ASSUME FitInv PROVE FitInv'
    <3>1. Among(drawn) /\ calls[c].for \subseteq drawn
      BY <1>0, <1>1, <2>8, DrawnIsAmong
    <3>2. (Pending' <=> Pending) /\ (PendingLeave' <=> PendingLeave)
      BY <1>1, <2>3, <2>4 DEF Pending, PendingLeave
    <3>3. \A S : (Fits(S)' <=> Fits(S)) /\ (Among(S)' <=> Among(S))
      BY <1>1, <3>2 DEF Fits, Among
    <3>4. secret' = drawn /\ Among(secret)'
      BY <1>1, <3>1, <3>3
    <3>5. Fits(calls[c].for) /\ Among(calls[c].for)
      BY <1>1, <2>8 DEF FitInv
    <3>6. \A v \in Epochs!Versions : IsActive(v)' =>
            /\ keys'[v].for \subseteq keys'[v].knows
            /\ Rotating(v)' /\ Replacing(v)'
      BY <1>1, <1>2, <2>2, <2>3, <2>4, <2>8 DEF FitInv, IsActive, Rotating, Replacing
    <3>7. \A d \in Callers : calls'[d].op \in {"draw", "store"} =>
            /\ d = c /\ calls'[d].op = "store" /\ calls'[d].for = calls[c].for
            /\ calls'[d].knows = drawn
      BY <2>3, <2>4, <2>6 DEF Holding
    <3>8. \A d \in Callers :
            /\ calls'[d].op \in {"draw", "store"} =>
                 Fits(calls[d].for)' /\ Among(calls[d].for)'
            /\ calls'[d].op = "store" =>
                 calls'[d].knows = secret' /\ calls'[d].for \subseteq calls'[d].knows
      <4>1. Fits(calls[c].for)' /\ Among(calls[c].for)'
        <5>1. calls'[c].for = calls[c].for
          BY <2>3, <2>4
        <5> QED
          BY <1>1, <3>2, <3>5, <5>1 DEF Fits, Among
      <4> QED
        BY <3>1, <3>4, <3>7, <4>1
    <3> QED
      BY <3>4, <3>6, <3>8 DEF FitInv
  <2> QED
    BY <1>1, <2>5, <2>7, <2>8 DEF GroupKeyInv
<1> QED
  BY <1>5, <1>6

\* The end of a rotation: its caller lets go of the lock.
LEMMA ReleaseKeeps ==
  ASSUME Epochs!GroupKeysAssumption, GroupKeyInv, NEW c \in Callers,
         calls[c].op \in Holding,
         Epochs!Release(c), UNCHANGED <<members, secret, missed>>,
         keys' \in [Epochs!Versions -> KeyRecords],
         \A v \in Epochs!Versions : (keys'[v] = Epochs!NoKey) <=> (keys[v] = Epochs!NoKey),
         \A v \in Epochs!Versions : IsActive(v)' =>
           keys'[v] = keys[v] /\ IsActive(v) /\ ~ Replaced(v),
         calls[c].op # "draw",
         \A v \in Epochs!Versions : IsActive(v)' => ~ Replacing(v)
  PROVE  GroupKeyInv'
<1>0. KeysTyped /\ InOrder
  BY DEF GroupKeyInv
<1>1. Goes(c, Epochs!Idle) /\ lock' = Epochs!NoOne
  BY DEF Epochs!Release, Epochs!Busy, Goes
<1>2. Epochs!Idle \in KeyCalls /\ Epochs!Idle.op = "idle"
  BY DEF Epochs!Idle, KeyCalls
<1>3. /\ calls' \in [Callers -> KeyCalls] /\ calls'[c] = Epochs!Idle
      /\ \A d \in Callers : d # c => calls'[d] = calls[d]
  BY <1>0, <1>1, <1>2, CallGoes
<1>4. /\ \A d \in Callers : d # c => calls[d].op \notin Holding
      /\ ~ Renewing /\ \A v : Rotating(v) <=> Replacing(v)
  BY <1>0, TheHolder
<1>5. \A d \in Callers : calls'[d].op \notin Holding
  BY <1>2, <1>3, <1>4 DEF Holding
<1>6. KeysTyped'
  BY <1>0, <1>1, <1>3, <1>5 DEF KeysTyped, Epochs!GroupKeysAssumption, Epochs!NoOne
<1>7. InOrder'
  BY <1>0, <1>5 DEF InOrder, Holding
<1>8. (Pending' <=> Pending) /\ (PendingLeave' <=> PendingLeave)
  <2>1. calls[c].op \notin {"look", "wait"} /\ calls'[c].op \notin {"look", "wait"}
    BY <1>2, <1>3 DEF Holding
  <2>2. \A d \in Callers : calls'[d].op \in {"look", "wait"} <=> calls[d].op \in {"look", "wait"}
    BY <1>3, <2>1
  <2>3. \A d \in Callers : calls[d].op \in {"look", "wait"} => calls'[d] = calls[d]
    BY <1>3, <2>1
  <2> QED
    BY <2>2, <2>3 DEF Pending, PendingLeave
<1>9. \A S : (Fits(S)' <=> Fits(S)) /\ (Among(S)' <=> Among(S))
  BY <1>8 DEF Fits, Among
<1>10. ASSUME FitInv PROVE FitInv'
  <2>1. Among(secret)'
    BY <1>4, <1>9, <1>10 DEF FitInv, Among
  <2>2. ASSUME NEW v \in Epochs!Versions, IsActive(v)'
        PROVE  /\ keys'[v].for \subseteq keys'[v].knows
               /\ Fits(keys[v].for)' /\ Among(keys[v].knows)'
    <3>1. /\ keys'[v] = keys[v] /\ keys[v].for \subseteq keys[v].knows
          /\ Fits(keys[v].for) /\ Among(keys[v].knows)
      BY <1>4, <1>10, <2>2 DEF FitInv
    <3> QED
      BY <1>8, <3>1 DEF Fits, Among
  <2> QED
    BY <1>5, <2>1, <2>2 DEF FitInv, Holding
<1> QED
  BY <1>6, <1>7, <1>10 DEF GroupKeyInv

\* The next version is stored, unless its number is taken.
LEMMA StoreKeeps ==
  ASSUME Epochs!GroupKeysAssumption, GroupKeyInv, NEW c \in Callers, Epochs!Store(c)
  PROVE  GroupKeyInv'
<1> PICK old, next : old = calls[c].old /\ next = old + 1
  OBVIOUS
<1>0. KeysTyped /\ InOrder
  BY DEF GroupKeyInv
<1>1. /\ calls[c].op = "store" /\ next <= MaxVersion
      /\ UNCHANGED <<members, secret, missed>>
  BY DEF Epochs!Store
<1>2. /\ lock = c /\ \A d \in Callers : d # c => calls[d].op \notin Holding
      /\ ~ Renewing
      /\ \A v : ~ Replaced(v)
      /\ \A v : Replacing(v) <=> v = old
  BY <1>0, <1>1, TheHolder DEF Holding
<1>3. old \in 0..MaxVersion /\ calls[c].for \in SUBSET Users /\ calls[c].knows \in SUBSET Users
  BY <1>0, <1>1 DEF KeysTyped, KeyCalls, Epochs!Idle
<1>4. /\ MaxVersion \in Nat /\ old \in Nat /\ next \in Epochs!Versions /\ next > old
      /\ old # 0 => old \in Epochs!Versions /\ keys[old] # Epochs!NoKey
  BY <1>0, <1>1, <1>3, VersionsAreNumbers DEF InOrder
<1>5. \A v \in Epochs!Versions : IsActive(v) => v = old
  BY <1>0, <1>1 DEF InOrder
<1>6. CASE keys[next] # Epochs!NoKey
  <2>1. Epochs!Release(c) /\ keys' = keys
    BY <1>1, <1>6 DEF Epochs!Store
  <2>2. \A v \in Epochs!Versions : ~ IsActive(v)
    BY <1>0, <1>2, <1>4, <1>5, <1>6, VersionsAreNumbers DEF InOrder
  <2>3. \A v \in Epochs!Versions : ~ IsActive(v)'
    BY <2>1, <2>2 DEF IsActive
  <2>4. keys' \in [Epochs!Versions -> KeyRecords]
    BY <1>0, <2>1 DEF KeysTyped
  <2>5. calls[c].op \in Holding /\ calls[c].op # "draw"
    BY <1>1 DEF Holding
  <2> QED
    BY <1>1, <2>1, <2>3, <2>4, <2>5, ReleaseKeeps
<1>7. CASE keys[next] = Epochs!NoKey
  <2> PICK call, key :
        /\ call = [op |-> "supersede", old |-> old]
        /\ key = [state |-> "active", for |-> calls[c].for, knows |-> calls[c].knows]
    OBVIOUS
  <2>1. Goes(c, call) /\ lock' = lock /\ keys' = [keys EXCEPT ![next] = key]
    BY <1>1, <1>7 DEF Epochs!Store, Epochs!Busy, Goes
  <2>2. call \in KeyCalls /\ call.op = "supersede" /\ call.old = old
    BY <1>3 DEF KeyCalls
  <2>3. /\ key \in KeyRecords /\ key.state = "active" /\ key.for = calls[c].for
        /\ key.knows = calls[c].knows /\ key # Epochs!NoKey
    BY <1>3 DEF KeyRecords, Epochs!NoKey
  <2>4. /\ calls' \in [Callers -> KeyCalls] /\ calls'[c] = call
        /\ \A d \in Callers : d # c => calls'[d] = calls[d]
    BY <1>0, <2>1, <2>2, CallGoes
  <2>5. /\ keys' \in [Epochs!Versions -> KeyRecords] /\ keys'[next] = key
        /\ \A v \in Epochs!Versions : v # next => keys'[v] = keys[v]
    BY <1>0, <1>4, <2>1, <2>3 DEF KeysTyped
  <2>6. \A d \in Callers : d # c => calls'[d].op \notin Holding
    BY <1>2, <2>4
  <2>7. KeysTyped'
    BY <1>0, <1>1, <1>2, <2>1, <2>2, <2>4, <2>5, <2>6 DEF KeysTyped, Holding
  <2>8. /\ \A v : Replaced(v)' <=> v = old
        /\ \A v \in Epochs!Versions : IsActive(v)' => v \in {old, next}
    <3>1. \A v : Replaced(v)' <=> v = old
      BY <2>2, <2>4, <2>6 DEF Replaced, Holding
    <3>2. \A v \in Epochs!Versions : IsActive(v)' => v \in {old, next}
      BY <1>5, <2>5 DEF IsActive
    <3> QED
      BY <3>1, <3>2
  <2>9. InOrder'
    <3>1. ASSUME NEW v \in Epochs!Versions, NEW w \in Epochs!Versions, w < v,
                 keys'[v] # Epochs!NoKey
          PROVE  keys'[w] # Epochs!NoKey
      <4>1. v \in Nat /\ w \in Nat /\ w # 0
        BY VersionsAreNumbers
      <4>2. CASE v # next
        BY <1>0, <2>3, <2>5, <3>1, <4>2 DEF InOrder
      <4>3. CASE v = next
        <5>1. w <= old /\ old # 0 /\ w # next
          BY <1>4, <3>1, <4>1, <4>3
        <5>2. keys[w] # Epochs!NoKey
          BY <1>0, <1>4, <4>1, <5>1 DEF InOrder
        <5> QED
          BY <2>5, <5>1, <5>2
      <4> QED
        BY <4>2, <4>3
    <3>2. ASSUME NEW v \in Epochs!Versions, NEW w \in Epochs!Versions, w > next
          PROVE  keys'[w] = Epochs!NoKey
      <4>1. w \in Nat /\ next \in Nat
        BY <1>4, VersionsAreNumbers
      <4> QED
        BY <1>0, <1>4, <1>7, <2>5, <3>2, <4>1 DEF InOrder
    <3>3. \A v \in Epochs!Versions : IsActive(v)' /\ ~ Replaced(v)' =>
            \A w \in Epochs!Versions : w > v => keys'[w] = Epochs!NoKey
      BY <2>8, <3>2
    <3>4. \A d \in Callers : calls'[d].op \in {"store", "supersede"} => d = c
      BY <2>6 DEF Holding
    <3>5. old # 0 => keys'[old] # Epochs!NoKey
      BY <1>4, <2>3, <2>5
    <3>6. next \in Epochs!Versions /\ keys'[next] # Epochs!NoKey
      BY <1>4, <2>3, <2>5
    <3> QED
      BY <1>4, <2>2, <2>4, <2>8, <3>1, <3>3, <3>4, <3>5, <3>6 DEF InOrder
  <2>10. ASSUME FitInv PROVE FitInv'
    <3>1. /\ Among(secret) /\ calls[c].knows = secret
          /\ Fits(calls[c].for) /\ calls[c].for \subseteq calls[c].knows
      BY <1>1, <1>2, <2>10 DEF FitInv
    <3>2. (Pending' <=> Pending) /\ (PendingLeave' <=> PendingLeave)
      BY <1>1, <2>2, <2>4 DEF Pending, PendingLeave
    <3>3. /\ Among(secret)' /\ key.knows = secret' /\ key.for \subseteq key.knows
          /\ (key.for = members' \/ Pending')
      BY <1>1, <2>3, <3>1, <3>2 DEF Fits, Among
    <3>4. \A d \in Callers : calls'[d].op \notin {"draw", "store"}
      BY <2>2, <2>4, <2>6 DEF Holding
    <3>5. \A v \in Epochs!Versions : IsActive(v)' /\ ~ Replaced(v)' => v = next
      BY <2>8
    <3>6. Fits(keys[next].for)' /\ Among(keys[next].knows)'
      BY <2>5, <3>3 DEF Fits, Among
    <3> QED
      BY <2>5, <3>3, <3>4, <3>5, <3>6 DEF FitInv
  <2> QED
    BY <1>1, <2>7, <2>9, <2>10 DEF GroupKeyInv
<1> QED
  BY <1>6, <1>7

\* The version before it is superseded, and the lock released.
LEMMA SupersedeKeeps ==
  ASSUME Epochs!GroupKeysAssumption, GroupKeyInv, NEW c \in Callers, Epochs!Supersede(c)
  PROVE  GroupKeyInv'
<1> PICK old : old = calls[c].old
  OBVIOUS
<1>0. KeysTyped /\ InOrder
  BY DEF GroupKeyInv
<1>1. /\ calls[c].op = "supersede" /\ Epochs!Release(c) /\ UNCHANGED <<members, secret, missed>>
      /\ keys' = IF old = 0 THEN keys ELSE [keys EXCEPT ![old].state = "superseded"]
  BY DEF Epochs!Supersede
<1>2. /\ \A v : Replaced(v) <=> v = old
      /\ \A v : ~ Replacing(v)
  BY <1>0, <1>1, TheHolder DEF Holding
<1>3. old \in 0..MaxVersion /\ (old # 0 => old \in Epochs!Versions /\ keys[old] # Epochs!NoKey)
  <2>1. old \in 0..MaxVersion
    BY <1>0, <1>1 DEF KeysTyped, KeyCalls, Epochs!Idle
  <2> QED
    BY <1>0, <1>1, <2>1 DEF InOrder
<1>4. CASE old = 0
  <2>1. keys' = keys /\ keys \in [Epochs!Versions -> KeyRecords]
    BY <1>0, <1>1, <1>4 DEF KeysTyped
  <2>2. \A v \in Epochs!Versions : IsActive(v)' => IsActive(v) /\ v # old
    BY <1>4, <2>1, VersionsAreNumbers DEF IsActive
  <2> QED
    BY <1>1, <1>2, <2>1, <2>2, ReleaseKeeps DEF Holding
<1>5. CASE old # 0
  <2> PICK r : r = [keys[old] EXCEPT !.state = "superseded"]
    OBVIOUS
  <2>1. keys' = [keys EXCEPT ![old] = r] /\ keys \in [Epochs!Versions -> KeyRecords] /\ old \in Epochs!Versions
    BY <1>0, <1>1, <1>3, <1>5 DEF KeysTyped
  <2>2. r \in KeyRecords /\ r.state = "superseded"
    BY <2>1 DEF KeyRecords
  <2>3. r # Epochs!NoKey
    BY <2>2 DEF Epochs!NoKey
  <2>4. /\ keys' \in [Epochs!Versions -> KeyRecords] /\ keys'[old] = r
        /\ \A v \in Epochs!Versions : v # old => keys'[v] = keys[v]
    BY <2>1, <2>2
  <2>5. \A v \in Epochs!Versions : IsActive(v)' => v # old /\ keys'[v] = keys[v] /\ IsActive(v)
    BY <2>2, <2>4 DEF IsActive
  <2>6. \A v \in Epochs!Versions : (keys'[v] = Epochs!NoKey) <=> (keys[v] = Epochs!NoKey)
    BY <1>3, <1>5, <2>3, <2>4
  <2> QED
    BY <1>1, <1>2, <2>4, <2>5, <2>6, ReleaseKeeps DEF Holding
<1> QED
  BY <1>4, <1>5

\* Every step keeps the invariant of the key.
LEMMA GroupKeyStep ==
  ASSUME Epochs!GroupKeysAssumption, GroupKeyInv, [Epochs!Next]_Epochs!vars
  PROVE  GroupKeyInv'
<1>1. CASE UNCHANGED Epochs!vars
  BY <1>1 DEF Epochs!vars, GroupKeyInv, KeysTyped, InOrder, FitInv, IsActive,
     Replaced, Replacing, Rotating, Renewing, Fits, Among, Pending, PendingLeave
<1>2. CASE \E v \in Epochs!Versions : Epochs!Expire(v)
  BY <1>2, ExpireKeeps
<1>3. ASSUME NEW c \in Callers, NEW u \in Users, Epochs!MemberJoined(c,
             u) \/ Epochs!MemberLeft(c, u)
      PROVE  GroupKeyInv'
  <2>1. members \subseteq Users
    BY DEF GroupKeyInv, KeysTyped
  <2>2. CASE Epochs!MemberJoined(c, u)
    BY <2>1, <2>2, ChangeKeeps DEF Epochs!MemberJoined, Changing
  <2>3. CASE Epochs!MemberLeft(c, u)
    BY <2>1, <2>3, ChangeKeeps DEF Epochs!MemberLeft, Changing
  <2> QED
    BY <1>3, <2>2, <2>3
<1>4. ASSUME NEW c \in Callers,
             \/ Epochs!Ask(c, "establish") \/ Epochs!Ask(c, "manual")
             \/ Epochs!Look(c) \/ Epochs!Enter(c) \/ Epochs!Draw(c) \/ Epochs!Store(c) \/ Epochs!Supersede(c)
      PROVE  GroupKeyInv'
  BY <1>4, AskKeeps, LookKeeps, EnterKeeps, DrawKeeps, StoreKeeps, SupersedeKeeps
<1> QED
  BY <1>1, <1>2, <1>3, <1>4 DEF Epochs!Next

\* What the invariant says of a group at rest.
LEMMA GroupKeyMeans ==
  ASSUME Epochs!GroupKeysAssumption, GroupKeyInv
  PROVE  Epochs!KeyFitsMembers /\ Epochs!OneKeyInUse /\ Epochs!TypeOK
<1>0. KeysTyped /\ InOrder
  BY DEF GroupKeyInv
<1>1. Epochs!TypeOK
  <2>1. \A v \in Epochs!Versions :
          /\ keys[v].state \in {"none", "active", "superseded", "expired"}
          /\ keys[v].for \subseteq Users /\ keys[v].knows \subseteq Users
    BY <1>0 DEF KeysTyped, KeyRecords
  <2> QED
    BY <1>0, <2>1 DEF KeysTyped, Epochs!TypeOK, Holding
<1>2. Epochs!OneKeyInUse
  <2>1. ASSUME lock = Epochs!NoOne
        PROVE  Epochs!ActiveVersions = {} \/ \E v : Epochs!ActiveVersions = {v}
    <3>1. \A v, w \in Epochs!ActiveVersions : v = w
      BY <1>0, <2>1, NobodyHolds, OneActive DEF Epochs!ActiveVersions, IsActive
    <3> QED
      BY <3>1
  <2>2. ASSUME lock = Epochs!NoOne PROVE Cardinality(Epochs!ActiveVersions) <= 1
    <3>1. CASE Epochs!ActiveVersions = {}
      <4>1. Cardinality({}) = 0
        BY FS_EmptySet, ZenonT(20)
      <4> QED
        BY <3>1, <4>1
    <3>2. ASSUME NEW v, Epochs!ActiveVersions = {v}
          PROVE  Cardinality(Epochs!ActiveVersions) <= 1
      <4>1. Cardinality({v}) = 1
        BY FS_Singleton, ZenonT(20)
      <4> QED
        BY <3>2, <4>1
    <3> QED
      BY <2>1, <2>2, <3>1, <3>2
  <2>3. Epochs!Cardinality(Epochs!ActiveVersions) = Cardinality(Epochs!ActiveVersions)
    BY DEF Epochs!Cardinality, Cardinality, Epochs!IsFiniteSet, IsFiniteSet
  <2> QED
    BY <2>2, <2>3 DEF Epochs!OneKeyInUse
<1>3. ASSUME Epochs!Quiet, Epochs!Active # 0, ~ missed
      PROVE  keys[Epochs!Active].for = members /\ keys[Epochs!Active].knows = members
  <2>1. \A c \in Callers : calls[c].op = "idle"
    BY <1>3 DEF Epochs!Quiet, Epochs!Idle
  <2>2. /\ \A v : ~ Replaced(v) /\ ~ Rotating(v) /\ ~ Replacing(v)
        /\ ~ Renewing /\ ~ Pending /\ ~ PendingLeave
    BY <2>1 DEF Replaced, Rotating, Replacing, Renewing, Pending, PendingLeave
  <2>3. Epochs!Active \in Epochs!Versions /\ IsActive(Epochs!Active)
    BY <1>0, <1>3, <2>2, ActiveIs
  <2>4. /\ keys[Epochs!Active].for \subseteq keys[Epochs!Active].knows
        /\ Fits(keys[Epochs!Active].for) /\ Among(keys[Epochs!Active].knows)
    BY <1>3, <2>2, <2>3 DEF GroupKeyInv, FitInv
  <2> QED
    BY <2>2, <2>4 DEF Fits, Among
<1> QED
  BY <1>1, <1>2, <1>3 DEF Epochs!KeyFitsMembers

\* The key in use is that of the members there are (KeyFitsMembers): whatever
\* joins, departures, rotations and expiries of keys come between.
THEOREM KeyIsTheMembers ==
  ASSUME Epochs!GroupKeysAssumption PROVE Epochs!Spec => []Epochs!KeyFitsMembers
BY InitKeys, GroupKeyStep, GroupKeyMeans, PTL DEF Epochs!Spec

\* Between rotations one version of the key is active at most (OneKeyInUse).
THEOREM OneKeyAtATime ==
  ASSUME Epochs!GroupKeysAssumption PROVE Epochs!Spec => []Epochs!OneKeyInUse
BY InitKeys, GroupKeyStep, GroupKeyMeans, PTL DEF Epochs!Spec
================================================================================
