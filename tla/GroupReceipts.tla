---------------------------- MODULE GroupReceipts ----------------------------
(***************************************************************************)
(* The receipts of one group message                                       *)
(* (server/group-receipts/manager/groupReceiptManager.js with aggregator,  *)
(* trackers, receipt policy, cache and repository).  A report of a member  *)
(* (any of its devices) updates the member's receipt and then, only when   *)
(* the member changed, the counters of the aggregate, under a lock per     *)
(* message; reading a receipt takes no lock and fills the cache.           *)
(***************************************************************************)
EXTENDS Integers, FiniteSets

CONSTANTS
  Members,       \* the applicable members of the message
  ReadExcluded,  \* those of them whose reads are not to count
  Callers,       \* reports that may be in flight at the same time
  CountMayFail   \* whether writing the aggregate may fail

GroupReceiptsAssumption ==
  /\ IsFiniteSet(Members) /\ ReadExcluded \subseteq Members
  /\ "no one" \notin Callers /\ CountMayFail \in BOOLEAN

VARIABLES
  aggregate, \* the counters, or NoAggregate before registerMessage
  receipts,  \* what each member's receipt says
  lock,      \* the caller that holds the message's lock
  calls,     \* what each caller is at
  cache,     \* the counters the cached view shows, or NoAggregate
  missed     \* deliveries and reads that were stored but never counted

vars == <<aggregate, receipts, lock, calls, cache, missed>>

NoAggregate == [delivered |-> -1, read |-> -1]
NoOne == "no one"
Idle == [op |-> "idle"]
Kinds == {"delivered", "read", "failed"}

Least(a, b) == IF a < b THEN a ELSE b
Applicable == Cardinality(Members)
ReadApplicable == Cardinality(Members \ ReadExcluded)

Init ==
  /\ aggregate = NoAggregate /\ cache = NoAggregate
  /\ receipts = [m \in Members |-> [delivered |-> FALSE, read |-> FALSE]]
  /\ lock = NoOne
  /\ calls = [c \in Callers |-> Idle]
  /\ missed = [delivered |-> 0, read |-> 0]

Busy(c, call) == calls' = [calls EXCEPT ![c] = call]
\* The call ends and lets the next one in.
Release(c) == Busy(c, Idle) /\ lock' = NoOne

\* registerMessage
Register ==
  /\ aggregate = NoAggregate /\ lock = NoOne
  /\ aggregate' = [delivered |-> 0, read |-> 0]
  /\ cache' = aggregate'
  /\ UNCHANGED <<receipts, lock, calls, missed>>

Reports(c, m, kind) ==
  Busy(c, [op |-> "store", member |-> m, kind |-> kind,
           aggregate |-> aggregate, receipt |-> receipts[m]])

\* Mutation: reports do not wait for each other.
ReportUnlocked(c, m, kind) ==
  /\ calls[c] = Idle /\ aggregate # NoAggregate
  /\ Reports(c, m, kind)
  /\ UNCHANGED <<lock, aggregate, receipts, cache, missed>>

\* trackDelivery, trackRead: in its turn, the aggregate and the receipt.
Report(c, m, kind) ==
  /\ calls[c] = Idle /\ aggregate # NoAggregate
  /\ lock = NoOne /\ lock' = c
  /\ Reports(c, m, kind)
  /\ UNCHANGED <<aggregate, receipts, cache, missed>>

\* Mutation: every report counts, also of a second device.
BecameEvery(call) == [delivered |-> call.kind # "failed", read |-> call.kind = "read"]

\* applyDelivery, applyRead: what is new for the member, whose receipt may
\* have come from another of its devices.  A read is a delivery as well.
Became(call) ==
  [delivered |-> call.kind # "failed" /\ ~ call.receipt.delivered,
   read      |-> call.kind = "read" /\ ~ call.receipt.read]

StoreReceipt(c) ==
  LET call == calls[c]
      became == Became(call)
  IN /\ call.op = "store"
     /\ receipts' = [receipts EXCEPT ![call.member] =
          [delivered |-> call.receipt.delivered \/ became.delivered,
           read      |-> call.receipt.read \/ became.read]]
     /\ Busy(c, IF became.delivered \/ became.read
                  THEN [op |-> "count", became |-> became, aggregate |-> call.aggregate]
                  ELSE [op |-> "refresh"])
     /\ UNCHANGED <<aggregate, lock, cache, missed>>

Misses(became) ==
  missed' = [delivered |-> missed.delivered + IF became.delivered THEN 1 ELSE 0,
             read |-> missed.read + IF became.read THEN 1 ELSE 0]

\* _commitDelivery, _commitRead: one member more.
Count(c) ==
  /\ calls[c].op = "count"
  /\ aggregate' =
       [delivered |-> Least(Applicable, calls[c].aggregate.delivered
                              + IF calls[c].became.delivered THEN 1 ELSE 0),
        read |-> Least(ReadApplicable, calls[c].aggregate.read
                              + IF calls[c].became.read THEN 1 ELSE 0)]
  /\ Busy(c, [op |-> "refresh"])
  /\ UNCHANGED <<receipts, lock, cache, missed>>

CountFails(c) ==
  /\ CountMayFail /\ calls[c].op = "count"
  /\ Misses(calls[c].became)
  /\ Release(c)
  /\ UNCHANGED <<aggregate, receipts, cache>>

\* _afterAggregate, _refreshCache: the view of the stored aggregate.
Refresh(c) ==
  /\ calls[c].op = "refresh"
  /\ cache' = aggregate
  /\ Release(c)
  /\ UNCHANGED <<aggregate, receipts, missed>>

\* getReceipt that finds nothing in the cache: reads, then fills the cache.
Look(c) ==
  /\ calls[c] = Idle /\ cache = NoAggregate /\ aggregate # NoAggregate
  /\ Busy(c, [op |-> "fill", view |-> aggregate])
  /\ UNCHANGED <<aggregate, receipts, lock, cache, missed>>

Fill(c) ==
  /\ calls[c].op = "fill"
  /\ cache' = calls[c].view
  /\ Busy(c, Idle)
  /\ UNCHANGED <<aggregate, receipts, lock, missed>>

\* The entry's time is over, or newer ones took its place.
Forget ==
  /\ cache # NoAggregate
  /\ cache' = NoAggregate
  /\ UNCHANGED <<aggregate, receipts, lock, calls, missed>>

\* The process restarts: locks, calls and cache are lost.
Restart ==
  /\ cache' = NoAggregate /\ lock' = NoOne
  /\ calls' = [c \in Callers |-> Idle]
  /\ IF lock # NoOne /\ calls[lock].op = "count" THEN Misses(calls[lock].became)
     ELSE UNCHANGED missed
  /\ UNCHANGED <<aggregate, receipts>>

Proceed(c) == StoreReceipt(c) \/ Count(c) \/ CountFails(c) \/ Refresh(c) \/ Fill(c)

Next ==
  \/ Register \/ Forget \/ Restart
  \/ \E c \in Callers :
       \/ Look(c) \/ Proceed(c)
       \/ \E m \in Members, kind \in Kinds : Report(c, m, kind)

Spec == Init /\ [][Next]_vars

-----------------------------------------------------------------------------

\* computeTick with the default policy.
Tick(counts) ==
  IF counts = NoAggregate \/ Applicable = 0 \/ counts.delivered < Applicable
    THEN "single"
  ELSE IF ReadApplicable = 0 \/ counts.read < ReadApplicable THEN "grey"
  ELSE "blue"

Rank == [single |-> 0, grey |-> 1, blue |-> 2]

TypeOK ==
  /\ aggregate \in {NoAggregate} \cup [delivered : 0..Applicable, read : 0..ReadApplicable]
  /\ cache \in {NoAggregate} \cup [delivered : 0..Applicable, read : 0..ReadApplicable]
  /\ receipts \in [Members -> [delivered : BOOLEAN, read : BOOLEAN]]
  /\ lock \in Callers \cup {NoOne}
  /\ missed \in [delivered : 0..Applicable, read : 0..Applicable]

DeliveredTo == {m \in Members : receipts[m].delivered}

\* The double tick is earned: it is shown, also from the cache, only when
\* every applicable member has the message on some device ("Message exists
\* but is not yet delivered to every applicable member" is the single tick).
TickIsEarned ==
  Tick(aggregate) # "single" \/ Tick(cache) # "single" => DeliveredTo = Members

\* Members are counted once, however many devices report and however often,
\* and none is forgotten but those whose count failed.
CountsAreReceipts ==
  lock = NoOne /\ aggregate # NoAggregate =>
    aggregate.delivered + missed.delivered = Cardinality(DeliveredTo)

\* The tick of a message never goes back.
TickRises ==
  Rank[Tick(aggregate')] >= Rank[Tick(aggregate)]
TickOnlyRises == [][TickRises]_vars

\* The blue tick means that all members whose reads count have read.
BlueMeansRead ==
  Tick(aggregate) = "blue" => \A m \in Members \ ReadExcluded : receipts[m].read
=============================================================================
