------------------------- MODULE CapabilityNegotiation -------------------------
(***************************************************************************)
(* What a device can do, and what two devices agree on                     *)
(* (server/capabilities): one registered set of capabilities, with its     *)
(* version, and the cache of negotiations, in which the version stands for *)
(* the set.  Negotiations with another device, whose set stays as it is,   *)
(* overlap with updates, refreshes, expiry and removal; a step is what     *)
(* happens between two awaits.                                             *)
(***************************************************************************)
EXTENDS Integers

CONSTANTS
  Callers,    \* requests that may be in progress at the same time
  MaxVersion  \* bound: versions of the set

CapabilityNegotiationAssumption == MaxVersion \in Nat \ {0}

VARIABLES
  set,    \* the registered set: state, version, what it says, has its time passed
  cache,  \* by version of the set: what a set said with which was negotiated
  calls   \* what each request does next, and its copy of the set

vars == <<set, cache, calls>>

\* What a set says is the number of changes it went through; 0: nothing known.
None == 0
Unregistered == [state |-> "none"]
Removed == [state |-> "removed"]
Kept == set \notin {Unregistered, Removed}
Negotiable(copy) == copy.state \in {"registered", "advertised"}

Idle == [op |-> "idle"]
Is(c, op) == calls[c].op = op
Go(c, call) == calls' = [calls EXCEPT ![c] = call]
End(c) == Go(c, Idle)

Init ==
  /\ set = Unregistered
  /\ cache = [v \in 1..MaxVersion |-> None]
  /\ calls = [c \in Callers |-> Idle]

-----------------------------------------------------------------------------
(* The device registers and changes its set, one request after the other;  *)
(* it does not register anew what has expired.                             *)

OneChange == \A d \in Callers : calls[d].op \notin {"advertise", "update"}

\* The upsert of registerCapabilities.
Register(c) ==
  /\ Is(c, "idle") /\ set = Unregistered
  /\ set' = [state |-> "registered", version |-> 1, says |-> 1, lapsed |-> FALSE]
  /\ Go(c, [op |-> "advertise"])
  /\ UNCHANGED cache

Update(c) ==
  /\ Is(c, "idle") /\ Kept /\ OneChange /\ set.version < MaxVersion
  /\ Go(c, [op |-> "update", copy |-> set])
  /\ UNCHANGED <<set, cache>>

Refresh(c) ==
  /\ Is(c, "idle") /\ Kept
  /\ Go(c, [op |-> "refresh"])
  /\ UNCHANGED <<set, cache>>

\* Mutation: a set that is advertised anew keeps its version.
SameVersion(copy) ==
  [version |-> copy.version, says |-> copy.says + 1, lapsed |-> FALSE]
\* The fields an update writes.
NextVersion(copy) ==
  [version |-> copy.version + 1, says |-> copy.says + 1, lapsed |-> FALSE]

\* The write of each, over whatever the set is by then.
Advertise(c) ==
  /\ Kept
  /\ \/ Is(c, "advertise") /\ set' = [set EXCEPT !.state = "advertised"]
     \/ Is(c, "refresh") /\ set' = [set EXCEPT !.state = "advertised", !.lapsed = FALSE]
     \/ Is(c, "update")
        /\ LET next == NextVersion(calls[c].copy)
           IN set' = [state |-> "advertised", version |-> next.version,
                      says |-> next.says, lapsed |-> next.lapsed]
  /\ Go(c, [op |-> "invalidate"])
  /\ UNCHANGED cache

Remove(c) ==
  /\ Is(c, "idle") /\ Kept
  /\ set' = Removed
  /\ Go(c, [op |-> "invalidate"])
  /\ UNCHANGED cache

\* The set is no longer there to be written.
NotFound(c) ==
  /\ calls[c].op \in {"advertise", "refresh", "update", "expire"} /\ ~Kept
  /\ End(c)
  /\ UNCHANGED <<set, cache>>

Lapse ==
  /\ Kept
  /\ set' = [set EXCEPT !.lapsed = TRUE]
  /\ UNCHANGED <<cache, calls>>

\* EXPIRED, decided on a copy whose time had passed.
Expire(c) ==
  /\ Is(c, "expire") /\ Kept
  /\ set' = [set EXCEPT !.state = "expired"]
  /\ Go(c, [op |-> "invalidate"])
  /\ UNCHANGED cache

\* invalidateDevice, after the write was answered.
Invalidate(c) ==
  /\ Is(c, "invalidate")
  /\ cache' = [v \in 1..MaxVersion |-> None]
  /\ End(c)
  /\ UNCHANGED set

-----------------------------------------------------------------------------
(* Negotiations. *)

\* resolveCapabilities: a set whose time has passed is marked, and the
\* negotiation refused; otherwise it waits for the set of the other device.
Negotiate(c) ==
  /\ Is(c, "idle") /\ Kept /\ Negotiable(set)
  /\ Go(c, IF set.lapsed THEN [op |-> "expire"] ELSE [op |-> "answer", copy |-> set])
  /\ UNCHANGED <<set, cache>>

\* The cached result under the version of the copy, or a new one.
Answer(c) ==
  /\ Is(c, "answer")
  /\ LET copy == calls[c].copy
     IN cache' = [cache EXCEPT ![copy.version] = IF @ = None THEN copy.says ELSE @]
  /\ End(c)
  /\ UNCHANGED set

\* An entry of the cache is too old, or gives way to others.
Forget(v) ==
  /\ cache[v] # None
  /\ cache' = [cache EXCEPT ![v] = None]
  /\ UNCHANGED <<set, calls>>

Next ==
  \/ \E c \in Callers :
       \/ Register(c) \/ Update(c) \/ Refresh(c) \/ Advertise(c) \/ Remove(c)
       \/ NotFound(c) \/ Expire(c) \/ Invalidate(c) \/ Negotiate(c) \/ Answer(c)
  \/ Lapse
  \/ \E v \in 1..MaxVersion : Forget(v)

Spec == Init /\ [][Next]_vars

-----------------------------------------------------------------------------
TypeOK ==
  /\ Kept => /\ set.state \in {"registered", "advertised", "expired"}
             /\ set.version \in 1..MaxVersion
             /\ set.says \in 1..MaxVersion /\ set.lapsed \in BOOLEAN
  /\ cache \in [1..MaxVersion -> 0..MaxVersion]
  /\ \A c \in Callers :
       calls[c].op \in {"idle", "advertise", "update", "refresh", "invalidate",
                        "expire", "answer"}

\* A negotiation is answered for the sets it read: whatever was negotiated and
\* put into the cache since, also by a request that read an older set and comes
\* late, after the cache was cleared for the update, the entry it will find
\* under the version of its copy is of what that copy says.
AnswersFitSets ==
  \A c \in Callers :
    Is(c, "answer") => cache[calls[c].copy.version] \in {None, calls[c].copy.says}
=============================================================================
