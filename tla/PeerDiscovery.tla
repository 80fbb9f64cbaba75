----------------------------- MODULE PeerDiscovery -----------------------------
(***************************************************************************)
(* Looking up the device of a peer (server/peer-discovery): the registry   *)
(* of devices, the cache before it, and the discovery sessions, of which   *)
(* the lookups of one key share one.  One requester and one target device, *)
(* hence one dedupe key.  Each step is what happens between two awaits.    *)
(***************************************************************************)
EXTENDS Integers

CONSTANTS
  Callers,      \* lookups that may be in progress at the same time
  Sessions,     \* places for session records; an ended session gives up its own
  Requests,     \* what other requests do to sessions, see Ends; and "create"
  MaxVersions,  \* bound: times the device registers
  MaxRestarts   \* bound: times the server restarts

PeerDiscoveryAssumption ==
  /\ Requests \subseteq {"create", "completed", "cancelled", "expired"}
  /\ MaxVersions \in Nat /\ MaxRestarts \in Nat

VARIABLES
  device,    \* its descriptor in the registry; a call between write and cache
  cache,     \* the entry of the key
  sessions,  \* records, each with its result and who created it
  lookups,   \* what each lookup is at
  inflight,  \* _inflight: the lookup others of its key wait for, a set
  request,   \* another request, between its read and its write
  answer,    \* what the last lookup answered
  restarts

vars == <<device, cache, sessions, lookups, inflight, request, answer, restarts>>

\* Descriptors by version; 0 is a device that is not there.  In the cache 0 is
\* the negative entry, and NoEntry is none.
Unknown == 0
NoEntry == -1

Idle == [at |-> "idle", of |-> "none", found |-> Unknown]
Nothing == [of |-> "none", to |-> "none"]
At(c) == lookups[c].at
Go(c, at) == lookups' = [lookups EXCEPT ![c].at = at]

Active == {"created", "pending", "searching", "resolved"}
IsActive(s) == sessions[s].state \in Active
NewSession(by) == [state |-> "created", result |-> Unknown, by |-> by]
\* Nobody will write to this record any more.
Free(s) == ~IsActive(s) /\ request.of # s /\ \A c \in Callers : lookups[c].of # s
SetState(s, to) == sessions' = [sessions EXCEPT ![s].state = to]

Init ==
  /\ device = [version |-> Unknown, made |-> 0, writing |-> FALSE]
  /\ cache = NoEntry
  /\ sessions = [s \in Sessions |-> [NewSession("nobody") EXCEPT !.state = "none"]]
  /\ lookups = [c \in Callers |-> Idle]
  /\ inflight = {}
  /\ request = Nothing
  /\ answer = Unknown
  /\ restarts = 0

-----------------------------------------------------------------------------
(* registerDevice, deregisterDevice: the registry first, then the cache. *)

Register ==
  /\ ~device.writing /\ device.made < MaxVersions
  /\ device' = [version |-> device.made + 1, made |-> device.made + 1, writing |-> TRUE]
  /\ UNCHANGED <<cache, sessions, lookups, inflight, request, answer, restarts>>

Deregister ==
  /\ ~device.writing /\ device.version # Unknown
  /\ device' = [device EXCEPT !.version = Unknown, !.writing = TRUE]
  /\ UNCHANGED <<cache, sessions, lookups, inflight, request, answer, restarts>>

Invalidate ==
  /\ device.writing
  /\ device' = [device EXCEPT !.writing = FALSE]
  /\ cache' = NoEntry
  /\ UNCHANGED <<sessions, lookups, inflight, request, answer, restarts>>

\* An entry is past its TTL.
Forget ==
  /\ cache # NoEntry
  /\ cache' = NoEntry
  /\ UNCHANGED <<device, sessions, lookups, inflight, request, answer, restarts>>

-----------------------------------------------------------------------------
(* _runLookup and _resolvePipeline. *)

\* Mutation: every lookup goes its own way.
LookupAlone(c) ==
  /\ At(c) = "idle"
  /\ Go(c, "find") /\ inflight' = {c}
  /\ UNCHANGED <<device, cache, sessions, request, answer, restarts>>
\* A lookup of a key that is being looked up waits for that answer.
Lookup(c) ==
  /\ At(c) = "idle"
  /\ IF inflight = {} THEN Go(c, "find") /\ inflight' = {c}
     ELSE Go(c, "joined") /\ UNCHANGED inflight
  /\ UNCHANGED <<device, cache, sessions, request, answer, restarts>>

\* Mutation: a lookup that finds nothing stays in flight.
FinishFinding(c, found) ==
  /\ answer' = found
  /\ inflight' = IF found = Unknown THEN inflight ELSE {}
  /\ lookups' = [d \in Callers |-> IF d = c \/ At(d) = "joined" THEN Idle ELSE lookups[d]]
\* The answer, to the others that wait as well; the key is free again.
Finish(c, found) ==
  /\ answer' = found
  /\ inflight' = {}
  /\ lookups' = [d \in Callers |-> IF d = c \/ At(d) = "joined" THEN Idle ELSE lookups[d]]

\* The next step of a lookup with a session in this state.
StepFrom(state) ==
  CASE state = "created" -> "pend" [] state = "pending" -> "search"
    [] state = "searching" -> "probe"

\* An active session of the key is taken up where it is; a RESOLVED one
\* answers the lookup.
FindActive(c) ==
  /\ At(c) = "find"
  /\ \/ /\ \A s \in Sessions : ~IsActive(s)
        /\ Go(c, "create")
        /\ UNCHANGED <<inflight, answer>>
     \/ \E s \in Sessions :
          /\ IsActive(s)
          /\ IF sessions[s].state = "resolved" THEN Finish(c, sessions[s].result)
             ELSE /\ lookups' = [lookups EXCEPT
                       ![c] = [Idle EXCEPT !.at = StepFrom(sessions[s].state), !.of = s]]
                  /\ UNCHANGED <<inflight, answer>>
  /\ UNCHANGED <<device, cache, sessions, request, restarts>>

Create(c) ==
  /\ At(c) = "create"
  /\ \E s \in Sessions :
       /\ Free(s)
       /\ sessions' = [sessions EXCEPT ![s] = NewSession("lookup")]
       /\ lookups' = [lookups EXCEPT ![c] = [Idle EXCEPT !.at = "pend", !.of = s]]
  /\ UNCHANGED <<device, cache, inflight, request, answer, restarts>>

\* Transitions are checked on the copy the lookup has from its last step, so
\* they are always allowed; the record may have been ended meanwhile.
Advance(c, at, to, next) ==
  /\ At(c) = at
  /\ SetState(lookups[c].of, to)
  /\ Go(c, next)
  /\ UNCHANGED <<device, cache, inflight, request, answer, restarts>>
Pend(c) == Advance(c, "pend", "pending", "search")
Search(c) == Advance(c, "search", "searching", "probe")

\* _resolveMetadata: the cache; the registry when there is no entry.
Probe(c) ==
  /\ At(c) = "probe"
  /\ lookups' = [lookups EXCEPT
       ![c].at = IF cache = NoEntry THEN "registry"
                 ELSE IF cache = Unknown THEN "cache" ELSE "resolved",
       ![c].found = IF cache = NoEntry THEN Unknown ELSE cache]
  /\ UNCHANGED <<device, cache, sessions, inflight, request, answer, restarts>>

ReadRegistry(c) ==
  /\ At(c) = "registry"
  /\ lookups' = [lookups EXCEPT ![c].at = "cache", ![c].found = device.version]
  /\ UNCHANGED <<device, cache, sessions, inflight, request, answer, restarts>>

\* What was found goes to the cache, though the device may have registered
\* since; that nothing was found does, too, also when the cache said so.
FillCache(c) ==
  /\ At(c) = "cache"
  /\ cache' = lookups[c].found
  /\ Go(c, IF lookups[c].found = Unknown THEN "failed" ELSE "resolved")
  /\ UNCHANGED <<device, sessions, inflight, request, answer, restarts>>

Conclude(c) ==
  /\ At(c) \in {"resolved", "failed"}
  /\ sessions' = [sessions EXCEPT
       ![lookups[c].of] = [@ EXCEPT !.state = At(c), !.result = lookups[c].found]]
  /\ Finish(c, lookups[c].found)
  /\ UNCHANGED <<device, cache, request, restarts>>

Resolve(c) ==
  \/ FindActive(c) \/ Create(c) \/ Pend(c) \/ Search(c) \/ Probe(c)
  \/ ReadRegistry(c) \/ FillCache(c) \/ Conclude(c)

-----------------------------------------------------------------------------
(* Other requests about sessions, one at a time. *)

\* The states a session can be ended from: completeDiscovery, cancelDiscovery,
\* and what getDiscovery does to one that is past its TTL.
Ends(state) ==
  CASE state = "resolved" -> {"completed", "cancelled"}
    [] state \in Active \ {"resolved"} -> {"cancelled", "expired"}
    [] OTHER -> {}

Ask(s, to) ==
  /\ request = Nothing
  /\ to \in Ends(sessions[s].state)
  /\ request' = [of |-> s, to |-> to]
  /\ UNCHANGED <<device, cache, sessions, lookups, inflight, answer, restarts>>

\* createDiscoverySession looks for an active session, and creates one later.
AskForSession(s) ==
  /\ request = Nothing
  /\ \A r \in Sessions : ~IsActive(r)
  /\ Free(s)
  /\ request' = [of |-> s, to |-> "created"]
  /\ UNCHANGED <<device, cache, sessions, lookups, inflight, answer, restarts>>

\* The write; it goes over whatever the record says by then.
Answer ==
  /\ request # Nothing
  /\ IF request.to = "created"
     THEN /\ sessions' = [sessions EXCEPT ![request.of] = NewSession("request")]
          /\ request' = [request EXCEPT !.to = "pending"]
     ELSE /\ SetState(request.of, request.to)
          /\ request' = Nothing
  /\ UNCHANGED <<device, cache, lookups, inflight, answer, restarts>>

\* The sessions are in the database, the rest is gone.
Restart ==
  /\ restarts < MaxRestarts
  /\ restarts' = restarts + 1
  /\ device' = [device EXCEPT !.writing = FALSE]
  /\ cache' = NoEntry
  /\ lookups' = [c \in Callers |-> Idle]
  /\ inflight' = {}
  /\ request' = Nothing
  /\ UNCHANGED <<sessions, answer>>

Next ==
  \/ Register \/ Deregister \/ Invalidate \/ Forget
  \/ \E c \in Callers : Lookup(c) \/ Resolve(c)
  \/ \E s \in Sessions : \/ \E to \in Requests : Ask(s, to)
                         \/ "create" \in Requests /\ AskForSession(s)
  \/ Answer
  \/ Restart

\* Lookups pause until the entry is past its TTL.
ForgetInPause == inflight = {} /\ Forget

\* Lookups come again and again, but pause at times; who got an answer completes
\* the session.  Without the pauses the negative entry may last for ever: each
\* lookup that finds it arms it anew.
Fairness ==
  /\ \A c \in Callers : WF_vars(Lookup(c)) /\ WF_vars(Resolve(c))
  /\ \A s \in Sessions : WF_vars(Ask(s, "completed"))
  /\ WF_vars(Answer) /\ SF_vars(ForgetInPause) /\ WF_vars(Invalidate)

Spec == Init /\ [][Next]_vars /\ Fairness

-----------------------------------------------------------------------------
Versions == 0..MaxVersions

TypeOK ==
  /\ device.version \in Versions /\ device.made \in Versions
  /\ cache \in Versions \cup {NoEntry} /\ answer \in Versions
  /\ \A s \in Sessions :
       /\ sessions[s].state \in
            Active \cup {"none", "failed", "completed", "cancelled", "expired"}
       /\ sessions[s].result \in Versions
  /\ \A c \in Callers :
       At(c) \in {"idle", "joined", "find", "create", "pend", "search", "probe",
                  "registry", "cache", "resolved", "failed"}
  /\ inflight \subseteq Callers /\ restarts \in 0..MaxRestarts

\* Lookups of one key share one search: they never have two active sessions
\* between them, although sessions are cancelled, completed and expired while a
\* lookup goes on writing to them, and the server restarts in between.
OneSearch ==
  \A s, r \in Sessions :
    IsActive(s) /\ IsActive(r) /\ sessions[s].by = "lookup" /\ sessions[r].by = "lookup"
      => s = r

\* When the device registers no more, lookups answer with its last descriptor
\* in the end: no session, cache entry or search of before stays in the way.
FoundInTheEnd == <>[](answer = device.version)
=============================================================================
