-------------------------------- MODULE Presence --------------------------------
(***************************************************************************)
(* Presence of one device of a user (server/presence/manager/              *)
(* presenceManager.js over the database's repository, with                 *)
(* services/presenceService.js, the heartbeat sweep and the cache of       *)
(* lookups).  Every operation reads the record, awaits and writes from     *)
(* that copy: requests of the device, readers and the sweep overlap.       *)
(***************************************************************************)
EXTENDS Integers

CONSTANTS
  Callers,     \* requests of the device that may be in flight at the same time
  MaxRecords,  \* bound: presence records, one after the other
  Reading      \* the user is looked up, and so in the cache

PresenceAssumption == MaxRecords \in Nat \ {0} /\ Reading \in BOOLEAN

VARIABLES
  record,  \* the record of the device in the database, or None
  made,    \* records made so far
  calls,   \* what each request of the device is at
  sweep,   \* what the sweep is at
  reader,  \* what a request that looks the user up is at
  cache,   \* what the cache says of the user
  device   \* what the device does from now on

vars == <<record, made, calls, sweep, reader, cache, device>>

Reachable == {"online", "away"}
Sweepable == Reachable \cup {"disconnected"}
Statuses == Sweepable \cup {"offline", "expired"}
None == [id |-> 0, status |-> "offline", lapsed |-> FALSE]
Idle == [at |-> "idle"]
Going(c) == calls[c].at
Set(c, call) == calls' = [calls EXCEPT ![c] = call]

\* assertPresenceTransition
CanBecome(from, to) ==
  \/ from = to
  \/ to = "online"
  \/ to = "away" /\ from # "disconnected"
  \/ to \in {"offline", "expired"} /\ from \in Sweepable
  \/ to = "disconnected" /\ from \in Reachable

Init ==
  /\ record = None /\ made = 0
  /\ calls = [c \in Callers |-> Idle]
  /\ sweep = Idle /\ reader = Idle
  /\ cache = "empty" /\ device = "active"

-----------------------------------------------------------------------------
(* Requests of the device. *)

\* An operation starts with the record of the device, or with its identifier
\* as the client knows it.
Ask(c, op) ==
  /\ Going(c) = "idle"
  /\ \/ op \in {"connect", "beat", "online", "away", "disconnected"}
        /\ Set(c, [at |-> "find", op |-> op])
     \/ op \in {"offline", "remove"} /\ record # None
        /\ Set(c, [at |-> "read", op |-> op, id |-> record.id])
  /\ UNCHANGED <<record, made, sweep, reader, cache, device>>

\* findByUserAndDevice of onHeartbeat, setDeviceStatus and onDisconnect, and of
\* onConnect, which beats for a device that is still reachable.
Find(c) ==
  /\ Going(c) = "find"
  /\ LET op == calls[c].op
         beats == op = "connect" /\ record.status \in Reachable
     IN  Set(c, IF op = "connect" /\ ~beats THEN [at |-> "register"]
                ELSE IF record = None THEN Idle
                ELSE [at |-> "read", op |-> IF beats THEN "beat" ELSE op,
                      id |-> record.id])
  /\ UNCHANGED <<record, made, sweep, reader, cache, device>>

\* A write of "status" over whatever the record is by then; "renew" gives a
\* new lease, "tell" empties the cache afterwards.
Writing(id, status, renew, tell) ==
  [at |-> "write", id |-> id, status |-> status, renew |-> renew, tell |-> tell]

\* registerPresence: a device is registered once, an unreachable one revived.
Register(c) ==
  /\ Going(c) = "register"
  /\ Set(c, IF record = None THEN [at |-> "create"]
            ELSE IF record.status \in Reachable THEN Idle
            ELSE Writing(record.id, "online", TRUE, TRUE))
  /\ UNCHANGED <<record, made, sweep, reader, cache, device>>

\* create: the unique index refuses a second record of the device.
Create(c) ==
  /\ Going(c) = "create"
  /\ IF record = None /\ made < MaxRecords
     THEN /\ record' = [id |-> made + 1, status |-> "online", lapsed |-> FALSE]
          /\ made' = made + 1
          /\ Set(c, [at |-> "tell"])
     ELSE Set(c, Idle) /\ UNCHANGED <<record, made>>
  /\ UNCHANGED <<sweep, reader, cache, device>>

\* Mutation: a heartbeat leaves the status of an unreachable device, too.
BeatingOn(copy) == Writing(copy.id, copy.status, TRUE, FALSE)
\* A heartbeat restores an unreachable device, and leaves a reachable one with
\* the status it has in the copy.
Beating(copy) ==
  IF copy.status \in Reachable THEN Writing(copy.id, copy.status, TRUE, FALSE)
  ELSE Writing(copy.id, "online", TRUE, TRUE)

\* heartbeat, updatePresence, markOffline, markDisconnected and removePresence:
\* the record is read, the transition checked on the copy.
Read(c) ==
  /\ Going(c) = "read"
  /\ LET op == calls[c].op
     IN  Set(c, IF record.id # calls[c].id THEN Idle
                ELSE IF op = "beat" THEN Beating(record)
                ELSE IF op = "remove" THEN [at |-> "delete", id |-> record.id]
                ELSE IF CanBecome(record.status, op)
                THEN Writing(record.id, op, FALSE, TRUE) ELSE Idle)
  /\ UNCHANGED <<record, made, sweep, reader, cache, device>>

\* update(presenceId, patch): throws when the record is gone.
Updated(w) ==
  record' = [record EXCEPT !.status = w.status, !.lapsed = @ /\ ~w.renew]
Write(c) ==
  /\ Going(c) = "write"
  /\ IF record.id = calls[c].id
     THEN Updated(calls[c]) /\ Set(c, IF calls[c].tell THEN [at |-> "tell"] ELSE Idle)
     ELSE Set(c, Idle) /\ UNCHANGED record
  /\ UNCHANGED <<made, sweep, reader, cache, device>>

Delete(c) ==
  /\ Going(c) = "delete"
  /\ record' = IF record.id = calls[c].id THEN None ELSE record
  /\ Set(c, [at |-> "tell"])
  /\ UNCHANGED <<made, sweep, reader, cache, device>>

\* _invalidate
Tell(c) ==
  /\ Going(c) = "tell"
  /\ cache' = "empty"
  /\ Set(c, Idle)
  /\ UNCHANGED <<record, made, sweep, reader, device>>

Serve(c) ==
  \/ Find(c) \/ Register(c) \/ Create(c) \/ Read(c) \/ Write(c) \/ Delete(c)
  \/ Tell(c)

-----------------------------------------------------------------------------
(* The sweep, and readers. *)

\* sweepExpired lists the records whose lease is over and writes each from its
\* copy; the cache hears of all of them at the end.
List ==
  /\ sweep.at = "idle" /\ record.lapsed /\ record.status \in Sweepable
  /\ sweep' = Writing(record.id, "expired", FALSE, TRUE)
  /\ UNCHANGED <<record, made, calls, reader, cache, device>>
Expire ==
  /\ sweep.at = "write"
  /\ IF record.id = sweep.id
     THEN Updated(sweep) /\ sweep' = [at |-> "tell"]
     ELSE sweep' = Idle /\ UNCHANGED record
  /\ UNCHANGED <<made, calls, reader, cache, device>>
Conclude ==
  /\ sweep.at = "tell"
  /\ cache' = "empty" /\ sweep' = Idle
  /\ UNCHANGED <<record, made, calls, reader, device>>
Sweep == List \/ Expire \/ Conclude

\* lookupUserPresence of a user the cache does not know lists the reachable
\* devices, awaits and fills the cache.
Look ==
  /\ Reading /\ reader.at = "idle" /\ cache = "empty"
  /\ reader' = [at |-> "fill",
                found |-> IF record.status \in Reachable THEN "listed" ELSE "negative"]
  /\ UNCHANGED <<record, made, calls, sweep, cache, device>>
Fill ==
  /\ reader.at = "fill"
  /\ cache' = reader.found /\ reader' = Idle
  /\ UNCHANGED <<record, made, calls, sweep, device>>

\* getPresence, getDevicePresence and getPresenceStatus expire what they find
\* lapsed (_sweepIfExpired).
Get ==
  /\ Reading /\ reader.at = "idle" /\ record.lapsed /\ record.status \in Sweepable
  /\ reader' = Writing(record.id, "expired", FALSE, TRUE)
  /\ UNCHANGED <<record, made, calls, sweep, cache, device>>
GetExpires ==
  /\ reader.at = "write"
  /\ IF record.id = reader.id
     THEN Updated(reader) /\ reader' = [at |-> "tell"]
     ELSE reader' = Idle /\ UNCHANGED record
  /\ UNCHANGED <<made, calls, sweep, cache, device>>
GetTells ==
  /\ reader.at = "tell"
  /\ cache' = "empty" /\ reader' = Idle
  /\ UNCHANGED <<record, made, calls, sweep, device>>
Answer == Fill \/ GetExpires \/ GetTells

\* An entry of the cache lives for a few seconds (get, pruneExpired).
Forget ==
  /\ cache # "empty" /\ cache' = "empty"
  /\ UNCHANGED <<record, made, calls, sweep, reader, device>>

-----------------------------------------------------------------------------
(* The device and time. *)

\* expiresAt passes; not while the device beats in time.
Lapse ==
  /\ record # None /\ ~record.lapsed /\ device # "steady"
  /\ record' = [record EXCEPT !.lapsed = TRUE]
  /\ UNCHANGED <<made, calls, sweep, reader, cache, device>>

\* From now on the device only beats, and in time, or nothing comes from it.
Become(what) ==
  /\ device = "active" /\ device' = what
  /\ UNCHANGED <<record, made, calls, sweep, reader, cache>>

Act(c) ==
  /\ device = "active"
  /\ \E op \in {"connect", "beat", "online", "away", "disconnected", "offline", "remove"} :
       Ask(c, op)
Beat(c) == device = "steady" /\ Ask(c, "beat")

Next ==
  \/ \E c \in Callers : Act(c) \/ Beat(c) \/ Serve(c)
  \/ Sweep \/ Look \/ Get \/ Answer \/ Forget \/ Lapse
  \/ \E what \in {"steady", "silent"} : Become(what)

\* The sweep's timer, time, and requests that the server answers; a steady
\* device has a timer, too.
Fairness ==
  /\ \A c \in Callers : WF_vars(Serve(c)) /\ WF_vars(Beat(c))
  /\ WF_vars(Sweep) /\ WF_vars(Answer) /\ WF_vars(Forget) /\ WF_vars(Lapse)

Spec == Init /\ [][Next]_vars /\ Fairness

-----------------------------------------------------------------------------
CallTypes ==
  {Idle} \cup [at : {"register", "create", "tell"}]
  \cup [at : {"find"}, op : {"connect", "beat", "online", "away", "disconnected"}]
  \cup [at : {"read"}, id : 1..made,
        op : {"beat", "online", "away", "disconnected", "offline", "remove"}]
  \cup [at : {"write"}, id : 1..made, status : Statuses, renew : BOOLEAN, tell : BOOLEAN]
  \cup [at : {"delete"}, id : 1..made]

TypeOK ==
  /\ made \in 0..MaxRecords
  /\ record = None \/ record \in [id : {made}, status : Statuses, lapsed : BOOLEAN]
  /\ calls \in [Callers -> CallTypes]
  /\ sweep \in CallTypes
  /\ reader \in CallTypes \cup [at : {"fill"}, found : {"listed", "negative"}]
  /\ cache \in {"empty", "listed", "negative"}
  /\ device \in {"active", "steady", "silent"}

\* Whatever a stale heartbeat, disconnect, sweep or lookup wrote before: a
\* registered device that beats in time is reachable in the end and looked up
\* as such, one that fell silent is neither.
Seen == record # None => record.status \in Reachable /\ cache # "negative"
Gone == record.status \notin Reachable /\ cache # "listed"
AsDevice == (device = "steady" => Seen) /\ (device = "silent" => Gone)
SeenInTheEnd == <>[]AsDevice
=============================================================================
