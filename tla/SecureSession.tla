---------------------------- MODULE SecureSession ----------------------------
(***************************************************************************)
(* A secure session on the device that holds its keys                      *)
(* (server/shs/session/manager/sessionManager.js with lifecycle, key store *)
(* and repository).  Operations read the session's record, decide on what  *)
(* they read, write the record and, some before and some after that, change *)
(* the keys in the device's key store.  Callers may overlap.               *)
(***************************************************************************)
EXTENDS Integers

CONSTANTS
  Callers,       \* operations that may be in flight at the same time
  MaxGeneration  \* bound: rekeys

SecureSessionAssumption == MaxGeneration \in Nat

VARIABLES
  session, \* the record: [status, generation]
  keys,    \* generation of the keys in the key store, or NoKeys
  calls    \* the operation each caller is in

vars == <<session, keys, calls>>

NoKeys == -1
Usable == {"active", "idle", "paused", "resumed"}
Ended == {"expired", "closed", "invalid", "failed"}
\* A record that is not there yet, and one that was deleted.
Missing == {"none", "destroyed"}

\* ALLOWED_TRANSITIONS
Allowed ==
  ({"created"} \X {"active", "failed", "invalid"})
  \cup {<<"active", "idle">>, <<"active", "paused">>, <<"idle", "active">>,
        <<"idle", "resumed">>, <<"paused", "resumed">>, <<"resumed", "active">>,
        <<"resumed", "idle">>, <<"invalid", "failed">>}
  \cup (Usable \X {"expired", "closed"}) \cup {<<"expired", "closed">>}
  \cup ({"active", "idle", "paused"} \X {"invalid"})

Idle == [op |-> "idle"]
Free(c) == calls[c] = Idle
Busy(c, call) == calls' = [calls EXCEPT ![c] = call]
Moving(from, to) == [op |-> "move", from |-> from, to |-> to]

Init ==
  /\ session = [status |-> "none", generation |-> 0]
  /\ keys = NoKeys
  /\ calls = [c \in Callers |-> Idle]

\* establishSession: the record is created, then the keys are stored and the
\* session is activated.  Its id is not known to other callers before that.
Establish(c) ==
  /\ Free(c) /\ session.status = "none"
  /\ session' = [session EXCEPT !.status = "created"]
  /\ Busy(c, [op |-> "establish"])
  /\ UNCHANGED keys

StoreKeys(c) ==
  /\ calls[c].op = "establish"
  /\ keys' = 0
  /\ Busy(c, Moving("created", "active"))
  /\ UNCHANGED session

\* An operation reads the session and will move it to "to": trackActivity,
\* markIdle, pauseSession, resumeSession, closeSession, expireSession (also
\* from the sweep and on reading a session past its time), validateSession.
Decide(c, to) ==
  /\ Free(c)
  /\ session.status \in Usable \cup Ended
  /\ <<session.status, to>> \in Allowed
  /\ to = "active" => session.status = "idle"
  /\ Busy(c, Moving(session.status, to))
  /\ UNCHANGED <<session, keys>>

Operations == {"active", "idle", "paused", "resumed", "closed", "expired", "invalid"}

\* Mutation: updating a record that was deleted brings it back.
WriteUpserting(c) ==
  LET to == calls[c].to
  IN /\ calls[c].op = "move"
     /\ session' = [session EXCEPT !.status = to]
     /\ Busy(c, CASE to = "resumed" -> Moving(to, "active")
                  [] to = "closed" -> [op |-> "wipe"]
                  [] OTHER -> Idle)
     /\ UNCHANGED keys

\* _transition writes the status, whatever it is by now.  A resumed session
\* is then activated, a closed one loses its keys.
Write(c) ==
  LET to == calls[c].to
  IN /\ calls[c].op = "move" /\ session.status \notin Missing
     /\ session' = [session EXCEPT !.status = to]
     /\ Busy(c, CASE to = "resumed" -> Moving(to, "active")
                  [] to = "closed" -> [op |-> "wipe"]
                  [] OTHER -> Idle)
     /\ UNCHANGED keys

\* The update finds no record: the operation fails.
WriteMissing(c) ==
  /\ calls[c].op \in {"move", "rekey"} /\ session.status \in Missing
  /\ Busy(c, Idle)
  /\ UNCHANGED <<session, keys>>

Wipe(c) ==
  /\ calls[c].op = "wipe"
  /\ keys' = NoKeys
  /\ Busy(c, Idle)
  /\ UNCHANGED session

\* destroySession: allowed from every state; keys first, then the record.
Destroy(c) ==
  /\ Free(c) /\ session.status \in Usable \cup Ended
  /\ keys' = NoKeys
  /\ Busy(c, [op |-> "destroy"])
  /\ UNCHANGED session

DestroyWrite(c) ==
  /\ calls[c].op = "destroy"
  /\ session' = [session EXCEPT !.status = "destroyed"]
  /\ Busy(c, Idle)
  /\ UNCHANGED keys

\* rekey: reads the session.
Rekey(c) ==
  /\ Free(c) /\ session.status \in Usable
  /\ session.generation < MaxGeneration
  /\ Busy(c, [op |-> "derive", generation |-> session.generation + 1])
  /\ UNCHANGED <<session, keys>>

\* Mutation: the key store takes keys for a session it has none of.
ReplaceKeysAlways(c) ==
  /\ calls[c].op = "derive"
  /\ keys' = calls[c].generation
  /\ Busy(c, [calls[c] EXCEPT !.op = "rekey"])
  /\ UNCHANGED session

\* The new keys replace the old ones; without keys the operation fails.
ReplaceKeys(c) ==
  /\ calls[c].op = "derive"
  /\ IF keys = NoKeys THEN UNCHANGED keys ELSE keys' = calls[c].generation
  /\ Busy(c, IF keys = NoKeys THEN Idle ELSE [calls[c] EXCEPT !.op = "rekey"])
  /\ UNCHANGED session

RekeyWrite(c) ==
  /\ calls[c].op = "rekey" /\ session.status \notin Missing
  /\ session' = [session EXCEPT !.generation = calls[c].generation]
  /\ Busy(c, Idle)
  /\ UNCHANGED keys

\* The device restarts: the key store starts empty, the record stays.
Restart ==
  /\ keys' = NoKeys
  /\ calls' = [c \in Callers |-> Idle]
  /\ UNCHANGED session

Next ==
  \/ Restart
  \/ \E c \in Callers :
       \/ Establish(c) \/ StoreKeys(c) \/ Write(c) \/ WriteMissing(c) \/ Wipe(c)
       \/ Destroy(c) \/ DestroyWrite(c)
       \/ Rekey(c) \/ ReplaceKeys(c) \/ RekeyWrite(c)
       \/ \E to \in Operations : Decide(c, to)

Spec == Init /\ [][Next]_vars

-----------------------------------------------------------------------------

TypeOK ==
  /\ session \in [status : {"created"} \cup Usable \cup Ended \cup Missing,
                  generation : 0..MaxGeneration]
  /\ keys \in 0..MaxGeneration \cup {NoKeys}
  /\ \A c \in Callers : calls[c].op \in
       {"idle", "establish", "move", "wipe", "destroy", "derive", "rekey"}

\* A session that was closed or destroyed leaves no keys behind, even when it
\* was being rekeyed at the time (closeSession, destroySession, rekey).
EndedHasNoKeys ==
  session.status \in {"closed", "destroyed"} /\ (\A c \in Callers : Free(c))
    => keys = NoKeys

\* A destroyed session never comes back: operations that had read it earlier
\* fail (repository update).
StaysDestroyed ==
  session.status = "destroyed" => session'.status = "destroyed"
DestroyedForGood == [][StaysDestroyed]_vars

=============================================================================
