--------------------------- MODULE NetworkReliability ---------------------------
(***************************************************************************)
(* One connection between two devices as server/network-reliability keeps  *)
(* it: the device beats, a periodic sweep recovers the connection when its *)
(* lease has lapsed, requests recover or close it.  All of them read the   *)
(* record, decide on the copy, and write; a recovery writes three times    *)
(* and asks the transport in between.  A step is what happens between two  *)
(* awaits.                                                                 *)
(***************************************************************************)
EXTENDS Naturals

CONSTANTS
  Callers,    \* requests that may be in progress at the same time
  BlindHooks, \* the transport is said to be restored without asking the device
  MaxCrashes  \* bound: crashes of the server

NetworkReliabilityAssumption ==
  BlindHooks \in BOOLEAN /\ MaxCrashes \in Nat /\ {"device", "sweep"} \cap Callers = {}

VARIABLES
  conn,    \* the record: its state, and whether its lease has lapsed
  device,  \* "beating" or "silent"
  calls,   \* what the requests, the heartbeat and the sweep are at
  crashes

vars == <<conn, device, calls, crashes>>

\* The sweep is one process, since a sweep that overtakes another does what a
\* request to recover does.
Processes == Callers \cup {"device", "sweep"}

\* DEGRADED and NEW, which no operation writes, are left out.
States == {"connecting", "connected", "disconnected", "reconnecting",
           "recovering", "failed", "closed"}
Live == {"connected"}
InRecovery == {"disconnected", "reconnecting", "recovering"}
Sweepable == {"connecting", "connected", "reconnecting"}

\* ALLOWED_TRANSITIONS into the states of a recovery.
From(state) ==
  CASE state = "reconnecting" -> {"disconnected", "recovering", "failed", "reconnecting"}
    [] state = "recovering" -> {"disconnected", "reconnecting", "recovering"}

Idle == [at |-> "idle"]
At(p, step) == calls[p].at = step
Go(p, call) == calls' = [calls EXCEPT ![p] = call]
\* The plan says in which state a recovery waits for the transport.
On(p, step) == [at |-> step, plan |-> calls[p].plan]

\* registerConnection
Init ==
  /\ conn \in [state : {"connecting", "connected"}, lapsed : {FALSE}]
  /\ device = "beating"
  /\ calls = [p \in Processes |-> Idle]
  /\ crashes = 0

-----------------------------------------------------------------------------
(* The device. *)

Beat ==
  /\ device = "beating" /\ At("device", "idle")
  /\ Go("device", [at |-> "beat", copy |-> conn.state])
  /\ UNCHANGED <<conn, device, crashes>>

\* Mutation: only a connection that waits for its device is revived.
RevivedWaiting == {"connecting", "disconnected", "reconnecting"}
Revived == States \ (Live \cup {"closed", "failed"})

\* recordHeartbeat renews the lease, and the state if the copy was not live.
BeatRecorded ==
  /\ At("device", "beat")
  /\ conn' = [state |-> IF calls["device"].copy \in Revived THEN "connected"
                        ELSE conn.state,
              lapsed |-> FALSE]
  /\ Go("device", Idle)
  /\ UNCHANGED <<device, crashes>>

FallSilent ==
  /\ device = "beating"
  /\ device' = "silent"
  /\ UNCHANGED <<conn, calls, crashes>>

Lapse ==
  /\ ~conn.lapsed
  /\ conn' = [conn EXCEPT !.lapsed = TRUE]
  /\ UNCHANGED <<device, calls, crashes>>

-----------------------------------------------------------------------------
(* recover: for a request, or for the sweep, which lists the connections    *)
(* whose lease has lapsed and reads each again without another look at it.  *)

Ask(c) ==
  /\ At(c, "idle")
  /\ \E plan \in {"reconnecting", "recovering"} : Go(c, [at |-> "read", plan |-> plan])
  /\ UNCHANGED <<conn, device, crashes>>

List ==
  /\ At("sweep", "idle")
  /\ conn.lapsed /\ conn.state \in Sweepable
  /\ Go("sweep", [at |-> "read", plan |-> "reconnecting"])
  /\ UNCHANGED <<conn, device, crashes>>

Read(p) ==
  /\ At(p, "read")
  /\ Go(p, IF conn.state \in Live THEN On(p, "drop")
           ELSE IF conn.state = calls[p].plan THEN On(p, "transport")
           ELSE IF conn.state \in From(calls[p].plan) THEN On(p, "begin")
           ELSE Idle)
  /\ UNCHANGED <<conn, device, crashes>>

Write(p, step, state, next) ==
  /\ At(p, step)
  /\ conn' = [conn EXCEPT !.state = state]
  /\ Go(p, next)
  /\ UNCHANGED <<device, crashes>>

Drop(p) == Write(p, "drop", "disconnected", On(p, "begin"))
Begin(p) == At(p, "begin") /\ Write(p, "begin", calls[p].plan, On(p, "transport"))

\* The transport restores the connection with a device that is there, unless
\* the attempts run out.  The hooks of the controller answer blindly: it is the
\* device that does the work, and is to confirm it by a heartbeat.
Transport(p) ==
  /\ At(p, "transport")
  /\ \/ (device = "beating" \/ BlindHooks) /\ Go(p, On(p, "recovered"))
     \/ Go(p, On(p, "exhausted"))
  /\ UNCHANGED <<conn, device, crashes>>

Recovered(p) ==
  /\ At(p, "recovered")
  /\ conn' = [state |-> "connected", lapsed |-> FALSE]
  /\ Go(p, Idle)
  /\ UNCHANGED <<device, crashes>>

Exhausted(p) == Write(p, "exhausted", "failed", Idle)

-----------------------------------------------------------------------------
\* closeConnection, of a copy in any state.
AskClose(c) ==
  /\ At(c, "idle")
  /\ Go(c, [at |-> "close"])
  /\ UNCHANGED <<conn, device, crashes>>
Close(c) == Write(c, "close", "closed", Idle)

\* The server goes down: what the calls were at is gone.
Crash ==
  /\ crashes < MaxCrashes
  /\ crashes' = crashes + 1
  /\ calls' = [p \in Processes |-> Idle]
  /\ UNCHANGED <<conn, device>>

Step(p) ==
  \/ Read(p) \/ Drop(p) \/ Begin(p) \/ Transport(p) \/ Recovered(p)
  \/ Exhausted(p) \/ Close(p)

Next ==
  \/ Beat \/ BeatRecorded \/ FallSilent \/ Lapse \/ List \/ Crash
  \/ \E c \in Callers : Ask(c) \/ AskClose(c)
  \/ \E p \in Processes : Step(p)

\* Repository and transport answer, the device beats on, its lease runs out
\* when it does not, and setInterval starts the sweep again.
Fairness ==
  /\ \A p \in Processes : WF_vars(Step(p))
  /\ WF_vars(Beat) /\ WF_vars(BeatRecorded) /\ WF_vars(Lapse) /\ WF_vars(List)

Spec == Init /\ [][Next]_vars /\ Fairness

-----------------------------------------------------------------------------
TypeOK ==
  /\ conn \in [state : States, lapsed : BOOLEAN]
  /\ device \in {"beating", "silent"}
  /\ \A p \in Processes :
       calls[p].at \in {"idle", "beat", "read", "drop", "begin", "transport",
                        "recovered", "exhausted", "close"}
  /\ crashes \in 0..MaxCrashes

\* The connection of a device that beats on does not stay in recovery, not even
\* when the server crashes in the middle of one.
Settled == device = "beating" => conn.state \notin InRecovery \cup {"connecting"}
RecoveryEnds == []<>Settled

\* The connection of a device that fell silent is not taken for a live one for
\* ever, whatever heartbeats, sweeps and requests are still under way.  Not with
\* blind hooks: each sweep revives it and renews its lease.
Noticed == device = "silent" => conn.state \notin Live
SilenceIsNoticed == <>[]Noticed
=============================================================================
