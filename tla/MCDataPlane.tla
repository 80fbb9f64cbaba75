------------------------------ MODULE MCDataPlane ------------------------------
(***************************************************************************)
(* The reliable messaging engine for model checking: its sending side      *)
(* alone, before a peer that may answer whatever was carried, and both     *)
(* ends.  "part" chooses in the initial state.                             *)
(***************************************************************************)
EXTENDS ReliableMessaging

VARIABLE part

\* The sending process may restart, and its connection comes and goes; or it
\* keeps running while messages are cancelled and pass their TTL.
Restarting == INSTANCE OutboundMessaging
                WITH Allowed <- {"link down", "flush"}
Running == INSTANCE OutboundMessaging
             WITH MaxRestarts <- 0, Allowed <- {"link down", "cancel", "expiry"}

\* The transport loses envelopes; or it brings them again.
Repeating == INSTANCE ReliableMessaging WITH Loss <- FALSE, Duplication <- TRUE

ASSUME OutboundHolds ==
  Restarting!OutboundAssumption /\ Running!OutboundAssumption

SendingInit == part \in {"restarting", "running"} /\ Init

SendingNext ==
  /\ UNCHANGED <<part, receiver, acks>>
  /\ \/ part = "restarting" /\ Restarting!Next
     \/ part = "running" /\ Running!Next

\* The fairness of OutboundMessaging, in both parts.
SendingSpec ==
  SendingInit /\ [][SendingNext]_<<vars, part>> /\ Running!Fairness

EndsInit == part \in {"losing", "repeating"} /\ Init

EndsNext ==
  /\ UNCHANGED part
  /\ \/ part = "losing" /\ Next
     \/ part = "repeating" /\ Repeating!Next

\* For the part that loses: the engines keep working (as in
\* OutboundMessaging), inbound.record answers, and an envelope the transport
\* neither loses nor holds back for ever arrives.
Losing == part = "losing"
EndsFairness ==
  /\ \A m \in Messages :
       /\ WF_vars(Losing /\ ReceiveData(m)) /\ WF_vars(Losing /\ TimerRuns(m))
       /\ WF_vars(Losing /\ SendWork(m)) /\ WF_vars(Losing /\ HandOverWork(m))
  /\ \A s \in Senders, w \in Sweepers :
       WF_vars(Losing /\ Ticks(w, s)) /\ WF_vars(Losing /\ SweepWork(w, s))
  /\ \A a \in AckIds :
       WF_vars(Losing /\ ReceiveAck(a)) /\ WF_vars(Losing /\ AckWork(a))

EndsSpec == EndsInit /\ [][EndsNext]_<<vars, part>> /\ EndsFairness

-----------------------------------------------------------------------------
\* While the process keeps running, and no flush keeps it busy, every message
\* comes to an end: it is acknowledged, fails, expires or is cancelled.
SettlesRunning == part = "running" => Running!Settles

\* Both ends.  However many envelopes and ACKs are lost: once a message and all
\* before it are acknowledged, the application gets it.
ReachesAppInTheEnd ==
  \A m \in Messages :
    (Losing /\ \A k \in Messages : k.from = m.from /\ k.seq <= m.seq =>
       msgs[k].state = "acknowledged") ~> In!InSequence(m, app)
=============================================================================
