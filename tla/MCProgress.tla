------------------------------ MODULE MCProgress ------------------------------
(***************************************************************************)
(* The services of the server of which something must happen in the end,   *)
(* each on its own, for model checking: "part" chooses one in the initial  *)
(* state, it uses as many of the variables as it has, and the others stay  *)
(* Unused.  Fairness is stated for the steps of that part only.            *)
(***************************************************************************)
EXTENDS Integers

CONSTANTS
  Message,   \* the message of the conversation
  Requests,  \* requests that may be in flight at the same time
  Devices

VARIABLES part, v1, v2, v3, v4, v5, v6, v7, v8, v9, v10

all == <<part, v1, v2, v3, v4, v5, v6, v7, v8, v9, v10>>
Unused == "unused"

Chat == INSTANCE DirectChat
  WITH Messages <- {Message}, Fetches <- Requests, MaxSockets <- 2,
       status <- v1, sending <- v2, connected <- v3, closing <- v4,
       directory <- v5, inbox <- v6, open <- v7, list <- v8, fetches <- v9,
       marking <- v10
Rekey == INSTANCE AutomaticRekey
  WITH Callers <- Requests, Retained <- 1, MaxGeneration <- 1,
       UpdateMayFail <- TRUE, MaxAttempts <- 2, MaxExecutions <- 2,
       PersistMayFail <- TRUE,
       store <- v1, record <- v2, calls <- v3, triggers <- v4, queue <- v5,
       pending <- v6, executions <- v7
\* With the queue in the database, of one request of a device at a time.
Fanout == INSTANCE GroupFanout
  WITH Requests <- {1}, AtomicDrain <- FALSE, SendMayFail <- TRUE,
       ResumeMayFail <- TRUE,
       plan <- v1, queue <- v2, sender <- v3, requests <- v4, sent <- v5,
       confirmed <- v6, lost <- v7, shared <- v8
Here == INSTANCE Presence
  WITH Callers <- Requests, MaxRecords <- 1, Reading <- FALSE,
       record <- v1, made <- v2, calls <- v3, sweep <- v4, reader <- v5,
       cache <- v6, device <- v7
\* The same of one request at a time, and of those who look the user up.
Found == INSTANCE Presence
  WITH Callers <- {1}, MaxRecords <- 1, Reading <- TRUE,
       record <- v1, made <- v2, calls <- v3, sweep <- v4, reader <- v5,
       cache <- v6, device <- v7
Inbox == INSTANCE MessageRelay
  WITH MaxSeq <- 2, Polls <- Requests, MayFail <- FALSE, MaxReloads <- 0,
       state <- v1, polls <- v2, seen <- v3, shown <- v4, reloads <- v5
Relayed == INSTANCE ChunkRelay
  WITH Transfers <- {"t"}, ChunkCount <- 2, MayFail <- FALSE, Controls <- {},
       state <- v1, stored <- v2, sender <- v3, receiver <- v4, control <- v5,
       relayed <- v6, handedOver <- v7
Discovery == INSTANCE PeerDiscovery
  WITH Callers <- Requests, Sessions <- {"s"}, MaxVersions <- 2,
       MaxRestarts <- 1, Requests <- {"completed"},
       device <- v1, cache <- v2, sessions <- v3, lookups <- v4, inflight <- v5,
       request <- v6, answer <- v7, restarts <- v8
Operations == INSTANCE ReliableOperations
  WITH Callers <- Requests, MaxConcurrent <- 1, MaxQueue <- 1,
       MaxAttempts <- 1, MaxResumes <- 1, FailureThreshold <- 1,
       SuccessThreshold <- 2, MaxCrashes <- 1,
       breaker <- v1, active <- v2, queue <- v3, ops <- v4, record <- v5,
       failing <- v6, swept <- v7, crashes <- v8
Transfer == INSTANCE TransferReliability
  WITH Callers <- {1}, MaxAttempts <- 2, Chunks <- 1, MaxCrashes <- 1,
       record <- v1, calls <- v2, crashes <- v3
Connection == INSTANCE NetworkReliability
  WITH Callers <- {"c"}, BlindHooks <- FALSE, MaxCrashes <- 1,
       conn <- v1, device <- v2, calls <- v3, crashes <- v4

ASSUME DirectChatHolds == Chat!DirectChatAssumption
ASSUME AutomaticRekeyHolds ==
  Rekey!ForwardSecrecyAssumption /\ Rekey!AutomaticRekeyAssumption
ASSUME GroupFanoutHolds == Fanout!GroupFanoutAssumption
ASSUME PresenceHolds == Here!PresenceAssumption /\ Found!PresenceAssumption
ASSUME RelaysHold == Inbox!MessageRelayAssumption /\ Relayed!ChunkRelayAssumption
ASSUME PeerDiscoveryHolds == Discovery!PeerDiscoveryAssumption
ASSUME ReliableOperationsHolds == Operations!ReliableOperationsAssumption
ASSUME TransferReliabilityHolds == Transfer!TransferReliabilityAssumption
ASSUME NetworkReliabilityHolds == Connection!NetworkReliabilityAssumption

\* What a part with fewer variables leaves alone.
Rest9 == v9 = Unused /\ v10 = Unused
Rest8 == v8 = Unused /\ Rest9
Rest7 == v7 = Unused /\ Rest8
Rest6 == v6 = Unused /\ Rest7
Rest5 == v5 = Unused /\ Rest6
Rest4 == v4 = Unused /\ Rest5

PartInit ==
  \/ part = "chat" /\ Chat!Init
  \/ part = "rekey" /\ Rekey!RekeyInit /\ Rest8
  \/ part = "presence" /\ Here!Init /\ Rest8
  \/ part = "lookups" /\ Found!Init /\ Rest8
  \/ part = "fanout" /\ Fanout!Init /\ Rest9
  \/ part = "inbox" /\ Inbox!Init /\ Rest6
  \/ part = "relayed" /\ Relayed!Init /\ Rest8
  \/ part = "discovery" /\ Discovery!Init /\ Rest9
  \/ part = "operations" /\ Operations!Init /\ Rest9
  \/ part = "transfer" /\ Transfer!Init /\ Rest4
  \/ part = "connection" /\ Connection!Init /\ Rest5

PartNext ==
  /\ UNCHANGED part
  /\ \/ part = "chat" /\ Chat!Next
     \/ part = "rekey" /\ Rekey!RekeyNext /\ UNCHANGED <<v8, v9, v10>>
     \/ part = "presence" /\ Here!Next /\ UNCHANGED <<v8, v9, v10>>
     \/ part = "lookups" /\ Found!Next /\ UNCHANGED <<v8, v9, v10>>
     \/ part = "fanout" /\ Fanout!Next /\ UNCHANGED <<v9, v10>>
     \/ part = "inbox" /\ Inbox!Next /\ UNCHANGED <<v6, v7, v8, v9, v10>>
     \/ part = "relayed" /\ Relayed!Next /\ UNCHANGED <<v8, v9, v10>>
     \/ part = "discovery" /\ Discovery!Next /\ UNCHANGED <<v9, v10>>
     \/ part = "operations" /\ Operations!Next /\ UNCHANGED <<v9, v10>>
     \/ part = "transfer" /\ Transfer!Next
          /\ UNCHANGED <<v4, v5, v6, v7, v8, v9, v10>>
     \/ part = "connection" /\ Connection!Next
          /\ UNCHANGED <<v5, v6, v7, v8, v9, v10>>

InPresence == part \in {"presence", "lookups"}

\* Actions of different parts, of which one is enabled at most.  Each is owed
\* weak fairness, for the reason its module gives: handlers go on once their
\* await is answered, timers go off, devices ask again.
ServeRequest(r) ==
  /\ UNCHANGED part
  /\ \/ part = "chat" /\ Chat!Fetch(r)
     \/ part = "rekey" /\ Rekey!Engine(r) /\ UNCHANGED <<v8, v9, v10>>
     \/ part = "presence" /\ Here!Serve(r) /\ UNCHANGED <<v8, v9, v10>>
     \/ part = "inbox" /\ Inbox!Work(r) /\ UNCHANGED <<v6, v7, v8, v9, v10>>
     \/ part = "discovery" /\ Discovery!Resolve(r) /\ UNCHANGED <<v9, v10>>
     \/ part = "operations" /\ Operations!Work(r) /\ UNCHANGED <<v9, v10>>
AskAgain(r) ==
  /\ UNCHANGED part
  /\ \/ part = "presence" /\ Here!Beat(r) /\ UNCHANGED <<v8, v9, v10>>
     \/ part = "inbox" /\ Inbox!List(r) /\ UNCHANGED <<v6, v7, v8, v9, v10>>
     \/ part = "discovery" /\ Discovery!Lookup(r) /\ UNCHANGED <<v9, v10>>
     \/ part = "operations" /\ Operations!Admit(r) /\ UNCHANGED <<v9, v10>>
ServeDevice(d) ==
  /\ UNCHANGED part /\ part = "fanout"
  /\ Fanout!Proceed(d, 1) /\ UNCHANGED <<v9, v10>>
ComeBack(d) ==
  /\ UNCHANGED part /\ part = "fanout"
  /\ Fanout!Resume(d, 1) /\ UNCHANGED <<v9, v10>>
Serve ==
  /\ UNCHANGED part
  /\ \/ part = "chat" /\ Chat!Serve(Message)
     \/ part = "lookups" /\ Found!Serve(1) /\ UNCHANGED <<v8, v9, v10>>
     \/ part = "fanout" /\ Fanout!Dispatching /\ UNCHANGED <<v9, v10>>
     \/ part = "relayed" /\ Relayed!Send("t") /\ UNCHANGED <<v8, v9, v10>>
     \/ part = "discovery" /\ Discovery!Ask("s", "completed") /\ UNCHANGED <<v9, v10>>
     \/ part = "operations" /\ Operations!Elapse /\ UNCHANGED <<v9, v10>>
     \/ part = "transfer" /\ Transfer!Step(1)
          /\ UNCHANGED <<v4, v5, v6, v7, v8, v9, v10>>
     \/ part = "connection" /\ Connection!Step("c")
          /\ UNCHANGED <<v5, v6, v7, v8, v9, v10>>
Receive ==
  /\ UNCHANGED part
  /\ \/ part = "lookups" /\ Found!Beat(1) /\ UNCHANGED <<v8, v9, v10>>
     \/ part = "relayed" /\ Relayed!Take("t") /\ UNCHANGED <<v8, v9, v10>>
     \/ part = "discovery" /\ Discovery!Answer /\ UNCHANGED <<v9, v10>>
     \/ part = "operations" /\ Operations!List /\ UNCHANGED <<v9, v10>>
     \/ part = "connection" /\ Connection!Beat
          /\ UNCHANGED <<v5, v6, v7, v8, v9, v10>>
Sweep ==
  /\ UNCHANGED part
  /\ \/ InPresence /\ Here!Sweep /\ UNCHANGED <<v8, v9, v10>>
     \/ part = "discovery" /\ Discovery!Invalidate /\ UNCHANGED <<v9, v10>>
     \/ part = "operations" /\ Operations!GiveUp /\ UNCHANGED <<v9, v10>>
     \/ part = "connection" /\ Connection!List
          /\ UNCHANGED <<v5, v6, v7, v8, v9, v10>>
Answer ==
  /\ UNCHANGED part
  /\ \/ InPresence /\ Here!Answer /\ UNCHANGED <<v8, v9, v10>>
     \/ part = "operations" /\ Operations!Heal /\ UNCHANGED <<v9, v10>>
     \/ part = "connection" /\ Connection!BeatRecorded
          /\ UNCHANGED <<v5, v6, v7, v8, v9, v10>>
Forget ==
  /\ UNCHANGED part
  /\ \/ InPresence /\ Here!Forget /\ UNCHANGED <<v8, v9, v10>>
     \/ part = "connection" /\ Connection!Step("sweep")
          /\ UNCHANGED <<v5, v6, v7, v8, v9, v10>>
Lapse ==
  /\ UNCHANGED part
  /\ \/ InPresence /\ Here!Lapse /\ UNCHANGED <<v8, v9, v10>>
     \/ part = "connection" /\ Connection!Lapse
          /\ UNCHANGED <<v5, v6, v7, v8, v9, v10>>

\* What others may interrupt again and again, and still comes to pass.
ComesToPass ==
  /\ UNCHANGED part
  /\ \/ part = "discovery" /\ Discovery!ForgetInPause /\ UNCHANGED <<v9, v10>>
     \/ part = "transfer" /\ Transfer!RecoverStopped(1)
          /\ UNCHANGED <<v4, v5, v6, v7, v8, v9, v10>>

Fairness ==
  /\ \A r \in Requests : WF_all(ServeRequest(r)) /\ WF_all(AskAgain(r))
  /\ \A d \in Devices : WF_all(ServeDevice(d)) /\ WF_all(ComeBack(d))
  /\ WF_all(Serve) /\ WF_all(Receive)
  /\ WF_all(Sweep) /\ WF_all(Answer) /\ WF_all(Forget) /\ WF_all(Lapse)
  /\ SF_all(ComesToPass)

PartSpec == PartInit /\ [][PartNext]_all /\ Fairness

-----------------------------------------------------------------------------
TypeOK ==
  /\ part = "chat" => Chat!TypeOK
  /\ part = "rekey" => Rekey!RekeyTypeOK
  /\ part = "presence" => Here!TypeOK
  /\ part = "lookups" => Found!TypeOK
  /\ part = "fanout" => Fanout!TypeOK
  /\ part = "inbox" => Inbox!TypeOK
  /\ part = "relayed" => Relayed!TypeOK
  /\ part = "discovery" => Discovery!TypeOK
  /\ part = "operations" => Operations!TypeOK
  /\ part = "transfer" => Transfer!TypeOK
  /\ part = "connection" => Connection!TypeOK

\* A receiver who comes back to the conversation again and again has read the
\* message in the end and has it on the screen.  A message that is queued for a
\* device is sent when it comes back, unless its entry is one of those that the
\* code loses (GroupFanout, lost).  A device that goes on
\* beating is reachable in the end, one that fell silent is not (Presence).
\* What was left at a relay comes to the application (MessageRelay, ChunkRelay).
\* Who looks a device up finds its last descriptor (PeerDiscovery).
OpenedAgainAndAgain == []<>(part = "chat" => Chat!Asked)
SomeDevice == CHOOSE d \in Devices : TRUE  \* the others are like it
Owed ==
  \/ part = "chat" /\ Chat!IsSent(Message)
  \/ part = "fanout" /\ SomeDevice \in v2
Arrived ==
  \/ part = "chat" /\ v8[Message] # "none"
  \/ part = "fanout" /\ (v5[SomeDevice] > 0 \/ SomeDevice \in v7)
SeenInTheEnd ==
  /\ OpenedAgainAndAgain =>
       /\ <>[](part = "chat" => (Chat!IsSent(Message) => v1[Message] = "read"))
       /\ Owed ~> Arrived
  /\ <>[](InPresence => Here!AsDevice)
  /\ <>[](part = "inbox" =>
            \A m \in Inbox!Messages : v1[m] # "none" => v4[m] > 0)
  /\ <>[](part = "relayed" => (v1["t"] # "none" => v7 = {"t"}))
  /\ <>[](part = "discovery" => v7 = v1.version)

\* What waits gets its turn: a trigger behind other triggers, the checkpoint of
\* an operation, whether it ends or the server crashes; callers whose breaker
\* has opened (ReliableOperations); a transfer that was interrupted
\* (TransferReliability); and the connection of a device that beats on or has
\* fallen silent (NetworkReliability).
Someone == CHOOSE r \in Requests : TRUE  \* the others are like it
WaitingEnds ==
  /\ []<>(part = "rekey" => Rekey!Step(Someone) = "idle")
  /\ []<>(part = "operations" => v5[Someone] \in Operations!Closed)
  /\ <>[](part = "operations" => v1.state = "closed")
  /\ []<>(part = "transfer" => v1.state \in Transfer!Working \cup Transfer!Terminal)
  /\ []<>(part = "connection" => Connection!Settled)
  /\ <>[](part = "connection" => Connection!Noticed)
=============================================================================
