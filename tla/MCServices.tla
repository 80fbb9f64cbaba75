------------------------------ MODULE MCServices ------------------------------
(***************************************************************************)
(* The services of the server, each on its own, for model checking of      *)
(* their safety.  They share nothing, so a behaviour is of one of them:    *)
(* "part" chooses it in the initial state, it uses as many of the          *)
(* variables as it has, and the others stay Unused.                        *)
(***************************************************************************)
EXTENDS Integers, TLC

CONSTANTS
  Actors,  \* requests that may be in flight at the same time
  People,  \* users, members or devices
  Admin    \* one more user

VARIABLES part, v1, v2, v3, v4, v5, v6, v7, v8, v9

all == <<v1, v2, v3, v4, v5, v6, v7, v8, v9>>
Unused == "unused"

Symmetry == Permutations(Actors) \cup Permutations(People)

\* Long enough for a chain of restarts that exceeds the budget; the other
\* operations on a handshake are those of the key agreement's.
Hands == INSTANCE Handshake
  WITH Callers <- Actors, MaxHandshakes <- 3, MaxRetries <- 1,
       Tried <- {"failed"},
       sessions <- v1, late <- v2, calls <- v3
Agreement == INSTANCE KeyAgreement
  WITH Callers <- Actors, MaxHandshakes <- 1, MaxRetries <- 0,
       Tried <- {"negotiating", "completed", "rejected", "expired"},
       sessions <- v1, late <- v2, calls <- v3, exchanges <- v4, lapsed <- v5
Secure == INSTANCE SecureSession
  WITH Callers <- Actors, MaxGeneration <- 2,
       session <- v1, keys <- v2, calls <- v3
Keys == INSTANCE MessageKeys
  WITH Sealers <- Actors, MaxSkip <- 2, CacheLimit <- 1, MaxNumber <- 3,
       MaxGeneration <- 1,
       sendChain <- v1, sealing <- v2, sent <- v3, recvChain <- v4,
       cache <- v5, opening <- v6, opened <- v7, burnt <- v8,
       twins <- v9
Secrecy == INSTANCE ForwardSecrecy
  WITH Callers <- Actors, Retained <- 1, MaxGeneration <- 3,
       UpdateMayFail <- TRUE,
       store <- v1, record <- v2, calls <- v3
Rekey == INSTANCE AutomaticRekey
  WITH Callers <- Actors, Retained <- 1, MaxGeneration <- 3,
       UpdateMayFail <- TRUE, MaxAttempts <- 2, MaxExecutions <- 2,
       PersistMayFail <- TRUE,
       store <- v1, record <- v2, calls <- v3, triggers <- v4, queue <- v5,
       pending <- v6, executions <- v7
Chat == INSTANCE GroupChat
  WITH Users <- People \cup {Admin}, Callers <- Actors, MaxChanges <- 3,
       members <- v1, pending <- v2, version <- v3, calls <- v4
Open == INSTANCE GroupManager
  WITH Users <- People, MaxMembers <- 2, Public <- TRUE, MaxVersion <- 3,
       MayFail <- TRUE,
       group <- v1, memberships <- v2, replica <- v3, work <- v4, draft <- v5,
       refreshing <- v6, torn <- v7
Closed == INSTANCE GroupManager
  WITH Users <- People, MaxMembers <- 2, Public <- FALSE, MaxVersion <- 3,
       MayFail <- TRUE,
       group <- v1, memberships <- v2, replica <- v3, work <- v4, draft <- v5,
       refreshing <- v6, torn <- v7
Receipts == INSTANCE GroupReceipts
  WITH Members <- People \cup {Admin}, ReadExcluded <- {Admin},
       Callers <- Actors, CountMayFail <- TRUE,
       aggregate <- v1, receipts <- v2, lock <- v3, calls <- v4, cache <- v5,
       missed <- v6
Epochs == INSTANCE GroupKeys
  WITH Users <- People, Callers <- Actors, MaxVersion <- 3, MaxChanges <- 2,
       MaxExpired <- 1,
       members <- v1, keys <- v2, secret <- v3, lock <- v4, calls <- v5,
       bounds <- v6, missed <- v7
Fanout == INSTANCE GroupFanout
  WITH Devices <- People, Requests <- Actors, AtomicDrain <- TRUE,
       SendMayFail <- TRUE, ResumeMayFail <- TRUE,
       plan <- v1, queue <- v2, sender <- v3, requests <- v4, sent <- v5,
       confirmed <- v6, lost <- v7, shared <- v8
\* The same with the queue in the database, which is what the server uses, and
\* one device.
Stored == INSTANCE GroupFanout
  WITH Devices <- {Admin}, Requests <- Actors, AtomicDrain <- FALSE,
       SendMayFail <- FALSE, ResumeMayFail <- TRUE,
       plan <- v1, queue <- v2, sender <- v3, requests <- v4, sent <- v5,
       confirmed <- v6, lost <- v7, shared <- v8
Drained == INSTANCE Synchronization
  WITH Callers <- Actors, MaxOps <- 2, MaxOpRetries <- 1, Drains <- 2,
       MayFail <- TRUE, MayPause <- FALSE, MayEnd <- TRUE, MaxRestarts <- 0,
       MaxQueues <- 2,
       session <- v1, queues <- v2, current <- v3, calls <- v4, advanced <- v5,
       applied <- v6, restarts <- v7
Paused == INSTANCE Synchronization
  WITH Callers <- Actors, MaxOps <- 3, MaxOpRetries <- 1, Drains <- 1,
       MayFail <- FALSE, MayPause <- TRUE, MayEnd <- FALSE, MaxRestarts <- 0,
       MaxQueues <- 2,
       session <- v1, queues <- v2, current <- v3, calls <- v4, advanced <- v5,
       applied <- v6, restarts <- v7
Restarted == INSTANCE Synchronization
  WITH Callers <- Actors, MaxOps <- 2, MaxOpRetries <- 1, Drains <- 1,
       MayFail <- FALSE, MayPause <- FALSE, MayEnd <- TRUE, MaxRestarts <- 1,
       MaxQueues <- 2,
       session <- v1, queues <- v2, current <- v3, calls <- v4, advanced <- v5,
       applied <- v6, restarts <- v7
Inbox == INSTANCE MessageRelay
  WITH MaxSeq <- 2, Polls <- Actors, MayFail <- TRUE, MaxReloads <- 1,
       state <- v1, polls <- v2, seen <- v3, shown <- v4, reloads <- v5
Relayed == INSTANCE ChunkRelay
  WITH Transfers <- {"t"}, ChunkCount <- 3, MayFail <- FALSE,
       Controls <- {"paused", "active", "cancelled"},
       state <- v1, stored <- v2, sender <- v3, receiver <- v4, control <- v5,
       relayed <- v6, handedOver <- v7
\* The same of a participant who does not pause.
Kept == INSTANCE ChunkRelay
  WITH Transfers <- {"t"}, ChunkCount <- 3, MayFail <- FALSE,
       Controls <- {"active", "cancelled"},
       state <- v1, stored <- v2, sender <- v3, receiver <- v4, control <- v5,
       relayed <- v6, handedOver <- v7
Discovery == INSTANCE PeerDiscovery
  WITH Callers <- Actors, Sessions <- People, MaxVersions <- 1, MaxRestarts <- 1,
       Requests <- {"create", "completed", "cancelled", "expired"},
       device <- v1, sessions <- v2, cache <- v3, lookups <- v4, inflight <- v5,
       request <- v6, answer <- v7, restarts <- v8
Operations == INSTANCE ReliableOperations
  WITH Callers <- People \cup {Admin}, MaxConcurrent <- 1, MaxQueue <- 1,
       MaxAttempts <- 2, MaxResumes <- 1, FailureThreshold <- 1,
       SuccessThreshold <- 1, MaxCrashes <- 0,
       record <- v1, ops <- v2, crashes <- v3, active <- v4, queue <- v5,
       breaker <- v6, failing <- v7, swept <- v8
Transfer == INSTANCE TransferReliability
  WITH Callers <- Actors, MaxAttempts <- 2, Chunks <- 1, MaxCrashes <- 0,
       record <- v1, calls <- v2, crashes <- v3
Capabilities == INSTANCE CapabilityNegotiation
  WITH Callers <- Actors, MaxVersion <- 3,
       set <- v1, calls <- v2, cache <- v3
Evolution == INSTANCE SessionEvolution
  WITH Callers <- Actors, MaxGeneration <- 3,
       record <- v1, calls <- v2
Schedule == INSTANCE ResourceScheduler
  WITH Requests <- Actors, LaneCapacity <- 1, Executions <- 1, Bandwidth <- 2,
       MaxWait <- 2,
       state <- v1, lanes <- v2, reserved <- v3, allocated <- v4

ASSUME HandshakeHolds == Hands!HandshakeAssumption /\ Agreement!HandshakeAssumption
ASSUME SecureSessionHolds == Secure!SecureSessionAssumption
ASSUME MessageKeysHolds == Keys!MessageKeysAssumption
ASSUME ForwardSecrecyHolds == Secrecy!ForwardSecrecyAssumption
ASSUME AutomaticRekeyHolds ==
  Rekey!ForwardSecrecyAssumption /\ Rekey!AutomaticRekeyAssumption
ASSUME GroupChatHolds == Chat!GroupChatAssumption
ASSUME GroupManagerHolds ==
  Open!GroupManagerAssumption /\ Closed!GroupManagerAssumption
ASSUME GroupReceiptsHolds == Receipts!GroupReceiptsAssumption
ASSUME GroupKeysHolds == Epochs!GroupKeysAssumption
ASSUME GroupFanoutHolds ==
  Fanout!GroupFanoutAssumption /\ Stored!GroupFanoutAssumption
ASSUME SynchronizationHolds ==
  /\ Drained!SynchronizationAssumption /\ Paused!SynchronizationAssumption
  /\ Restarted!SynchronizationAssumption
ASSUME RelaysHold ==
  /\ Inbox!MessageRelayAssumption
  /\ Relayed!ChunkRelayAssumption /\ Kept!ChunkRelayAssumption
ASSUME PeerDiscoveryHolds == Discovery!PeerDiscoveryAssumption
ASSUME ReliableOperationsHolds == Operations!ReliableOperationsAssumption
ASSUME TransferReliabilityHolds == Transfer!TransferReliabilityAssumption
ASSUME CapabilitiesHold == Capabilities!CapabilityNegotiationAssumption
ASSUME SessionEvolutionHolds == Evolution!SessionEvolutionAssumption
ASSUME ResourceSchedulerHolds == Schedule!ResourceSchedulerAssumption

\* What a part with fewer variables leaves alone.
Rest9 == v9 = Unused
Rest8 == v8 = Unused /\ Rest9
Rest7 == v7 = Unused /\ Rest8
Rest6 == v6 = Unused /\ Rest7
Rest5 == v5 = Unused /\ Rest6
Rest4 == v4 = Unused /\ Rest5
Rest3 == v3 = Unused /\ Rest4

PartInit ==
  \/ part = "handshake" /\ Hands!Init /\ Rest4
  \/ part = "agreement" /\ Agreement!AgreementInit /\ Rest6
  \/ part = "session" /\ Secure!Init /\ Rest4
  \/ part = "keys" /\ Keys!Init
  \/ part = "secrecy" /\ Secrecy!Init /\ Rest4
  \/ part = "rekey" /\ Rekey!RekeyInit /\ Rest8
  \/ part = "chat" /\ Chat!Init /\ Rest5
  \/ part = "open" /\ Open!Init /\ Rest8
  \/ part = "closed" /\ Closed!Init /\ Rest8
  \/ part = "receipts" /\ Receipts!Init /\ Rest7
  \/ part = "epochs" /\ Epochs!Init /\ Rest8
  \/ part = "fanout" /\ Fanout!Init /\ Rest9
  \/ part = "stored" /\ Stored!Init /\ Rest9
  \/ part \in {"drained", "restarted"} /\ Drained!Init /\ Rest8
  \/ part = "paused" /\ Paused!Init /\ Rest8
  \/ part = "inbox" /\ Inbox!Init /\ Rest6
  \/ part = "relayed" /\ Relayed!Init /\ Rest8
  \/ part = "kept" /\ Kept!Init /\ Rest8
  \/ part = "discovery" /\ Discovery!Init /\ Rest9
  \/ part = "operations" /\ Operations!Init /\ Rest9
  \/ part = "transfer" /\ Transfer!Init /\ Rest4
  \/ part = "capabilities" /\ Capabilities!Init /\ Rest4
  \/ part = "evolution" /\ Evolution!Init /\ Rest3
  \/ part = "schedule" /\ Schedule!Init /\ Rest5

PartNext ==
  /\ UNCHANGED part
  /\ \/ part = "handshake" /\ Hands!Next /\ UNCHANGED <<v4, v5, v6, v7, v8, v9>>
     \/ part = "agreement" /\ Agreement!AgreementNext /\ UNCHANGED <<v6, v7, v8, v9>>
     \/ part = "session" /\ Secure!Next /\ UNCHANGED <<v4, v5, v6, v7, v8, v9>>
     \/ part = "keys" /\ Keys!Next
     \/ part = "secrecy" /\ Secrecy!Next /\ UNCHANGED <<v4, v5, v6, v7, v8, v9>>
     \/ part = "rekey" /\ Rekey!RekeyNext /\ UNCHANGED <<v8, v9>>
     \/ part = "chat" /\ Chat!Next /\ UNCHANGED <<v5, v6, v7, v8, v9>>
     \/ part = "open" /\ Open!Next /\ UNCHANGED <<v8, v9>>
     \/ part = "closed" /\ Closed!Next /\ UNCHANGED <<v8, v9>>
     \/ part = "receipts" /\ Receipts!Next /\ UNCHANGED <<v7, v8, v9>>
     \/ part = "epochs" /\ Epochs!Next /\ UNCHANGED <<v8, v9>>
     \/ part = "fanout" /\ Fanout!Next /\ UNCHANGED v9
     \/ part = "stored" /\ Stored!Next /\ UNCHANGED v9
     \/ part = "drained" /\ Drained!Next /\ UNCHANGED <<v8, v9>>
     \/ part = "paused" /\ Paused!Next /\ UNCHANGED <<v8, v9>>
     \/ part = "restarted" /\ Restarted!Next /\ UNCHANGED <<v8, v9>>
     \/ part = "inbox" /\ Inbox!Next /\ UNCHANGED <<v6, v7, v8, v9>>
     \/ part = "relayed" /\ Relayed!Next /\ UNCHANGED <<v8, v9>>
     \/ part = "kept" /\ Kept!Next /\ UNCHANGED <<v8, v9>>
     \/ part = "discovery" /\ Discovery!Next /\ UNCHANGED v9
     \/ part = "operations" /\ Operations!Next /\ UNCHANGED v9
     \/ part = "transfer" /\ Transfer!Next /\ UNCHANGED <<v4, v5, v6, v7, v8, v9>>
     \/ part = "capabilities" /\ Capabilities!Next /\ UNCHANGED <<v4, v5, v6, v7, v8, v9>>
     \/ part = "evolution" /\ Evolution!Next /\ UNCHANGED <<v3, v4, v5, v6, v7, v8, v9>>
     \/ part = "schedule" /\ Schedule!Next /\ UNCHANGED <<v5, v6, v7, v8, v9>>

OfManager == part \in {"open", "closed"}

PartSpec == PartInit /\ [][PartNext]_<<part, all>>

-----------------------------------------------------------------------------
TypeOK ==
  /\ part = "handshake" => Hands!TypeOK
  /\ part = "agreement" => Agreement!AgreementTypeOK
  /\ part = "session" => Secure!TypeOK
  /\ part = "keys" => Keys!TypeOK
  /\ part = "secrecy" => Secrecy!TypeOK
  /\ part = "rekey" => Rekey!RekeyTypeOK
  /\ part = "chat" => Chat!TypeOK
  /\ OfManager => Open!TypeOK
  /\ part = "receipts" => Receipts!TypeOK
  /\ part = "epochs" => Epochs!TypeOK
  /\ part = "fanout" => Fanout!TypeOK
  /\ part = "stored" => Stored!TypeOK
  /\ part = "drained" => Drained!TypeOK
  /\ part = "paused" => Paused!TypeOK
  /\ part = "restarted" => Restarted!TypeOK
  /\ part = "inbox" => Inbox!TypeOK
  /\ part = "relayed" => Relayed!TypeOK
  /\ part = "kept" => Kept!TypeOK
  /\ part = "discovery" => Discovery!TypeOK
  /\ part = "operations" => Operations!TypeOK
  /\ part = "transfer" => Transfer!TypeOK
  /\ part = "capabilities" => Capabilities!TypeOK
  /\ part = "evolution" => Evolution!TypeOK
  /\ part = "schedule" => Schedule!TypeOK

\* What is destroyed or shown does not come back: a destroyed session stays as
\* it is, keys go on one generation at a time, no tick of a message and no
\* checkpoint of a transfer is taken back, no request that aged is passed over
\* for a younger one.
NothingGoesBack ==
  [][/\ part = "session" => Secure!StaysDestroyed
     /\ part = "secrecy" => Secrecy!OneGenerationOn
     /\ part = "receipts" => Receipts!TickRises
     /\ part = "transfer" => Transfer!ResumesForward
     /\ part = "schedule" => Schedule!OlderGoFirst]_all

\* No message key seals two messages, no message is opened twice unless its key
\* stayed cached while the chain still had it (MessageKeys), none comes to the
\* application twice, a device gets a group message once unless two requests
\* found its entry in the database (GroupFanout), a burst of triggers rekeys
\* once, lookups of one peer do not search twice.
NothingTwice ==
  /\ part = "keys" => Keys!EachKeySealsOnce /\ Keys!OpensOnce
  /\ part = "rekey" => Rekey!BurstRekeysOnce
  /\ part = "fanout" => Fanout!SentOnce
  /\ part = "stored" => Stored!SentOnce
  /\ part = "inbox" => Inbox!ShownOnce
  /\ part = "discovery" => Discovery!OneSearch

\* The receiver's keys last until they are used, and no longer, unless one stayed
\* cached while the chain still had it.
KeysLastUntilUsed == part = "keys" => Keys!KeyStillAvailable /\ Keys!UsedKeysAreGone

\* What is queued for a device is not forgotten but in the two ways in which the
\* code drops it (GroupFanout), nor what the relay has accepted of a transfer
\* (ChunkRelay).
NotForgotten ==
  /\ part = "fanout" => Fanout!NotForgotten
  /\ part = "stored" => Stored!NotForgotten
  /\ part = "kept" => Kept!RelayedIsKept

\* A record that speaks of something kept elsewhere tells the truth: a complete
\* key agreement of both commitments, the generations of those whose keys can
\* be had, the counters of a message of its members' receipts, a replica of
\* what its device has applied, an acknowledged message and a completed
\* transfer of what the receiver has, the bulkhead of those who hold a slot, a
\* transfer under repair of somebody who repairs it, a cached negotiation of the
\* sets of capabilities it is found for, a history of all the generations, the
\* allocated resources of what is reserved.
RecordsAreTrue ==
  /\ part = "agreement" => Agreement!CompleteIsBacked
  /\ part = "secrecy" => Secrecy!RecordTellsHeld
  /\ part = "receipts" => Receipts!CountsAreReceipts
  /\ part \in {"drained", "restarted"} => Drained!AdvancedIsApplied
  /\ part = "paused" => Paused!AdvancedIsApplied
  /\ part = "inbox" => Inbox!AcknowledgedIsShown
  /\ part = "relayed" => Relayed!CompletedIsCollected
  /\ part = "operations" => Operations!SlotsAccounted
  /\ part = "transfer" => Transfer!RepairIsAttended
  /\ part = "capabilities" => Capabilities!AnswersFitSets
  /\ part = "evolution" => Evolution!HistoryTells
  /\ part = "schedule" => Schedule!ReservationsHold

\* A group with an owner who is in it, a deleted one with nobody.
MembersMatchGroup == OfManager => Open!OwnerIsIn /\ Open!DeletedIsEmpty

\* Promises of a single part, stated at its module.
ChainWithinBudget == part = "handshake" => Hands!ChainWithinBudget
EndedHasNoKeys == part = "session" => Secure!EndedHasNoKeys
TickIsEarned == part = "receipts" => Receipts!TickIsEarned
KeyFitsMembers == part = "epochs" => Epochs!KeyFitsMembers /\ Epochs!OneKeyInUse
InvitationsKept == [][part = "chat" => Chat!KeepsInvitations /\ Chat!JoinsByInvitation]_all
ReplicaShowsGroup == OfManager => Open!ReplicaShowsGroup
=============================================================================
