------------------------- MODULE MCServices_proofs -------------------------
(***************************************************************************)
(* What the theorems about the single components say of the services as    *)
(* they are model-checked together (MCServices): each part of PartSpec is  *)
(* the component's own specification, its inductive invariant holds as     *)
(* long as that part runs, and so do the properties of the run, for any    *)
(* sets of actors and people.                                              *)
(***************************************************************************)
EXTENDS MCServices, TLAPS

-----------------------------------------------------------------------------
(* The parts. *)

\* The steps of a part are those of its component, or change nothing of it.
LEMMA StepsOfParts ==
  ASSUME [PartNext]_<<part, all>>
  PROVE  /\ part' = part
         /\ part = "session" => [Secure!Next]_Secure!vars
         /\ part = "keys" => [Keys!Next]_Keys!vars
         /\ part = "secrecy" => [Secrecy!Next]_Secrecy!vars
         /\ part = "receipts" => [Receipts!Next]_Receipts!vars
         /\ part = "chat" => [Chat!Next]_Chat!vars
         /\ part = "open" => [Open!Next]_Open!vars
         /\ part = "closed" => [Closed!Next]_Closed!vars
         /\ part = "handshake" => [Hands!Next]_Hands!vars
         /\ part = "epochs" => [Epochs!Next]_Epochs!vars
         /\ part = "inbox" => [Inbox!Next]_Inbox!vars
         /\ part = "relayed" => [Relayed!Next]_Relayed!vars
         /\ part = "operations" => [Operations!Next]_Operations!vars
         /\ part = "discovery" => [Discovery!Next]_Discovery!vars
         /\ part = "transfer" => [Transfer!Next]_Transfer!vars
         /\ part = "capabilities" => [Capabilities!Next]_Capabilities!vars
         /\ part = "evolution" => [Evolution!Next]_Evolution!vars
         /\ part = "rekey" => [Rekey!RekeyNext]_Rekey!rekeyVars
         /\ part = "fanout" => [Fanout!Next]_Fanout!vars
         /\ part = "stored" => [Stored!Next]_Stored!vars
         /\ part = "kept" => [Kept!Next]_Kept!vars
  BY DEF PartNext, all, Secure!vars, Keys!vars, Secrecy!vars, Receipts!vars,
     Chat!vars, Open!vars, Closed!vars, Hands!vars, Epochs!vars, Inbox!vars,
     Relayed!vars, Operations!vars, Discovery!vars, Transfer!vars,
     Capabilities!vars, Evolution!vars, Rekey!rekeyVars, Rekey!rekey, Rekey!vars,
     Fanout!vars, Stored!vars, Kept!vars

-----------------------------------------------------------------------------
(* Handshakes, sessions and keys. The components' definitions, as this module
   has them and as the proofs have them, are the same. *)

Sec == INSTANCE Security_proofs
  WITH Sealers <- Actors, MaxSkip <- 2, CacheLimit <- 1, MaxNumber <- 3,
       MaxGeneration <- 1, Callers <- Actors, MaxRekeys <- 2, Retained <- 1,
       MaxEvolutions <- 3, UpdateMayFail <- TRUE,
       sendChain <- v1, sealing <- v2, sent <- v3, recvChain <- v4, cache <- v5,
       opening <- v6, opened <- v7, burnt <- v8, twins <- v9,
       session <- v1, keys <- v2, store <- v1, record <- v2, calls <- v3,
       MaxHandshakes <- 3, MaxRetries <- 1, Tried <- {"failed"},
       sessions <- v1, late <- v2, exchanges <- v4, lapsed <- v5,
       MaxAttempts <- 2, MaxExecutions <- 2, PersistMayFail <- TRUE,
       triggers <- v4, queue <- v5, pending <- v6, executions <- v7

LEMMA SameSession ==
  /\ (Secure!Init <=> Sec!Session!Init)
  /\ ([Secure!Next]_Secure!vars <=> [Sec!Session!Next]_Sec!Session!vars)
  /\ (Secure!SecureSessionAssumption <=> Sec!Session!SecureSessionAssumption)
  /\ (Secure!EndedHasNoKeys <=> Sec!Session!EndedHasNoKeys)
  /\ (Secure!StaysDestroyed <=> Sec!Session!StaysDestroyed)
<1>1. (Secure!Init <=> Sec!Session!Init)
  BY DEF Secure!Init, Secure!NoKeys, Secure!Idle, Sec!Session!Init,
     Sec!Session!NoKeys, Sec!Session!Idle
<1>2. ([Secure!Next]_Secure!vars <=> [Sec!Session!Next]_Sec!Session!vars)
  BY DEF Secure!Next, Secure!vars, Secure!Restart, Secure!Establish,
     Secure!StoreKeys, Secure!Write, Secure!WriteMissing, Secure!Wipe,
     Secure!Destroy, Secure!DestroyWrite, Secure!Rekey,
     Secure!ReplaceKeys, Secure!RekeyWrite, Secure!Operations,
     Secure!Decide, Secure!NoKeys, Secure!Idle, Secure!Free, Secure!Busy,
     Secure!Moving, Secure!Missing, Secure!Usable, Secure!Ended,
     Secure!Allowed, Sec!Session!Next, Sec!Session!vars,
     Sec!Session!Restart, Sec!Session!Establish, Sec!Session!StoreKeys,
     Sec!Session!Write, Sec!Session!WriteMissing, Sec!Session!Wipe,
     Sec!Session!Destroy, Sec!Session!DestroyWrite, Sec!Session!Rekey,
     Sec!Session!ReplaceKeys, Sec!Session!RekeyWrite,
     Sec!Session!Operations, Sec!Session!Decide, Sec!Session!NoKeys,
     Sec!Session!Idle, Sec!Session!Free, Sec!Session!Busy,
     Sec!Session!Moving, Sec!Session!Missing, Sec!Session!Usable,
     Sec!Session!Ended, Sec!Session!Allowed
<1>3. (Secure!SecureSessionAssumption <=> Sec!Session!SecureSessionAssumption)
  BY DEF Secure!SecureSessionAssumption,
     Sec!Session!SecureSessionAssumption
<1>4. (Secure!EndedHasNoKeys <=> Sec!Session!EndedHasNoKeys)
  BY DEF Secure!EndedHasNoKeys, Secure!Free, Secure!NoKeys, Secure!Idle,
     Sec!Session!EndedHasNoKeys, Sec!Session!Free, Sec!Session!NoKeys,
     Sec!Session!Idle
<1>5. (Secure!StaysDestroyed <=> Sec!Session!StaysDestroyed)
  BY DEF Secure!StaysDestroyed, Sec!Session!StaysDestroyed
<1> QED
  BY <1>1, <1>2, <1>3, <1>4, <1>5

LEMMA SameSecrecy ==
  /\ (Secrecy!Init <=> Sec!Secrecy!Init)
  /\ ([Secrecy!Next]_Secrecy!vars <=> [Sec!Secrecy!Next]_Sec!Secrecy!vars)
  /\ (Secrecy!ForwardSecrecyAssumption <=> Sec!Secrecy!ForwardSecrecyAssumption)
  /\ (Secrecy!RecordTellsHeld <=> Sec!Secrecy!RecordTellsHeld)
  /\ (Secrecy!OneGenerationOn <=> Sec!Secrecy!OneGenerationOn)
<1>1. (Secrecy!Init <=> Sec!Secrecy!Init)
  BY DEF Secrecy!Init, Secrecy!Gone, Secrecy!NoRecord, Secrecy!Ended,
     Sec!Secrecy!Init, Sec!Secrecy!Gone, Sec!Secrecy!NoRecord,
     Sec!Secrecy!Ended
<1>2. ([Secrecy!Next]_Secrecy!vars <=> [Sec!Secrecy!Next]_Sec!Secrecy!vars)
  BY DEF Secrecy!Next, Secrecy!vars, Secrecy!Restart, Secrecy!Start,
     Secrecy!Destroy, Secrecy!Delete, Secrecy!Proceed, Secrecy!Evolve,
     Secrecy!Gone, Secrecy!Ended, Secrecy!Free, Secrecy!NoRecord,
     Secrecy!Busy, Secrecy!With, Secrecy!StartWrite, Secrecy!Commit,
     Secrecy!CommitRefused, Secrecy!Write, Secrecy!WriteFails,
     Secrecy!DestroyWrite, Secrecy!DeleteWrite, Secrecy!Fresh,
     Secrecy!NewRecord, Secrecy!Committed, Sec!Secrecy!Next,
     Sec!Secrecy!vars, Sec!Secrecy!Restart, Sec!Secrecy!Start,
     Sec!Secrecy!Destroy, Sec!Secrecy!Delete, Sec!Secrecy!Proceed,
     Sec!Secrecy!Evolve, Sec!Secrecy!Gone, Sec!Secrecy!Ended,
     Sec!Secrecy!Free, Sec!Secrecy!NoRecord, Sec!Secrecy!Busy,
     Sec!Secrecy!With, Sec!Secrecy!StartWrite, Sec!Secrecy!Commit,
     Sec!Secrecy!CommitRefused, Sec!Secrecy!Write, Sec!Secrecy!WriteFails,
     Sec!Secrecy!DestroyWrite, Sec!Secrecy!DeleteWrite, Sec!Secrecy!Fresh,
     Sec!Secrecy!NewRecord, Sec!Secrecy!Committed
<1>3. (Secrecy!ForwardSecrecyAssumption <=> Sec!Secrecy!ForwardSecrecyAssumption)
  BY DEF Secrecy!ForwardSecrecyAssumption,
     Sec!Secrecy!ForwardSecrecyAssumption
<1>4. (Secrecy!RecordTellsHeld <=> Sec!Secrecy!RecordTellsHeld)
  BY DEF Secrecy!RecordTellsHeld, Sec!Secrecy!RecordTellsHeld
<1>5. (Secrecy!OneGenerationOn <=> Sec!Secrecy!OneGenerationOn)
  BY DEF Secrecy!OneGenerationOn, Secrecy!Gone, Secrecy!Fresh,
     Sec!Secrecy!OneGenerationOn, Sec!Secrecy!Gone, Sec!Secrecy!Fresh
<1> QED
  BY <1>1, <1>2, <1>3, <1>4, <1>5

LEMMA SameKeys ==
  /\ (Keys!Init <=> Sec!Init)
  /\ ([Keys!Next]_Keys!vars <=> [Sec!Next]_Sec!vars)
  /\ (Keys!MessageKeysAssumption <=> Sec!MessageKeysAssumption)
  /\ (Keys!EachKeySealsOnce <=> Sec!EachKeySealsOnce)
  /\ (Keys!OpensOnce <=> Sec!OpensOnce)
  /\ (Keys!UsedKeysAreGone <=> Sec!UsedKeysAreGone)
  /\ (Keys!KeyStillAvailable <=> Sec!KeyStillAvailable)
<1>1. (Keys!Init <=> Sec!Init)
  BY DEF Keys!Init, Keys!Nothing, Sec!Init, Sec!Nothing
<1>2. ([Keys!Next]_Keys!vars <=> [Sec!Next]_Sec!vars)
  BY DEF Keys!Next, Keys!vars, Keys!Seal, Keys!SealFails, Keys!Sealed,
     Keys!RerootSender, Keys!RerootReceiver, Keys!Receive, Keys!Skip,
     Keys!SkipFails, Keys!DeriveFails, Keys!Cached, Keys!Contains,
     Keys!Derive, Keys!Opened, Keys!OpenFails, Keys!PruneCache,
     Keys!Nothing, Keys!receiver, Keys!NextKey, Keys!NewRoot, Keys!AtRest,
     Keys!sender, Keys!OpenSkipped, Keys!Open, Keys!Cache, Keys!Evicted,
     Keys!Begin, Keys!EndOpening, Keys!RemoveAt, Sec!Next, Sec!vars,
     Sec!Seal, Sec!SealFails, Sec!Sealed, Sec!RerootSender,
     Sec!SkipFails, Sec!DeriveFails, Sec!Cached, Sec!Contains,
     Sec!RerootReceiver, Sec!Receive, Sec!Skip, Sec!Derive, Sec!Opened,
     Sec!OpenFails, Sec!PruneCache, Sec!Nothing, Sec!receiver,
     Sec!NextKey, Sec!NewRoot, Sec!AtRest, Sec!sender, Sec!OpenSkipped,
     Sec!Open, Sec!Cache, Sec!Evicted, Sec!Begin, Sec!EndOpening,
     Sec!RemoveAt
<1>3. (Keys!MessageKeysAssumption <=> Sec!MessageKeysAssumption)
  BY DEF Keys!MessageKeysAssumption, Sec!MessageKeysAssumption
<1>4. (Keys!EachKeySealsOnce <=> Sec!EachKeySealsOnce)
  BY DEF Keys!EachKeySealsOnce, Keys!IsInjective, Sec!EachKeySealsOnce,
     Sec!IsInjective
<1>5. (Keys!OpensOnce <=> Sec!OpensOnce)
  BY DEF Keys!OpensOnce, Sec!OpensOnce
<1>6. (Keys!UsedKeysAreGone <=> Sec!UsedKeysAreGone)
  BY DEF Keys!UsedKeysAreGone, Keys!ToSet, Keys!Cached, Keys!Contains,
     Sec!UsedKeysAreGone, Sec!ToSet, Sec!Cached, Sec!Contains
<1>7. (Keys!KeyStillAvailable <=> Sec!KeyStillAvailable)
  BY DEF Keys!KeyStillAvailable, Keys!ToSet, Keys!Cached, Keys!Contains,
     Sec!KeyStillAvailable, Sec!ToSet, Sec!Cached, Sec!Contains
<1> QED
  BY <1>1, <1>2, <1>3, <1>4, <1>5, <1>6, <1>7

LEMMA SameHands ==
  /\ (Hands!Init <=> Sec!Agreement!Init)
  /\ ([Hands!Next]_Hands!vars <=> [Sec!Agreement!Next]_Sec!Agreement!vars)
  /\ (Hands!HandshakeAssumption <=> Sec!Agreement!HandshakeAssumption)
  /\ (Hands!ChainWithinBudget <=> Sec!Agreement!ChainWithinBudget)
<1>1. (Hands!Init <=> Sec!Agreement!Init)
  BY DEF Hands!Init, Hands!Idle, Sec!Agreement!Init, Sec!Agreement!Idle
<1>2. ([Hands!Next]_Hands!vars <=> [Sec!Agreement!Next]_Sec!Agreement!vars)
  BY DEF Hands!Next, Hands!vars, Hands!StartHandshake, Hands!Create,
     Hands!Write, Hands!Ids, Hands!RestartHandshake,
     Hands!AcceptHandshake, Hands!CompleteHandshake, Hands!GetHandshake,
     Hands!RejectHandshake, Hands!EndHandshake, Hands!Expire, Hands!Free,
     Hands!isTerminal, Hands!Busy, Hands!Creating, Hands!createSession,
     Hands!Moving, Hands!Idle, Hands!canRetry, Hands!RefreshExpiry,
     Hands!Decide, Hands!Failures, Hands!State, Hands!TerminalStates,
     Hands!canTransition, Hands!Last, Hands!Forward, Hands!Refusals,
     Hands!Ends, Hands!ActiveStates, Hands!CryptoStates,
     Sec!Agreement!Next, Sec!Agreement!vars, Sec!Agreement!StartHandshake,
     Sec!Agreement!Create, Sec!Agreement!Write, Sec!Agreement!Ids,
     Sec!Agreement!RestartHandshake, Sec!Agreement!AcceptHandshake,
     Sec!Agreement!CompleteHandshake, Sec!Agreement!GetHandshake,
     Sec!Agreement!RejectHandshake, Sec!Agreement!EndHandshake,
     Sec!Agreement!Expire, Sec!Agreement!Free, Sec!Agreement!isTerminal,
     Sec!Agreement!Busy, Sec!Agreement!Creating,
     Sec!Agreement!createSession, Sec!Agreement!Moving,
     Sec!Agreement!Idle, Sec!Agreement!canRetry,
     Sec!Agreement!RefreshExpiry, Sec!Agreement!Decide,
     Sec!Agreement!Failures, Sec!Agreement!State,
     Sec!Agreement!TerminalStates, Sec!Agreement!canTransition,
     Sec!Agreement!Last, Sec!Agreement!Forward, Sec!Agreement!Refusals,
     Sec!Agreement!Ends, Sec!Agreement!ActiveStates,
     Sec!Agreement!CryptoStates
<1>3. (Hands!HandshakeAssumption <=> Sec!Agreement!HandshakeAssumption)
  BY DEF Hands!HandshakeAssumption, Sec!Agreement!HandshakeAssumption
<1>4. (Hands!ChainWithinBudget <=> Sec!Agreement!ChainWithinBudget)
  BY DEF Hands!ChainWithinBudget, Hands!Ids,
     Sec!Agreement!ChainWithinBudget, Sec!Agreement!Ids
<1> QED
  BY <1>1, <1>2, <1>3, <1>4

LEMMA RekeyCards ==
  /\ \A S : Rekey!Cardinality(S) = Sec!Rekey!Cardinality(S)
  /\ \A S : Rekey!IsFiniteSet(S) <=> Sec!Rekey!IsFiniteSet(S)
  BY DEF Rekey!Cardinality, Rekey!IsFiniteSet, Sec!Rekey!Cardinality,
     Sec!Rekey!IsFiniteSet

LEMMA SameRekey ==
  /\ ([Rekey!RekeyNext]_Rekey!rekeyVars <=> [Sec!Rekey!RekeyNext]_Sec!Rekey!rekeyVars)
  /\ (Rekey!RekeyInit <=> Sec!Rekey!RekeyInit)
  /\ (Rekey!ForwardSecrecyAssumption <=> Sec!Rekey!ForwardSecrecyAssumption)
  /\ (Rekey!AutomaticRekeyAssumption <=> Sec!Rekey!AutomaticRekeyAssumption)
  /\ (Rekey!BurstRekeysOnce <=> Sec!Rekey!BurstRekeysOnce)
  /\ (Rekey!RekeyTypeOK <=> Sec!Rekey!RekeyTypeOK)
<1>1. ([Rekey!RekeyNext]_Rekey!rekeyVars <=> [Sec!Rekey!RekeyNext]_Sec!Rekey!rekeyVars)
  <2>1. (Rekey!RekeyRestart <=> Sec!Rekey!RekeyRestart)
    BY DEF Rekey!RekeyRestart, Rekey!Restart, Rekey!NoTrigger, Rekey!Gone,
       Rekey!Ended, Sec!Rekey!RekeyRestart, Sec!Rekey!Restart,
       Sec!Rekey!NoTrigger, Sec!Rekey!Gone, Sec!Rekey!Ended
  <2>2. (Rekey!CancelPending <=> Sec!Rekey!CancelPending)
    BY DEF Rekey!CancelPending, Rekey!None, Rekey!vars,
       Sec!Rekey!CancelPending, Sec!Rekey!None, Sec!Rekey!vars
  <2>3. \A c : (Rekey!Trigger(c) <=> Sec!Rekey!Trigger(c))
    BY RekeyCards DEF Rekey!Trigger, Rekey!Free, Rekey!Step, Rekey!Goto,
       Rekey!vars, Sec!Rekey!Trigger, Sec!Rekey!Free, Sec!Rekey!Step,
       Sec!Rekey!Goto, Sec!Rekey!vars
  <2>4. \A c : 
         (Rekey!Evolve(c) <=> Sec!Rekey!Evolve(c)) /\ (Rekey!Destroy(c) <=> Sec!Rekey!Destroy(c))
    BY DEF Rekey!Evolve, Rekey!Destroy, Rekey!Free, Rekey!Busy, Rekey!With,
       Rekey!NoRecord, Rekey!Gone, Sec!Rekey!Evolve, Sec!Rekey!Destroy,
       Sec!Rekey!Free, Sec!Rekey!Busy, Sec!Rekey!With, Sec!Rekey!NoRecord,
       Sec!Rekey!Gone
  <2>5. \A c : 
         (Rekey!Expect(c) <=> Sec!Rekey!Expect(c)) /\ (Rekey!Submit(c) <=> Sec!Rekey!Submit(c))
    BY DEF Rekey!Expect, Rekey!Submit, Rekey!Step, Rekey!vars, Rekey!Goto,
       Sec!Rekey!Expect, Sec!Rekey!Submit, Sec!Rekey!Step, Sec!Rekey!vars,
       Sec!Rekey!Goto
  <2>6. \A c : (Rekey!Begin(c) <=> Sec!Rekey!Begin(c))
    BY DEF Rekey!Begin, Rekey!Running, Rekey!Step, Rekey!vars,
       Sec!Rekey!Begin, Sec!Rekey!Running, Sec!Rekey!Step, Sec!Rekey!vars
  <2>7. \A c : 
         (Rekey!Coalesce(c) <=> Sec!Rekey!Coalesce(c)) /\ (Rekey!Execute(c) <=> Sec!Rekey!Execute(c))
    BY DEF Rekey!Coalesce, Rekey!Execute, Rekey!Running, Rekey!Step,
       Rekey!Persist, Rekey!Leave, Rekey!vars, Rekey!None, Rekey!NoTrigger,
       Sec!Rekey!Coalesce, Sec!Rekey!Execute, Sec!Rekey!Running,
       Sec!Rekey!Step, Sec!Rekey!Persist, Sec!Rekey!Leave, Sec!Rekey!vars,
       Sec!Rekey!None, Sec!Rekey!NoTrigger
  <2>8. \A c : (Rekey!CallEvolve(c) <=> Sec!Rekey!CallEvolve(c))
    BY DEF Rekey!CallEvolve, Rekey!Step, Rekey!Evolve, Rekey!Busy,
       Rekey!Ended, Rekey!Goto, Rekey!Free, Rekey!With,
       Sec!Rekey!CallEvolve, Sec!Rekey!Step, Sec!Rekey!Evolve,
       Sec!Rekey!Busy, Sec!Rekey!Ended, Sec!Rekey!Goto, Sec!Rekey!Free,
       Sec!Rekey!With
  <2>9. \A c : 
         (Rekey!Complete(c) <=> Sec!Rekey!Complete(c)) /\ (Rekey!Retry(c) <=> Sec!Rekey!Retry(c))
    BY DEF Rekey!Complete, Rekey!Retry, Rekey!Step, Rekey!Free,
       Rekey!Persist, Rekey!Leave, Rekey!vars, Rekey!AttemptFailed,
       Rekey!None, Rekey!NoTrigger, Sec!Rekey!Complete, Sec!Rekey!Retry,
       Sec!Rekey!Step, Sec!Rekey!Free, Sec!Rekey!Persist, Sec!Rekey!Leave,
       Sec!Rekey!vars, Sec!Rekey!AttemptFailed, Sec!Rekey!None,
       Sec!Rekey!NoTrigger
  <2>10. \A c : 
         (Rekey!GiveUp(c) <=> Sec!Rekey!GiveUp(c)) /\ (Rekey!Abandon(c) <=> Sec!Rekey!Abandon(c))
    BY DEF Rekey!GiveUp, Rekey!Abandon, Rekey!AttemptFailed, Rekey!Persist,
       Rekey!Leave, Rekey!vars, Rekey!Step, Rekey!Free, Rekey!None,
       Rekey!NoTrigger, Sec!Rekey!GiveUp, Sec!Rekey!Abandon,
       Sec!Rekey!AttemptFailed, Sec!Rekey!Persist, Sec!Rekey!Leave,
       Sec!Rekey!vars, Sec!Rekey!Step, Sec!Rekey!Free, Sec!Rekey!None,
       Sec!Rekey!NoTrigger
  <2>11. \A c : (Rekey!Proceed(c) <=> Sec!Rekey!Proceed(c))
    BY DEF Rekey!Proceed, Rekey!StartWrite, Rekey!Commit,
       Rekey!CommitRefused, Rekey!Write, Rekey!WriteFails,
       Rekey!DestroyWrite, Rekey!DeleteWrite, Rekey!Fresh, Rekey!NewRecord,
       Rekey!Busy, Rekey!Ended, Rekey!Committed, Rekey!With, Rekey!NoRecord,
       Sec!Rekey!Proceed, Sec!Rekey!StartWrite, Sec!Rekey!Commit,
       Sec!Rekey!CommitRefused, Sec!Rekey!Write, Sec!Rekey!WriteFails,
       Sec!Rekey!DestroyWrite, Sec!Rekey!DeleteWrite, Sec!Rekey!Fresh,
       Sec!Rekey!NewRecord, Sec!Rekey!Busy, Sec!Rekey!Ended,
       Sec!Rekey!Committed, Sec!Rekey!With, Sec!Rekey!NoRecord
  <2> QED
    BY <2>1, <2>2, <2>3, <2>4, <2>5, <2>6, <2>7, <2>8, <2>9, <2>10, <2>11
       DEF Rekey!RekeyNext, Rekey!rekeyVars, Rekey!rekey, Rekey!vars,
       Rekey!Directly, Rekey!Engine, Rekey!Step, Sec!Rekey!RekeyNext,
       Sec!Rekey!rekeyVars, Sec!Rekey!rekey, Sec!Rekey!vars,
       Sec!Rekey!Directly, Sec!Rekey!Engine, Sec!Rekey!Step
<1>2. (Rekey!RekeyInit <=> Sec!Rekey!RekeyInit)
  BY DEF Rekey!RekeyInit, Rekey!Fresh, Rekey!NewRecord, Rekey!Ended,
     Rekey!NoTrigger, Rekey!None, Sec!Rekey!RekeyInit, Sec!Rekey!Fresh,
     Sec!Rekey!NewRecord, Sec!Rekey!Ended, Sec!Rekey!NoTrigger,
     Sec!Rekey!None
<1>3. (Rekey!ForwardSecrecyAssumption <=> Sec!Rekey!ForwardSecrecyAssumption)
  BY DEF Rekey!ForwardSecrecyAssumption,
     Sec!Rekey!ForwardSecrecyAssumption
<1>4. (Rekey!AutomaticRekeyAssumption <=> Sec!Rekey!AutomaticRekeyAssumption)
  BY DEF Rekey!AutomaticRekeyAssumption,
     Sec!Rekey!AutomaticRekeyAssumption
<1>5. (Rekey!BurstRekeysOnce <=> Sec!Rekey!BurstRekeysOnce)
  BY DEF Rekey!BurstRekeysOnce, Rekey!Completed,
     Sec!Rekey!BurstRekeysOnce, Sec!Rekey!Completed
<1>6. (Rekey!RekeyTypeOK <=> Sec!Rekey!RekeyTypeOK)
  BY DEF Rekey!RekeyTypeOK, Rekey!TypeOK, Sec!Rekey!RekeyTypeOK,
     Sec!Rekey!TypeOK
<1> QED
  BY <1>1, <1>2, <1>3, <1>4, <1>5, <1>6

\* While a part runs, its component's inductive invariant holds.
SessionKept == part = "session" => Sec!SessionInv
KeysKept == part = "keys" => Sec!IInv /\ Sec!LastInv
SecrecyKept == part = "secrecy" => Sec!SecrecyInv
HandsKept == part = "handshake" => Sec!HandInv
RekeyKept == part = "rekey" => Sec!BurstInv /\ Sec!RekeyBounds

\* The sessions keep the invariant of the session manager.
LEMMA SessionKeeps == PartSpec => []SessionKept
<1>1. Secure!SecureSessionAssumption /\ Sec!Session!SecureSessionAssumption
  BY SecureSessionHolds, SameSession
<1>2. PartInit => SessionKept
  BY <1>1, SameSession, Sec!InitSession DEF PartInit, SessionKept
<1>3. SessionKept /\ [PartNext]_<<part, all>> => SessionKept'
  BY <1>1, StepsOfParts, SameSession, Sec!SessionStep DEF SessionKept
<1> QED
  BY <1>2, <1>3, PTL DEF PartSpec

\* The triggers keep the invariant of the session's executions and their lock.
LEMMA RekeyKeeps == PartSpec => []RekeyKept
<1>1. Sec!Rekey!ForwardSecrecyAssumption /\ Sec!Rekey!AutomaticRekeyAssumption
  BY AutomaticRekeyHolds, SameRekey
<1>2. PartInit => RekeyKept
  BY <1>1, SameRekey, Sec!InitBurst, Sec!InitBounds DEF PartInit, RekeyKept
<1>3. RekeyKept /\ [PartNext]_<<part, all>> => RekeyKept'
  BY <1>1, StepsOfParts, SameRekey, Sec!RekeyStep, Sec!BoundsStep DEF RekeyKept
<1> QED
  BY <1>2, <1>3, PTL DEF PartSpec

\* The message keys keep the invariant of the two chains and the cache.
LEMMA KeysKeep == PartSpec => []KeysKept
<1>1. Keys!MessageKeysAssumption /\ Sec!MessageKeysAssumption
  BY MessageKeysHolds, SameKeys
<1>2. PartInit => KeysKept
  BY <1>1, SameKeys, Sec!InitIInv, Sec!InitLast DEF PartInit, KeysKept
<1>3. KeysKept /\ [PartNext]_<<part, all>> => KeysKept'
  BY <1>1, StepsOfParts, SameKeys, Sec!StepIInv, Sec!LastStep DEF KeysKept
<1> QED
  BY <1>2, <1>3, PTL DEF PartSpec

\* The generations keep the invariant of the evolution manager.
LEMMA SecrecyKeeps == PartSpec => []SecrecyKept
<1>1. Secrecy!ForwardSecrecyAssumption /\ Sec!Secrecy!ForwardSecrecyAssumption
  BY ForwardSecrecyHolds, SameSecrecy
<1>2. PartInit => SecrecyKept
  BY <1>1, SameSecrecy, Sec!InitSecrecy DEF PartInit, SecrecyKept
<1>3. SecrecyKept /\ [PartNext]_<<part, all>> => SecrecyKept'
  BY <1>1, StepsOfParts, SameSecrecy, Sec!SecrecyStep DEF SecrecyKept
<1> QED
  BY <1>2, <1>3, PTL DEF PartSpec

\* The handshakes keep the invariant of the chain of restarts.
LEMMA HandsKeep == PartSpec => []HandsKept
<1>1. Hands!HandshakeAssumption /\ Sec!Agreement!HandshakeAssumption
  BY HandshakeHolds, SameHands
<1>2. PartInit => HandsKept
  BY <1>1, SameHands, Sec!InitHand DEF PartInit, HandsKept
<1>3. HandsKept /\ [PartNext]_<<part, all>> => HandsKept'
  BY <1>1, StepsOfParts, SameHands, Sec!HandStep DEF HandsKept
<1> QED
  BY <1>2, <1>3, PTL DEF PartSpec

\* Once nothing is under way for a session that was destroyed or expired, the
\* key store has nothing of it left (sessionManager.closeSession and destroySession
\* delete the keys, and a rekey that ends later does not bring them back).
THEOREM SessionsEnd == PartSpec => []EndedHasNoKeys
<1>1. SessionKept => EndedHasNoKeys
  BY SameSession, Sec!SessionMeans DEF SessionKept, EndedHasNoKeys
<1> QED
  BY <1>1, SessionKeeps, PTL

\* The key of a message that is still to be opened can be had from the chain or
\* from the cache of skipped keys, and that of an opened one from neither, unless
\* a skip that failed left it in the cache while the chain still had it
\* (messageKeyManager._deriveReceiving, :294-304).
THEOREM KeysAreTheirs == PartSpec => []KeysLastUntilUsed
<1>1. Sec!MessageKeysAssumption
  BY MessageKeysHolds, SameKeys
<1>2. KeysKept => KeysLastUntilUsed
  BY <1>1, SameKeys, Sec!LastMeans, Sec!UsedAreGone DEF KeysKept, KeysLastUntilUsed
<1> QED
  BY <1>2, KeysKeep, PTL

\* No chain of handshakes that restart one another is longer than the retries
\* allow, whoever restarts one and however the requests interleave: with three
\* handshakes and one retry a third of a chain would be one too many
\* (handshakeManager.restartHandshake).
THEOREM RetriesAreBounded == PartSpec => []ChainWithinBudget
<1>1. Sec!Agreement!HandshakeAssumption
  BY HandshakeHolds, SameHands
<1>2. HandsKept => ChainWithinBudget
  BY <1>1, SameHands, Sec!ChainMeans DEF HandsKept, ChainWithinBudget
<1> QED
  BY <1>2, HandsKeep, PTL

-----------------------------------------------------------------------------
(* Receipts and chat groups. *)

Grp == INSTANCE Groups_proofs
  WITH Members <- People \cup {Admin}, ReadExcluded <- {Admin},
       Callers <- Actors, CountMayFail <- TRUE,
       aggregate <- v1, receipts <- v2, lock <- v3, calls <- v4, cache <- v5,
       missed <- v6, Users <- People \cup {Admin}, MaxChanges <- 3,
       members <- v1, pending <- v2, version <- v3,
       Devices <- People, Requests <- Actors, AtomicDrain <- TRUE,
       SendMayFail <- TRUE, ResumeMayFail <- TRUE,
       plan <- v1, queue <- v2, sender <- v3, requests <- v4, sent <- v5,
       confirmed <- v6, lost <- v7, shared <- v8,
       MaxMembers <- 2, Public <- TRUE, MaxVersion <- 3, MayFail <- TRUE,
       group <- v1, memberships <- v2, replica <- v3, work <- v4, draft <- v5,
       refreshing <- v6, torn <- v7,
       MaxExpired <- 1, keys <- v2, secret <- v3, bounds <- v6

LEMMA Cards ==
  /\ \A S : Receipts!Cardinality(S) = Grp!Cardinality(S)
  /\ \A S : Receipts!IsFiniteSet(S) <=> Grp!IsFiniteSet(S)
  BY DEF Receipts!Cardinality, Grp!Cardinality, Receipts!IsFiniteSet,
     Grp!IsFiniteSet

LEMMA SameApplicable ==
  /\ Receipts!Applicable = Grp!Applicable
  /\ Receipts!ReadApplicable = Grp!ReadApplicable
  BY Cards DEF Receipts!Applicable, Grp!Applicable, Receipts!ReadApplicable,
     Grp!ReadApplicable

LEMMA SameReceipts ==
  /\ (Receipts!Init <=> Grp!Init)
  /\ ([Receipts!Next]_Receipts!vars <=> [Grp!Next]_Grp!vars)
  /\ (Receipts!GroupReceiptsAssumption <=> Grp!GroupReceiptsAssumption)
  /\ (Receipts!TickIsEarned <=> Grp!TickIsEarned)
  /\ (Receipts!CountsAreReceipts <=> Grp!CountsAreReceipts)
  /\ (Receipts!TickRises <=> Grp!TickRises)
<1>1. (Receipts!Init <=> Grp!Init)
  BY Cards, SameApplicable DEF Receipts!Init, Receipts!NoAggregate,
     Receipts!NoOne, Receipts!Idle, Grp!Init, Grp!NoAggregate, Grp!NoOne,
     Grp!Idle
<1>2. ([Receipts!Next]_Receipts!vars <=> [Grp!Next]_Grp!vars)
  BY Cards, SameApplicable DEF Receipts!Next, Receipts!vars,
     Receipts!Register, Receipts!Forget, Receipts!Restart, Receipts!Look,
     Receipts!Proceed, Receipts!Kinds, Receipts!Report,
     Receipts!NoAggregate, Receipts!NoOne, Receipts!Idle, Receipts!Misses,
     Receipts!Busy, Receipts!StoreReceipt, Receipts!Count,
     Receipts!CountFails, Receipts!Refresh, Receipts!Fill,
     Receipts!Reports, Receipts!Became, Receipts!Least, Receipts!Release,
     Grp!Next, Grp!vars, Grp!Register, Grp!Forget, Grp!Restart, Grp!Look,
     Grp!Proceed, Grp!Kinds, Grp!Report, Grp!NoAggregate, Grp!NoOne,
     Grp!Idle, Grp!Misses, Grp!Busy, Grp!StoreReceipt, Grp!Count,
     Grp!CountFails, Grp!Refresh, Grp!Fill, Grp!Reports, Grp!Became,
     Grp!Least, Grp!Release
<1>3. (Receipts!GroupReceiptsAssumption <=> Grp!GroupReceiptsAssumption)
  BY Cards, SameApplicable DEF Receipts!GroupReceiptsAssumption,
     Grp!GroupReceiptsAssumption
<1>4. (Receipts!TickIsEarned <=> Grp!TickIsEarned)
  BY Cards, SameApplicable DEF Receipts!TickIsEarned, Receipts!Tick,
     Receipts!DeliveredTo, Receipts!NoAggregate, Grp!TickIsEarned,
     Grp!Tick, Grp!DeliveredTo, Grp!NoAggregate
<1>5. (Receipts!CountsAreReceipts <=> Grp!CountsAreReceipts)
  BY Cards, SameApplicable DEF Receipts!CountsAreReceipts,
     Receipts!NoOne, Receipts!NoAggregate, Receipts!DeliveredTo,
     Grp!CountsAreReceipts, Grp!NoOne, Grp!NoAggregate, Grp!DeliveredTo
<1>6. (Receipts!TickRises <=> Grp!TickRises)
  BY Cards, SameApplicable DEF Receipts!TickRises, Receipts!Rank,
     Receipts!Tick, Receipts!NoAggregate, Grp!TickRises, Grp!Rank,
     Grp!Tick, Grp!NoAggregate
<1> QED
  BY <1>1, <1>2, <1>3, <1>4, <1>5, <1>6

LEMMA SameChat ==
  /\ (Chat!Init <=> Grp!Chat!Init)
  /\ ([Chat!Next]_Chat!vars <=> [Grp!Chat!Next]_Grp!Chat!vars)
  /\ (Chat!GroupChatAssumption <=> Grp!Chat!GroupChatAssumption)
  /\ (Chat!KeepsInvitations <=> Grp!Chat!KeepsInvitations)
  /\ (Chat!JoinsByInvitation <=> Grp!Chat!JoinsByInvitation)
<1>1. (Chat!Init <=> Grp!Chat!Init)
  BY DEF Chat!Init, Chat!Idle, Grp!Chat!Init, Grp!Chat!Idle
<1>2. ([Chat!Next]_Chat!vars <=> [Grp!Chat!Next]_Grp!Chat!vars)
  BY DEF Chat!Next, Chat!vars, Chat!SaveAnswer, Chat!SaveRefused,
     Chat!SaveInvite, Chat!Invite, Chat!Answer, Chat!Busy, Chat!Idle,
     Chat!Free, Grp!Chat!Next, Grp!Chat!vars, Grp!Chat!SaveAnswer,
     Grp!Chat!SaveRefused, Grp!Chat!SaveInvite, Grp!Chat!Invite,
     Grp!Chat!Answer, Grp!Chat!Busy, Grp!Chat!Idle, Grp!Chat!Free
<1>3. (Chat!GroupChatAssumption <=> Grp!Chat!GroupChatAssumption)
  BY DEF Chat!GroupChatAssumption, Grp!Chat!GroupChatAssumption
<1>4. (Chat!KeepsInvitations <=> Grp!Chat!KeepsInvitations)
  BY DEF Chat!KeepsInvitations, Chat!Idle, Grp!Chat!KeepsInvitations,
     Grp!Chat!Idle
<1>5. (Chat!JoinsByInvitation <=> Grp!Chat!JoinsByInvitation)
  BY DEF Chat!JoinsByInvitation, Grp!Chat!JoinsByInvitation
<1> QED
  BY <1>1, <1>2, <1>3, <1>4, <1>5

LEMMA SameFanout ==
  /\ (Fanout!Init <=> Grp!Fanout!Init)
  /\ ([Fanout!Next]_Fanout!vars <=> [Grp!Fanout!Next]_Grp!Fanout!vars)
  /\ (Fanout!GroupFanoutAssumption <=> Grp!Fanout!GroupFanoutAssumption)
  /\ (Fanout!SentOnce <=> Grp!Fanout!SentOnce)
  /\ (Fanout!NotForgotten <=> Grp!Fanout!NotForgotten)
  /\ (Fanout!TypeOK <=> Grp!Fanout!TypeOK)
<1>1. (Fanout!Init <=> Grp!Fanout!Init)
  BY DEF Fanout!Init, Fanout!NoPlan, Fanout!Idle, Grp!Fanout!Init, Grp!Fanout!NoPlan,
     Grp!Fanout!Idle
<1>2. ([Fanout!Next]_Fanout!vars <=> [Grp!Fanout!Next]_Grp!Fanout!vars)
  BY DEF Fanout!Next, Fanout!vars, Fanout!Send, Fanout!Dispatching, Fanout!Resume,
     Fanout!Receive, Fanout!Proceed, Fanout!NoPlan, Fanout!Dispatch,
     Fanout!Enqueue, Fanout!Conclude, Fanout!Idle, Fanout!Find, Fanout!Open,
     Fanout!Delete, Fanout!Deliver, Fanout!Load, Fanout!Save, Fanout!Leg,
     Fanout!Moved, Fanout!Found, Fanout!FoundBySome, Fanout!history,
     Grp!Fanout!Next, Grp!Fanout!vars, Grp!Fanout!Send,
     Grp!Fanout!Dispatching, Grp!Fanout!Resume, Grp!Fanout!Receive,
     Grp!Fanout!Proceed, Grp!Fanout!NoPlan, Grp!Fanout!Dispatch,
     Grp!Fanout!Enqueue, Grp!Fanout!Conclude, Grp!Fanout!Idle,
     Grp!Fanout!Find, Grp!Fanout!Open, Grp!Fanout!Delete,
     Grp!Fanout!Deliver, Grp!Fanout!Load, Grp!Fanout!Save, Grp!Fanout!Leg,
     Grp!Fanout!Moved, Grp!Fanout!Found, Grp!Fanout!FoundBySome,
     Grp!Fanout!history
<1>3. (Fanout!SentOnce <=> Grp!Fanout!SentOnce)
  BY DEF Fanout!SentOnce, Grp!Fanout!SentOnce
<1>4. (Fanout!NotForgotten <=> Grp!Fanout!NotForgotten)
  BY DEF Fanout!NotForgotten, Fanout!NoPlan, Fanout!LookedAfter, Fanout!UnderWay,
     Fanout!Found, Grp!Fanout!NotForgotten, Grp!Fanout!NoPlan,
     Grp!Fanout!LookedAfter, Grp!Fanout!UnderWay, Grp!Fanout!Found
<1>5. (Fanout!TypeOK <=> Grp!Fanout!TypeOK)
  BY DEF Fanout!TypeOK, Fanout!NoPlan, Fanout!LegStates, Grp!Fanout!TypeOK,
     Grp!Fanout!NoPlan, Grp!Fanout!LegStates
<1>6. (Fanout!GroupFanoutAssumption <=> Grp!Fanout!GroupFanoutAssumption)
  BY DEF Fanout!GroupFanoutAssumption, Grp!Fanout!GroupFanoutAssumption
<1> QED
  BY <1>1, <1>2, <1>3, <1>4, <1>5, <1>6

\* While a part runs, its component's inductive invariant holds.
ReceiptsKept == part = "receipts" => Grp!IInv
ChatKept == part = "chat" => Grp!ChatInv

\* The receipts keep the invariant of the aggregate and its lock.
LEMMA ReceiptsKeep == PartSpec => []ReceiptsKept
<1>1. Receipts!GroupReceiptsAssumption /\ Grp!GroupReceiptsAssumption
  BY GroupReceiptsHolds, SameReceipts
<1>2. PartInit => ReceiptsKept
  BY <1>1, SameReceipts, Grp!InitIInv DEF PartInit, ReceiptsKept
<1>3. ReceiptsKept /\ [PartNext]_<<part, all>> => ReceiptsKept'
  BY <1>1, StepsOfParts, SameReceipts, Grp!StepIInv DEF ReceiptsKept
<1> QED
  BY <1>2, <1>3, PTL DEF PartSpec

\* The group document keeps the invariant of the controller.
LEMMA ChatKeeps == PartSpec => []ChatKept
<1>1. Chat!GroupChatAssumption /\ Grp!Chat!GroupChatAssumption
  BY GroupChatHolds, SameChat
<1>2. PartInit => ChatKept
  BY <1>1, SameChat, Grp!InitChatInv DEF PartInit, ChatKept
<1>3. ChatKept /\ [PartNext]_<<part, all>> => ChatKept'
  BY <1>1, StepsOfParts, SameChat, Grp!StepChatInv DEF ChatKept
<1> QED
  BY <1>2, <1>3, PTL DEF PartSpec

\* No tick above the single one before every member that counts has the message
\* (the group receipt manager's status), in whatever order the reports come in.
THEOREM TicksEarned == PartSpec => []TickIsEarned
<1>1. Grp!GroupReceiptsAssumption
  BY GroupReceiptsHolds, SameReceipts
<1>2. ReceiptsKept => TickIsEarned
  BY <1>1, SameReceipts, Grp!Earned DEF ReceiptsKept, TickIsEarned
<1> QED
  BY <1>2, ReceiptsKeep, PTL

\* Whoever was asked into a chat group stays invited until the answer, and
\* becomes a member by accepting only: no save of an older copy of the document
\* undoes it (groupController's handlers).
THEOREM InvitationsStay == PartSpec => InvitationsKept
<1>1. ChatKept /\ [PartNext]_<<part, all>> =>
        (part = "chat" => Chat!KeepsInvitations /\ Chat!JoinsByInvitation)
  BY StepsOfParts, SameChat, Grp!StepKeepsInvitations DEF ChatKept
<1> QED
  BY <1>1, ChatKeeps, PTL DEF PartSpec, InvitationsKept

-----------------------------------------------------------------------------
(* Group services and group keys. *)

OpenGrp == INSTANCE Groups_proofs
  WITH Users <- People, MaxMembers <- 2, Public <- TRUE, MaxVersion <- 3,
       MayFail <- TRUE,
       group <- v1, memberships <- v2, replica <- v3, work <- v4, draft <- v5,
       refreshing <- v6, torn <- v7,
       Callers <- Actors, MaxChanges <- 2, MaxExpired <- 1,
       members <- v1, keys <- v2, secret <- v3, lock <- v4, calls <- v5,
       bounds <- v6, missed <- v7,
       Members <- People \cup {Admin}, ReadExcluded <- {Admin},
       CountMayFail <- TRUE, aggregate <- v1, receipts <- v2, cache <- v5,
       pending <- v2, version <- v3,
       Devices <- {Admin}, Requests <- Actors, AtomicDrain <- FALSE,
       SendMayFail <- FALSE, ResumeMayFail <- TRUE,
       plan <- v1, queue <- v2, sender <- v3, requests <- v4, sent <- v5,
       confirmed <- v6, lost <- v7, shared <- v8

LEMMA KeyCards ==
  \A S : Epochs!Cardinality(S) = OpenGrp!Epochs!Cardinality(S)
  BY DEF Epochs!Cardinality, Epochs!IsFiniteSet, OpenGrp!Epochs!Cardinality,
     OpenGrp!Epochs!IsFiniteSet

LEMMA SameEpochs ==
  /\ (Epochs!Init <=> OpenGrp!Epochs!Init)
  /\ ([Epochs!Next]_Epochs!vars <=> [OpenGrp!Epochs!Next]_OpenGrp!Epochs!vars)
  /\ (Epochs!GroupKeysAssumption <=> OpenGrp!Epochs!GroupKeysAssumption)
  /\ (Epochs!KeyFitsMembers /\ Epochs!OneKeyInUse <=> OpenGrp!Epochs!KeyFitsMembers /\ OpenGrp!Epochs!OneKeyInUse)
<1>1. (Epochs!Init <=> OpenGrp!Epochs!Init)
  BY KeyCards DEF Epochs!Init, Epochs!Versions, Epochs!NoKey,
     Epochs!NoOne, Epochs!Idle, OpenGrp!Epochs!Init,
     OpenGrp!Epochs!Versions, OpenGrp!Epochs!NoKey, OpenGrp!Epochs!NoOne,
     OpenGrp!Epochs!Idle
<1>2. ([Epochs!Next]_Epochs!vars <=> [OpenGrp!Epochs!Next]_OpenGrp!Epochs!vars)
  BY KeyCards DEF Epochs!Next, Epochs!vars, Epochs!MemberJoined,
     Epochs!MemberLeft, Epochs!Ask, Epochs!Look, Epochs!Enter,
     Epochs!Draw, Epochs!Store, Epochs!Supersede, Epochs!Versions,
     Epochs!Expire, Epochs!Change, Epochs!Idle, Epochs!Busy,
     Epochs!Active, Epochs!NoOne, Epochs!Drawn, Epochs!Release,
     Epochs!NoKey, Epochs!Newest, Epochs!ActiveVersions,
     Epochs!FreshTriggers, OpenGrp!Epochs!Next, OpenGrp!Epochs!vars,
     OpenGrp!Epochs!MemberJoined, OpenGrp!Epochs!MemberLeft,
     OpenGrp!Epochs!Ask, OpenGrp!Epochs!Look, OpenGrp!Epochs!Enter,
     OpenGrp!Epochs!Draw, OpenGrp!Epochs!Store, OpenGrp!Epochs!Supersede,
     OpenGrp!Epochs!Versions, OpenGrp!Epochs!Expire,
     OpenGrp!Epochs!Change, OpenGrp!Epochs!Idle, OpenGrp!Epochs!Busy,
     OpenGrp!Epochs!Active, OpenGrp!Epochs!NoOne, OpenGrp!Epochs!Drawn,
     OpenGrp!Epochs!Release, OpenGrp!Epochs!NoKey, OpenGrp!Epochs!Newest,
     OpenGrp!Epochs!ActiveVersions, OpenGrp!Epochs!FreshTriggers
<1>3. (Epochs!GroupKeysAssumption <=> OpenGrp!Epochs!GroupKeysAssumption)
  BY KeyCards DEF Epochs!GroupKeysAssumption,
     OpenGrp!Epochs!GroupKeysAssumption
<1>4. (Epochs!KeyFitsMembers /\ Epochs!OneKeyInUse <=> OpenGrp!Epochs!KeyFitsMembers /\ OpenGrp!Epochs!OneKeyInUse)
  BY KeyCards DEF Epochs!KeyFitsMembers, Epochs!OneKeyInUse,
     Epochs!Quiet, Epochs!Active, Epochs!NoOne, Epochs!ActiveVersions,
     Epochs!Idle, Epochs!Newest, Epochs!Versions,
     OpenGrp!Epochs!KeyFitsMembers, OpenGrp!Epochs!OneKeyInUse,
     OpenGrp!Epochs!Quiet, OpenGrp!Epochs!Active, OpenGrp!Epochs!NoOne,
     OpenGrp!Epochs!ActiveVersions, OpenGrp!Epochs!Idle,
     OpenGrp!Epochs!Newest, OpenGrp!Epochs!Versions
<1> QED
  BY <1>1, <1>2, <1>3, <1>4

LEMMA SameOpen ==
  /\ ([Open!Next]_Open!vars <=> [OpenGrp!Manager!Next]_OpenGrp!Manager!vars)
  /\ (Open!Init <=> OpenGrp!Manager!Init)
  /\ (Open!GroupManagerAssumption <=> OpenGrp!Manager!GroupManagerAssumption)
  /\ (Open!OwnerIsIn /\ Open!DeletedIsEmpty <=> OpenGrp!Manager!OwnerIsIn /\ OpenGrp!Manager!DeletedIsEmpty)
  /\ (Open!ReplicaShowsGroup <=> OpenGrp!Manager!ReplicaShowsGroup)
<1>1. ([Open!Next]_Open!vars <=> [OpenGrp!Manager!Next]_OpenGrp!Manager!vars)
  <2>1. /\ (Open!Write <=> OpenGrp!Manager!Write)
        /\ (Open!Tear <=> OpenGrp!Manager!Tear)
    BY DEF Open!Write, Open!Tear, Open!WriteMembership, Open!WriteGroup,
       Open!ListMemberships, Open!WriteReplica, Open!WriteTombstone,
       Open!Nothing, Open!Snapshot, Open!NoMembership,
       OpenGrp!Manager!Write, OpenGrp!Manager!Tear,
       OpenGrp!Manager!WriteMembership, OpenGrp!Manager!WriteGroup,
       OpenGrp!Manager!ListMemberships, OpenGrp!Manager!WriteReplica,
       OpenGrp!Manager!WriteTombstone, OpenGrp!Manager!Nothing,
       OpenGrp!Manager!Snapshot, OpenGrp!Manager!NoMembership
  <2>2. (Open!Refresh <=> OpenGrp!Manager!Refresh)
    BY DEF Open!Refresh, Open!Snapshot, OpenGrp!Manager!Refresh,
       OpenGrp!Manager!Snapshot
  <2>3. \A u : (Open!Create(u) <=> OpenGrp!Manager!Create(u))
    BY DEF Open!Create, Open!Member, Open!Roles, Open!Do, Open!Record,
       OpenGrp!Manager!Create, OpenGrp!Manager!Member,
       OpenGrp!Manager!Roles, OpenGrp!Manager!Do, OpenGrp!Manager!Record
  <2>4. \A u :
           /\ (Open!Accept(u) <=> OpenGrp!Manager!Accept(u))
           /\ (Open!Reject(u) <=> OpenGrp!Manager!Reject(u))
           /\ (Open!Join(u) <=> OpenGrp!Manager!Join(u))
    BY DEF Open!Accept, Open!Reject, Open!Join, Open!Active, Open!HasRoom,
       Open!Become, Open!InGroup, Open!CanBecome, Open!Unlocked, Open!Do,
       Open!Member, Open!Record, Open!Moves, Open!Cardinality,
       Open!IsFiniteSet, OpenGrp!Manager!Accept, OpenGrp!Manager!Reject,
       OpenGrp!Manager!Join, OpenGrp!Manager!Active,
       OpenGrp!Manager!HasRoom, OpenGrp!Manager!Become,
       OpenGrp!Manager!InGroup, OpenGrp!Manager!CanBecome,
       OpenGrp!Manager!Unlocked, OpenGrp!Manager!Do, OpenGrp!Manager!Member,
       OpenGrp!Manager!Record, OpenGrp!Manager!Moves,
       OpenGrp!Manager!Cardinality, OpenGrp!Manager!IsFiniteSet
  <2>5. \A u :
           /\ (Open!Leave(u) <=> OpenGrp!Manager!Leave(u))
           /\ (Open!Transfer(u) <=> OpenGrp!Manager!Transfer(u))
           /\ (Open!Edit(u) <=> OpenGrp!Manager!Edit(u))
           /\ (Open!Archive(u) <=> OpenGrp!Manager!Archive(u))
           /\ (Open!Restore(u) <=> OpenGrp!Manager!Restore(u))
           /\ (Open!Delete(u) <=> OpenGrp!Manager!Delete(u))
    BY DEF Open!Leave, Open!Transfer, Open!Edit, Open!Archive, Open!Restore,
       Open!Delete, Open!Unlocked, Open!CanBecome, Open!Become, Open!Active,
       Open!InGroup, Open!Do, Open!Member, Open!Record, Open!Manages,
       Open!RoleOf, Open!Moves, OpenGrp!Manager!Leave,
       OpenGrp!Manager!Transfer, OpenGrp!Manager!Edit,
       OpenGrp!Manager!Archive, OpenGrp!Manager!Restore,
       OpenGrp!Manager!Delete, OpenGrp!Manager!Unlocked,
       OpenGrp!Manager!CanBecome, OpenGrp!Manager!Become,
       OpenGrp!Manager!Active, OpenGrp!Manager!InGroup, OpenGrp!Manager!Do,
       OpenGrp!Manager!Member, OpenGrp!Manager!Record,
       OpenGrp!Manager!Manages, OpenGrp!Manager!RoleOf,
       OpenGrp!Manager!Moves
  <2>6. \A a, u : (Open!Approve(a, u) <=> OpenGrp!Manager!Approve(a, u))
    BY DEF Open!Approve, Open!Active, Open!Manages, Open!HasRoom,
       Open!Become, Open!Unlocked, Open!RoleOf, Open!InGroup, Open!Do,
       Open!Member, Open!Record, Open!Cardinality, Open!IsFiniteSet,
       OpenGrp!Manager!Approve, OpenGrp!Manager!Active,
       OpenGrp!Manager!Manages, OpenGrp!Manager!HasRoom,
       OpenGrp!Manager!Become, OpenGrp!Manager!Unlocked,
       OpenGrp!Manager!RoleOf, OpenGrp!Manager!InGroup, OpenGrp!Manager!Do,
       OpenGrp!Manager!Member, OpenGrp!Manager!Record,
       OpenGrp!Manager!Cardinality, OpenGrp!Manager!IsFiniteSet
  <2>7. \A a, u, state : (Open!Administer(a, u, state) <=> OpenGrp!Manager!Administer(a, u, state))
    BY DEF Open!Administer, Open!Active, Open!Manages, Open!CanBecome,
       Open!CanManage, Open!Become, Open!Unlocked, Open!RoleOf, Open!Moves,
       Open!Rank, Open!Do, Open!Member, Open!Record, Open!InGroup,
       OpenGrp!Manager!Administer, OpenGrp!Manager!Active,
       OpenGrp!Manager!Manages, OpenGrp!Manager!CanBecome,
       OpenGrp!Manager!CanManage, OpenGrp!Manager!Become,
       OpenGrp!Manager!Unlocked, OpenGrp!Manager!RoleOf,
       OpenGrp!Manager!Moves, OpenGrp!Manager!Rank, OpenGrp!Manager!Do,
       OpenGrp!Manager!Member, OpenGrp!Manager!Record,
       OpenGrp!Manager!InGroup
  <2>8. \A a, u, role : (Open!Invite(a, u, role) <=> OpenGrp!Manager!Invite(a, u, role))
    BY DEF Open!Invite, Open!Active, Open!Manages, Open!CanBecome,
       Open!Become, Open!Unlocked, Open!RoleOf, Open!Moves, Open!Do,
       Open!Member, Open!Record, Open!InGroup, OpenGrp!Manager!Invite,
       OpenGrp!Manager!Active, OpenGrp!Manager!Manages,
       OpenGrp!Manager!CanBecome, OpenGrp!Manager!Become,
       OpenGrp!Manager!Unlocked, OpenGrp!Manager!RoleOf,
       OpenGrp!Manager!Moves, OpenGrp!Manager!Do, OpenGrp!Manager!Member,
       OpenGrp!Manager!Record, OpenGrp!Manager!InGroup
  <2>9. \A a, u, role : (Open!ChangeRole(a, u, role) <=> OpenGrp!Manager!ChangeRole(a, u, role))
    BY DEF Open!ChangeRole, Open!Active, Open!Manages, Open!CanAssign,
       Open!Become, Open!Unlocked, Open!RoleOf, Open!CanManage, Open!Rank,
       Open!Do, Open!Member, Open!Record, Open!InGroup,
       OpenGrp!Manager!ChangeRole, OpenGrp!Manager!Active,
       OpenGrp!Manager!Manages, OpenGrp!Manager!CanAssign,
       OpenGrp!Manager!Become, OpenGrp!Manager!Unlocked,
       OpenGrp!Manager!RoleOf, OpenGrp!Manager!CanManage,
       OpenGrp!Manager!Rank, OpenGrp!Manager!Do, OpenGrp!Manager!Member,
       OpenGrp!Manager!Record, OpenGrp!Manager!InGroup
  <2> QED
    BY <2>1, <2>2, <2>3, <2>4, <2>5, <2>6, <2>7, <2>8, <2>9 DEF Open!Next, Open!vars, Open!Roles, OpenGrp!Manager!Next, OpenGrp!Manager!vars, OpenGrp!Manager!Roles
<1>2. (Open!Init <=> OpenGrp!Manager!Init)
  BY DEF Open!Init, Open!NoMembership, Open!Nothing, Open!NoRefresh,
     OpenGrp!Manager!Init, OpenGrp!Manager!NoMembership,
     OpenGrp!Manager!Nothing, OpenGrp!Manager!NoRefresh
<1>3. (Open!GroupManagerAssumption <=> OpenGrp!Manager!GroupManagerAssumption)
  BY DEF Open!GroupManagerAssumption,
     OpenGrp!Manager!GroupManagerAssumption, Open!IsFiniteSet,
     OpenGrp!Manager!IsFiniteSet
<1>4. (Open!OwnerIsIn /\ Open!DeletedIsEmpty <=> OpenGrp!Manager!OwnerIsIn /\ OpenGrp!Manager!DeletedIsEmpty)
  BY DEF Open!OwnerIsIn, Open!DeletedIsEmpty, Open!InGroup,
     OpenGrp!Manager!OwnerIsIn, OpenGrp!Manager!DeletedIsEmpty,
     OpenGrp!Manager!InGroup
<1>5. (Open!ReplicaShowsGroup <=> OpenGrp!Manager!ReplicaShowsGroup)
  BY DEF Open!ReplicaShowsGroup, Open!Refreshed, Open!Snapshot,
     OpenGrp!Manager!ReplicaShowsGroup, OpenGrp!Manager!Refreshed,
     OpenGrp!Manager!Snapshot
<1> QED
  BY <1>1, <1>2, <1>3, <1>4, <1>5

LEMMA SameStored ==
  /\ (Stored!Init <=> OpenGrp!Fanout!Init)
  /\ ([Stored!Next]_Stored!vars <=> [OpenGrp!Fanout!Next]_OpenGrp!Fanout!vars)
  /\ (Stored!GroupFanoutAssumption <=> OpenGrp!Fanout!GroupFanoutAssumption)
  /\ (Stored!SentOnce <=> OpenGrp!Fanout!SentOnce)
  /\ (Stored!NotForgotten <=> OpenGrp!Fanout!NotForgotten)
  /\ (Stored!TypeOK <=> OpenGrp!Fanout!TypeOK)
<1>1. (Stored!Init <=> OpenGrp!Fanout!Init)
  BY DEF Stored!Init, Stored!NoPlan, Stored!Idle, OpenGrp!Fanout!Init,
     OpenGrp!Fanout!NoPlan, OpenGrp!Fanout!Idle
<1>2. ([Stored!Next]_Stored!vars <=> [OpenGrp!Fanout!Next]_OpenGrp!Fanout!vars)
  BY DEF Stored!Next, Stored!vars, Stored!Send, Stored!Dispatching, Stored!Resume,
     Stored!Receive, Stored!Proceed, Stored!NoPlan, Stored!Dispatch,
     Stored!Enqueue, Stored!Conclude, Stored!Idle, Stored!Find, Stored!Open,
     Stored!Delete, Stored!Deliver, Stored!Load, Stored!Save, Stored!Leg,
     Stored!Moved, Stored!Found, Stored!FoundBySome, Stored!history,
     OpenGrp!Fanout!Next, OpenGrp!Fanout!vars, OpenGrp!Fanout!Send,
     OpenGrp!Fanout!Dispatching, OpenGrp!Fanout!Resume,
     OpenGrp!Fanout!Receive, OpenGrp!Fanout!Proceed, OpenGrp!Fanout!NoPlan,
     OpenGrp!Fanout!Dispatch, OpenGrp!Fanout!Enqueue,
     OpenGrp!Fanout!Conclude, OpenGrp!Fanout!Idle, OpenGrp!Fanout!Find,
     OpenGrp!Fanout!Open, OpenGrp!Fanout!Delete, OpenGrp!Fanout!Deliver,
     OpenGrp!Fanout!Load, OpenGrp!Fanout!Save, OpenGrp!Fanout!Leg,
     OpenGrp!Fanout!Moved, OpenGrp!Fanout!Found, OpenGrp!Fanout!FoundBySome,
     OpenGrp!Fanout!history
<1>3. (Stored!SentOnce <=> OpenGrp!Fanout!SentOnce)
  BY DEF Stored!SentOnce, OpenGrp!Fanout!SentOnce
<1>4. (Stored!NotForgotten <=> OpenGrp!Fanout!NotForgotten)
  BY DEF Stored!NotForgotten, Stored!NoPlan, Stored!LookedAfter, Stored!UnderWay,
     Stored!Found, OpenGrp!Fanout!NotForgotten, OpenGrp!Fanout!NoPlan,
     OpenGrp!Fanout!LookedAfter, OpenGrp!Fanout!UnderWay,
     OpenGrp!Fanout!Found
<1>5. (Stored!TypeOK <=> OpenGrp!Fanout!TypeOK)
  BY DEF Stored!TypeOK, Stored!NoPlan, Stored!LegStates, OpenGrp!Fanout!TypeOK,
     OpenGrp!Fanout!NoPlan, OpenGrp!Fanout!LegStates
<1>6. (Stored!GroupFanoutAssumption <=> OpenGrp!Fanout!GroupFanoutAssumption)
  BY DEF Stored!GroupFanoutAssumption, OpenGrp!Fanout!GroupFanoutAssumption
<1> QED
  BY <1>1, <1>2, <1>3, <1>4, <1>5, <1>6

ClosedGrp == INSTANCE Groups_proofs
  WITH Users <- People, MaxMembers <- 2, Public <- FALSE, MaxVersion <- 3,
       MayFail <- TRUE,
       group <- v1, memberships <- v2, replica <- v3, work <- v4, draft <- v5,
       refreshing <- v6, torn <- v7,
       Members <- People \cup {Admin}, ReadExcluded <- {Admin},
       Callers <- Actors, CountMayFail <- TRUE,
       aggregate <- v1, receipts <- v2, lock <- v3, calls <- v4, cache <- v5,
       missed <- v6, MaxChanges <- 3, members <- v1, pending <- v2, version <- v3,
       Devices <- People, Requests <- Actors, AtomicDrain <- TRUE,
       SendMayFail <- FALSE, ResumeMayFail <- FALSE,
       plan <- v1, queue <- v2, sender <- v3, requests <- v4, sent <- v5,
       confirmed <- v6, lost <- v7, shared <- v8,
       MaxExpired <- 1, keys <- v2, secret <- v3, bounds <- v6

LEMMA SameClosed ==
  /\ ([Closed!Next]_Closed!vars <=> [ClosedGrp!Manager!Next]_ClosedGrp!Manager!vars)
  /\ (Closed!Init <=> ClosedGrp!Manager!Init)
  /\ (Closed!GroupManagerAssumption <=> ClosedGrp!Manager!GroupManagerAssumption)
<1>1. ([Closed!Next]_Closed!vars <=> [ClosedGrp!Manager!Next]_ClosedGrp!Manager!vars)
  <2>1. /\ (Closed!Write <=> ClosedGrp!Manager!Write)
        /\ (Closed!Tear <=> ClosedGrp!Manager!Tear)
    BY DEF Closed!Write, Closed!Tear, Closed!WriteMembership,
       Closed!WriteGroup, Closed!ListMemberships, Closed!WriteReplica,
       Closed!WriteTombstone, Closed!Nothing, Closed!Snapshot,
       Closed!NoMembership, ClosedGrp!Manager!Write, ClosedGrp!Manager!Tear,
       ClosedGrp!Manager!WriteMembership, ClosedGrp!Manager!WriteGroup,
       ClosedGrp!Manager!ListMemberships, ClosedGrp!Manager!WriteReplica,
       ClosedGrp!Manager!WriteTombstone, ClosedGrp!Manager!Nothing,
       ClosedGrp!Manager!Snapshot, ClosedGrp!Manager!NoMembership
  <2>2. (Closed!Refresh <=> ClosedGrp!Manager!Refresh)
    BY DEF Closed!Refresh, Closed!Snapshot, ClosedGrp!Manager!Refresh,
       ClosedGrp!Manager!Snapshot
  <2>3. \A u : (Closed!Create(u) <=> ClosedGrp!Manager!Create(u))
    BY DEF Closed!Create, Closed!Member, Closed!Roles, Closed!Do,
       Closed!Record, ClosedGrp!Manager!Create, ClosedGrp!Manager!Member,
       ClosedGrp!Manager!Roles, ClosedGrp!Manager!Do,
       ClosedGrp!Manager!Record
  <2>4. \A u :
           /\ (Closed!Accept(u) <=> ClosedGrp!Manager!Accept(u))
           /\ (Closed!Reject(u) <=> ClosedGrp!Manager!Reject(u))
           /\ (Closed!Join(u) <=> ClosedGrp!Manager!Join(u))
    BY DEF Closed!Accept, Closed!Reject, Closed!Join, Closed!Active,
       Closed!HasRoom, Closed!Become, Closed!InGroup, Closed!CanBecome,
       Closed!Unlocked, Closed!Do, Closed!Member, Closed!Record,
       Closed!Moves, Closed!Cardinality, Closed!IsFiniteSet,
       ClosedGrp!Manager!Accept, ClosedGrp!Manager!Reject,
       ClosedGrp!Manager!Join, ClosedGrp!Manager!Active,
       ClosedGrp!Manager!HasRoom, ClosedGrp!Manager!Become,
       ClosedGrp!Manager!InGroup, ClosedGrp!Manager!CanBecome,
       ClosedGrp!Manager!Unlocked, ClosedGrp!Manager!Do,
       ClosedGrp!Manager!Member, ClosedGrp!Manager!Record,
       ClosedGrp!Manager!Moves, ClosedGrp!Manager!Cardinality,
       ClosedGrp!Manager!IsFiniteSet
  <2>5. \A u :
           /\ (Closed!Leave(u) <=> ClosedGrp!Manager!Leave(u))
           /\ (Closed!Transfer(u) <=> ClosedGrp!Manager!Transfer(u))
           /\ (Closed!Edit(u) <=> ClosedGrp!Manager!Edit(u))
           /\ (Closed!Archive(u) <=> ClosedGrp!Manager!Archive(u))
           /\ (Closed!Restore(u) <=> ClosedGrp!Manager!Restore(u))
           /\ (Closed!Delete(u) <=> ClosedGrp!Manager!Delete(u))
    BY DEF Closed!Leave, Closed!Transfer, Closed!Edit, Closed!Archive,
       Closed!Restore, Closed!Delete, Closed!Unlocked, Closed!CanBecome,
       Closed!Become, Closed!Active, Closed!InGroup, Closed!Do,
       Closed!Member, Closed!Record, Closed!Manages, Closed!RoleOf,
       Closed!Moves, ClosedGrp!Manager!Leave, ClosedGrp!Manager!Transfer,
       ClosedGrp!Manager!Edit, ClosedGrp!Manager!Archive,
       ClosedGrp!Manager!Restore, ClosedGrp!Manager!Delete,
       ClosedGrp!Manager!Unlocked, ClosedGrp!Manager!CanBecome,
       ClosedGrp!Manager!Become, ClosedGrp!Manager!Active,
       ClosedGrp!Manager!InGroup, ClosedGrp!Manager!Do,
       ClosedGrp!Manager!Member, ClosedGrp!Manager!Record,
       ClosedGrp!Manager!Manages, ClosedGrp!Manager!RoleOf,
       ClosedGrp!Manager!Moves
  <2>6. \A a, u : (Closed!Approve(a, u) <=> ClosedGrp!Manager!Approve(a, u))
    BY DEF Closed!Approve, Closed!Active, Closed!Manages, Closed!HasRoom,
       Closed!Become, Closed!Unlocked, Closed!RoleOf, Closed!InGroup,
       Closed!Do, Closed!Member, Closed!Record, Closed!Cardinality,
       Closed!IsFiniteSet, ClosedGrp!Manager!Approve,
       ClosedGrp!Manager!Active, ClosedGrp!Manager!Manages,
       ClosedGrp!Manager!HasRoom, ClosedGrp!Manager!Become,
       ClosedGrp!Manager!Unlocked, ClosedGrp!Manager!RoleOf,
       ClosedGrp!Manager!InGroup, ClosedGrp!Manager!Do,
       ClosedGrp!Manager!Member, ClosedGrp!Manager!Record,
       ClosedGrp!Manager!Cardinality, ClosedGrp!Manager!IsFiniteSet
  <2>7. \A a, u, state : (Closed!Administer(a, u, state) <=> ClosedGrp!Manager!Administer(a, u, state))
    BY DEF Closed!Administer, Closed!Active, Closed!Manages,
       Closed!CanBecome, Closed!CanManage, Closed!Become, Closed!Unlocked,
       Closed!RoleOf, Closed!Moves, Closed!Rank, Closed!Do, Closed!Member,
       Closed!Record, Closed!InGroup, ClosedGrp!Manager!Administer,
       ClosedGrp!Manager!Active, ClosedGrp!Manager!Manages,
       ClosedGrp!Manager!CanBecome, ClosedGrp!Manager!CanManage,
       ClosedGrp!Manager!Become, ClosedGrp!Manager!Unlocked,
       ClosedGrp!Manager!RoleOf, ClosedGrp!Manager!Moves,
       ClosedGrp!Manager!Rank, ClosedGrp!Manager!Do,
       ClosedGrp!Manager!Member, ClosedGrp!Manager!Record,
       ClosedGrp!Manager!InGroup
  <2>8. \A a, u, role : (Closed!Invite(a, u, role) <=> ClosedGrp!Manager!Invite(a, u, role))
    BY DEF Closed!Invite, Closed!Active, Closed!Manages, Closed!CanBecome,
       Closed!Become, Closed!Unlocked, Closed!RoleOf, Closed!Moves,
       Closed!Do, Closed!Member, Closed!Record, Closed!InGroup,
       ClosedGrp!Manager!Invite, ClosedGrp!Manager!Active,
       ClosedGrp!Manager!Manages, ClosedGrp!Manager!CanBecome,
       ClosedGrp!Manager!Become, ClosedGrp!Manager!Unlocked,
       ClosedGrp!Manager!RoleOf, ClosedGrp!Manager!Moves,
       ClosedGrp!Manager!Do, ClosedGrp!Manager!Member,
       ClosedGrp!Manager!Record, ClosedGrp!Manager!InGroup
  <2>9. \A a, u, role : (Closed!ChangeRole(a, u, role) <=> ClosedGrp!Manager!ChangeRole(a, u, role))
    BY DEF Closed!ChangeRole, Closed!Active, Closed!Manages,
       Closed!CanAssign, Closed!Become, Closed!Unlocked, Closed!RoleOf,
       Closed!CanManage, Closed!Rank, Closed!Do, Closed!Member,
       Closed!Record, Closed!InGroup, ClosedGrp!Manager!ChangeRole,
       ClosedGrp!Manager!Active, ClosedGrp!Manager!Manages,
       ClosedGrp!Manager!CanAssign, ClosedGrp!Manager!Become,
       ClosedGrp!Manager!Unlocked, ClosedGrp!Manager!RoleOf,
       ClosedGrp!Manager!CanManage, ClosedGrp!Manager!Rank,
       ClosedGrp!Manager!Do, ClosedGrp!Manager!Member,
       ClosedGrp!Manager!Record, ClosedGrp!Manager!InGroup
  <2> QED
    BY <2>1, <2>2, <2>3, <2>4, <2>5, <2>6, <2>7, <2>8, <2>9 DEF Closed!Next, Closed!vars, Closed!Roles, ClosedGrp!Manager!Next, ClosedGrp!Manager!vars, ClosedGrp!Manager!Roles
<1>2. (Closed!Init <=> ClosedGrp!Manager!Init)
  BY DEF Closed!Init, Closed!NoMembership, Closed!Nothing,
     Closed!NoRefresh, ClosedGrp!Manager!Init,
     ClosedGrp!Manager!NoMembership, ClosedGrp!Manager!Nothing,
     ClosedGrp!Manager!NoRefresh
<1>3. (Closed!GroupManagerAssumption <=> ClosedGrp!Manager!GroupManagerAssumption)
  BY DEF Closed!GroupManagerAssumption,
     ClosedGrp!Manager!GroupManagerAssumption, Closed!IsFiniteSet,
     ClosedGrp!Manager!IsFiniteSet
<1> QED
  BY <1>1, <1>2, <1>3

\* While a part runs, its component's inductive invariant holds.
ManagerKept ==
  /\ part = "open" => OpenGrp!ManagerInv /\ OpenGrp!Manager!ReplicaShowsGroup
  /\ part = "closed" => ClosedGrp!ManagerInv /\ ClosedGrp!Manager!ReplicaShowsGroup
EpochsKept == part = "epochs" => OpenGrp!GroupKeyInv
FanoutKept ==
  /\ part = "fanout" => Grp!FanoutFullInv /\ Grp!FanoutTypeInv
  /\ part = "stored" => OpenGrp!FanoutFullInv /\ OpenGrp!FanoutTypeInv

\* A message for a group's devices keeps the invariant of its hands, whether the
\* queue is in memory or in the database.
LEMMA FanoutKeeps == PartSpec => []FanoutKept
<1>1. Grp!Fanout!GroupFanoutAssumption /\ OpenGrp!Fanout!GroupFanoutAssumption
  BY GroupFanoutHolds, SameFanout, SameStored
<1>2. PartInit => FanoutKept
  BY SameFanout, SameStored, Grp!InitFanout, Grp!InitFanoutTypes, OpenGrp!InitFanout,
     OpenGrp!InitFanoutTypes DEF PartInit, FanoutKept
<1>3. FanoutKept /\ [PartNext]_<<part, all>> => FanoutKept'
  <2> SUFFICES ASSUME FanoutKept, [PartNext]_<<part, all>> PROVE FanoutKept'
    OBVIOUS
  <2>1. part' = part
    BY StepsOfParts
  <2>2. part = "fanout" => Grp!FanoutFullInv'
    BY <1>1, StepsOfParts, SameFanout, Grp!FanoutFullStep DEF FanoutKept
  <2>3. part = "fanout" => Grp!FanoutTypeInv'
    BY <1>1, StepsOfParts, SameFanout, Grp!FanoutTypesStep DEF FanoutKept
  <2>4. part = "stored" => OpenGrp!FanoutFullInv'
    BY <1>1, StepsOfParts, SameStored, OpenGrp!FanoutFullStep DEF FanoutKept
  <2>5. part = "stored" => OpenGrp!FanoutTypeInv'
    BY <1>1, StepsOfParts, SameStored, OpenGrp!FanoutTypesStep DEF FanoutKept
  <2> QED
    BY <2>1, <2>2, <2>3, <2>4, <2>5 DEF FanoutKept
<1> QED
  BY <1>2, <1>3, PTL DEF PartSpec

\* The key of a group keeps the invariant of its rotations.
LEMMA EpochsKeep == PartSpec => []EpochsKept
<1>1. Epochs!GroupKeysAssumption /\ OpenGrp!Epochs!GroupKeysAssumption
  BY GroupKeysHolds, SameEpochs
<1>2. PartInit => EpochsKept
  BY <1>1, SameEpochs, OpenGrp!InitKeys DEF PartInit, EpochsKept
<1>3. EpochsKept /\ [PartNext]_<<part, all>> => EpochsKept'
  BY <1>1, StepsOfParts, SameEpochs, OpenGrp!GroupKeyStep DEF EpochsKept
<1> QED
  BY <1>2, <1>3, PTL DEF PartSpec

\* At rest the key of a group is one, made for its members, and nobody else can
\* derive it, unless a change of the members was dropped for want of a key
\* (groupCommunicationEngine.handleMembershipChange, rotateGroupKey).
THEOREM KeysFitMembers == PartSpec => []KeyFitsMembers
<1>1. OpenGrp!Epochs!GroupKeysAssumption
  BY GroupKeysHolds, SameEpochs
<1>2. EpochsKept => KeyFitsMembers
  BY <1>1, SameEpochs, OpenGrp!GroupKeyMeans DEF EpochsKept, KeyFitsMembers
<1> QED
  BY <1>2, EpochsKeep, PTL

\* The group services keep the invariant of the queue of operations, whether
\* the group is public or not.
LEMMA ManagerKeeps == PartSpec => []ManagerKept
<1>1. /\ Open!GroupManagerAssumption /\ OpenGrp!Manager!GroupManagerAssumption
      /\ Closed!GroupManagerAssumption /\ ClosedGrp!Manager!GroupManagerAssumption
  BY GroupManagerHolds, SameOpen, SameClosed
<1>2. PartInit => ManagerKept
  <2>1. /\ OpenGrp!Manager!Init => OpenGrp!Manager!ReplicaShowsGroup
        /\ ClosedGrp!Manager!Init => ClosedGrp!Manager!ReplicaShowsGroup
    BY DEF OpenGrp!Manager!Init, OpenGrp!Manager!ReplicaShowsGroup,
       ClosedGrp!Manager!Init, ClosedGrp!Manager!ReplicaShowsGroup
  <2> QED
    BY <1>1, <2>1, SameOpen, SameClosed, OpenGrp!InitManager, ClosedGrp!InitManager
       DEF PartInit, ManagerKept
<1>3. ManagerKept /\ [PartNext]_<<part, all>> => ManagerKept'
  <2> SUFFICES ASSUME ManagerKept, [PartNext]_<<part, all>> PROVE ManagerKept'
    OBVIOUS
  <2>1. part = "open" => OpenGrp!ManagerInv'
    BY <1>1, StepsOfParts, SameOpen, OpenGrp!ManagerStep DEF ManagerKept
  <2>2. part = "open" => OpenGrp!Manager!ReplicaShowsGroup'
    BY StepsOfParts, SameOpen, OpenGrp!StepShows DEF ManagerKept
  <2>3. part = "closed" => ClosedGrp!ManagerInv'
    BY <1>1, StepsOfParts, SameClosed, ClosedGrp!ManagerStep DEF ManagerKept
  <2>4. part = "closed" => ClosedGrp!Manager!ReplicaShowsGroup'
    BY StepsOfParts, SameClosed, ClosedGrp!StepShows DEF ManagerKept
  <2> QED
    BY <2>1, <2>2, <2>3, <2>4, StepsOfParts DEF ManagerKept
<1> QED
  BY <1>2, <1>3, PTL DEF PartSpec

\* The properties of the group speak of its variables only, so that it does
\* not matter whether it is public.
LEMMA SameProperties ==
  /\ (Open!OwnerIsIn /\ Open!DeletedIsEmpty <=>
       ClosedGrp!Manager!OwnerIsIn /\ ClosedGrp!Manager!DeletedIsEmpty)
  /\ (Open!ReplicaShowsGroup <=> ClosedGrp!Manager!ReplicaShowsGroup)
<1>1. Open!OwnerIsIn /\ Open!DeletedIsEmpty <=>
       ClosedGrp!Manager!OwnerIsIn /\ ClosedGrp!Manager!DeletedIsEmpty
  BY DEF Open!OwnerIsIn, Open!DeletedIsEmpty, Open!InGroup, ClosedGrp!Manager!OwnerIsIn,
    ClosedGrp!Manager!DeletedIsEmpty, ClosedGrp!Manager!InGroup
<1>2. Open!ReplicaShowsGroup <=> ClosedGrp!Manager!ReplicaShowsGroup
  BY DEF Open!ReplicaShowsGroup, Open!Refreshed, Open!Snapshot,
     ClosedGrp!Manager!ReplicaShowsGroup, ClosedGrp!Manager!Refreshed,
     ClosedGrp!Manager!Snapshot
<1> QED
  BY <1>1, <1>2

\* Whoever a group names its owner is in it as soon as the membership is stored,
\* and nobody is in a deleted group unless its deletion failed half way, after
\* any sequence of operations of the group and membership managers.
THEOREM GroupsMatch == PartSpec => []MembersMatchGroup
<1>1. OpenGrp!Manager!GroupManagerAssumption /\ ClosedGrp!Manager!GroupManagerAssumption
  BY GroupManagerHolds, SameOpen, SameClosed
<1>2. ManagerKept => MembersMatchGroup
  BY <1>1, SameOpen, SameProperties, OpenGrp!ManagerMeans, ClosedGrp!ManagerMeans
     DEF ManagerKept, MembersMatchGroup, OfManager
<1> QED
  BY <1>2, ManagerKeeps, PTL

\* Between operations the stored replica shows a living group, public or not, as
\* it is, unless an operation failed half way or a refresh outside the lock has
\* stored last (groupManager.js, _refreshReplica and refreshReplicaState).
THEOREM ReplicaShows == PartSpec => []ReplicaShowsGroup
<1>1. ManagerKept => ReplicaShowsGroup
  BY SameOpen, SameProperties DEF ManagerKept, ReplicaShowsGroup, OfManager
<1> QED
  BY <1>1, ManagerKeeps, PTL

-----------------------------------------------------------------------------
(* The fabric. *)

Fab == INSTANCE Fabric_proofs
  WITH MaxSeq <- 2, Polls <- Actors, MayFail <- TRUE, MaxReloads <- 1,
       state <- v1, polls <- v2, seen <- v3, shown <- v4, reloads <- v5,
       Transfers <- {"t"}, ChunkCount <- 3, PullsMayFail <- FALSE,
       Controls <- {"paused", "active", "cancelled"},
       stored <- v2, sender <- v3, receiver <- v4, control <- v5,
       relayed <- v6, handedOver <- v7,
       Operators <- People \cup {Admin}, MaxConcurrent <- 1, MaxQueue <- 1,
       MaxAttempts <- 2, MaxResumes <- 1, FailureThreshold <- 1,
       SuccessThreshold <- 1, MaxCrashes <- 0,
       record <- v1, ops <- v2, crashes <- v3, active <- v4, queue <- v5,
       breaker <- v6, failing <- v7, swept <- v8,
       Callers <- Actors, Sessions <- People, MaxVersions <- 1, MaxRestarts <- 1,
       Requests <- {"create", "completed", "cancelled", "expired"},
       device <- v1, sessions <- v2, cache <- v3, lookups <- v4, inflight <- v5,
       request <- v6, answer <- v7, restarts <- v8,
       Chunks <- 1, calls <- v2, MaxVersion <- 3, set <- v1, MaxGeneration <- 3

LEMMA FabCards ==
  /\ \A S : Relayed!Cardinality(S) = Fab!Relayed!Cardinality(S)
  /\ \A S : Operations!Cardinality(S) = Fab!Operations!Cardinality(S)
  /\ \A S : Relayed!IsFiniteSet(S) <=> Fab!IsFiniteSet(S)
  /\ \A S : Inbox!Cardinality(S) = Fab!Cardinality(S)
  BY DEF Relayed!Cardinality, Fab!Relayed!Cardinality, Relayed!IsFiniteSet,
     Fab!Relayed!IsFiniteSet, Operations!Cardinality, Operations!IsFiniteSet,
     Fab!Operations!Cardinality, Fab!Operations!IsFiniteSet, Fab!IsFiniteSet,
     Inbox!Cardinality, Inbox!IsFiniteSet, Fab!Cardinality

LEMMA SameSeqs == \A S : Inbox!SetToSeqs(S) = Fab!SetToSeqs(S)
  BY FabCards DEF Inbox!SetToSeqs, Fab!SetToSeqs

LEMMA SameInbox ==
  /\ ([Inbox!Next]_Inbox!vars <=> [Fab!Next]_Fab!vars)
  /\ (Inbox!Init <=> Fab!Init)
  /\ (Inbox!MessageRelayAssumption <=> Fab!MessageRelayAssumption)
  /\ (Inbox!ShownOnce <=> Fab!ShownOnce)
  /\ (Inbox!AcknowledgedIsShown <=> Fab!AcknowledgedIsShown)
  /\ (Inbox!TypeOK <=> Fab!TypeOK)
<1>1. ([Inbox!Next]_Inbox!vars <=> [Fab!Next]_Fab!vars)
  <2>1. \A m : (Inbox!Relay(m) <=> Fab!Relay(m))
    BY DEF Inbox!Relay, Fab!Relay
  <2>2. (Inbox!Reload <=> Fab!Reload)
    BY DEF Inbox!Reload, Inbox!AtRelay, Inbox!Idle, Inbox!At, Fab!Reload,
       Fab!AtRelay, Fab!Idle, Fab!At
  <2>3. \A p : (Inbox!List(p) <=> Fab!List(p))
    BY SameSeqs DEF Inbox!List, Inbox!At, Inbox!Messages, Inbox!Set,
       Inbox!Idle, Fab!List, Fab!At, Fab!Messages, Fab!Set, Fab!Idle
  <2>4. \A p : (Inbox!Work(p) <=> Fab!Work(p))
    BY DEF Inbox!Work, Inbox!Deliver, Inbox!ReadForAck,
       Inbox!MarkAcknowledged, Inbox!Receive, Inbox!Take, Inbox!Show,
       Inbox!Acknowledged, Inbox!At, Inbox!Todo, Inbox!Current, Inbox!Set,
       Inbox!Idle, Inbox!Rest, Inbox!Marked, Fab!Work, Fab!Deliver,
       Fab!ReadForAck, Fab!MarkAcknowledged, Fab!Receive, Fab!Take,
       Fab!Show, Fab!Acknowledged, Fab!At, Fab!Todo, Fab!Current, Fab!Set,
       Fab!Idle, Fab!Rest, Fab!Marked
  <2>5. \A p : (Inbox!Fail(p) <=> Fab!Fail(p)) /\ (Inbox!Lose(p) <=> Fab!Lose(p))
    BY DEF Inbox!Fail, Inbox!Lose, Inbox!AtRelay, Inbox!Set, Inbox!Idle,
       Inbox!At, Fab!Fail, Fab!Lose, Fab!AtRelay, Fab!Set, Fab!Idle, Fab!At
  <2> QED
    BY <2>1, <2>2, <2>3, <2>4, <2>5 DEF Inbox!Next, Inbox!vars, Inbox!Messages, Fab!Next, Fab!vars, Fab!Messages
<1>2. (Inbox!Init <=> Fab!Init)
  BY DEF Inbox!Init, Inbox!Messages, Inbox!Idle, Fab!Init, Fab!Messages,
     Fab!Idle
<1>3. (Inbox!MessageRelayAssumption <=> Fab!MessageRelayAssumption)
  BY DEF Inbox!MessageRelayAssumption, Fab!MessageRelayAssumption
<1>4. (Inbox!ShownOnce <=> Fab!ShownOnce)
  BY DEF Inbox!ShownOnce, Inbox!Messages, Fab!ShownOnce, Fab!Messages
<1>5. (Inbox!AcknowledgedIsShown <=> Fab!AcknowledgedIsShown)
  BY DEF Inbox!AcknowledgedIsShown, Inbox!Messages,
     Fab!AcknowledgedIsShown, Fab!Messages
<1>6. (Inbox!TypeOK <=> Fab!TypeOK)
  BY DEF Inbox!TypeOK, Inbox!Messages, Inbox!At, Inbox!Steps, Inbox!ToSet,
     Inbox!Todo, Fab!TypeOK, Fab!Messages, Fab!At, Fab!Steps, Fab!ToSet,
     Fab!Todo
<1> QED
  BY <1>1, <1>2, <1>3, <1>4, <1>5, <1>6

LEMMA SameRelayed ==
  /\ (Relayed!Init <=> Fab!Relayed!Init)
  /\ ([Relayed!Next]_Relayed!vars <=> [Fab!Relayed!Next]_Fab!Relayed!vars)
  /\ (Relayed!ChunkRelayAssumption <=> Fab!Relayed!ChunkRelayAssumption)
  /\ (Relayed!CompletedIsCollected <=> Fab!Relayed!CompletedIsCollected)
  /\ (Relayed!TypeOK <=> Fab!Relayed!TypeOK)
<1>1. (Relayed!Init <=> Fab!Relayed!Init)
  BY FabCards DEF Relayed!Init, Relayed!Chunks, Relayed!NoChunk,
     Relayed!NotReceiving, Fab!Relayed!Init, Fab!Relayed!Chunks,
     Fab!Relayed!NoChunk, Fab!Relayed!NotReceiving
<1>2. ([Relayed!Next]_Relayed!vars <=> [Fab!Relayed!Next]_Fab!Relayed!vars)
  <2>1. \A t : Relayed!Send(t) <=> Fab!Relayed!Send(t)
    BY FabCards DEF Relayed!Send, Relayed!Open, Relayed!Relay, Relayed!Store,
       Relayed!Relayed, Relayed!SetSender, Relayed!Chunks,
       Relayed!Transferring, Relayed!CanMove, Relayed!Successors,
       Relayed!Ended, Fab!Relayed!Send, Fab!Relayed!Open,
       Fab!Relayed!Relay, Fab!Relayed!Store, Fab!Relayed!Relayed,
       Fab!Relayed!SetSender, Fab!Relayed!Chunks,
       Fab!Relayed!Transferring, Fab!Relayed!CanMove,
       Fab!Relayed!Successors, Fab!Relayed!Ended
  <2>2. \A t : (Relayed!Receive(t) <=> Fab!Relayed!Receive(t))
            
          /\ (Relayed!Pull(t) <=> Fab!Relayed!Pull(t))
            
          /\ (Relayed!Collect(t) <=> Fab!Relayed!Collect(t))
    BY FabCards DEF Relayed!Receive, Relayed!Pull, Relayed!Collect,
       Relayed!Chunks, Relayed!SetReceiver, Relayed!NotReceiving,
       Relayed!NoChunk, Fab!Relayed!Receive, Fab!Relayed!Pull,
       Fab!Relayed!Collect, Fab!Relayed!Chunks, Fab!Relayed!SetReceiver,
       Fab!Relayed!NotReceiving, Fab!Relayed!NoChunk
  <2>3. \A t : (Relayed!FindForAck(t) <=> Fab!Relayed!FindForAck(t))
            
          /\ (Relayed!MarkAcked(t) <=> Fab!Relayed!MarkAcked(t))
    BY FabCards DEF Relayed!FindForAck, Relayed!MarkAcked, Relayed!Min,
       Relayed!Chunk, Relayed!SetReceiver, Relayed!NotReceiving,
       Relayed!NoChunk, Fab!Relayed!FindForAck, Fab!Relayed!MarkAcked,
       Fab!Relayed!Min, Fab!Relayed!Chunk, Fab!Relayed!SetReceiver,
       Fab!Relayed!NotReceiving, Fab!Relayed!NoChunk
  <2>4. \A t : Relayed!Count(t) <=> Fab!Relayed!Count(t)
    <3>1. \A t : Relayed!AckedChunks(t) = Fab!Relayed!AckedChunks(t)
      BY DEF Relayed!AckedChunks, Relayed!Chunk, Relayed!Chunks,
         Fab!Relayed!AckedChunks, Fab!Relayed!Chunk, Fab!Relayed!Chunks
    <3>2. \A t : Relayed!Counted(t) = Fab!Relayed!Counted(t)
      BY <3>1, FabCards DEF Relayed!Counted, Fab!Relayed!Counted
    <3> QED
      BY <3>2 DEF Relayed!Count, Relayed!SetReceiver, Relayed!NotReceiving,
         Relayed!NoChunk, Fab!Relayed!Count, Fab!Relayed!SetReceiver,
         Fab!Relayed!NotReceiving, Fab!Relayed!NoChunk
  <2>5. \A t : (Relayed!Update(t) <=> Fab!Relayed!Update(t))
            
          /\ (Relayed!Complete(t) <=> Fab!Relayed!Complete(t))
    BY FabCards DEF Relayed!Update, Relayed!Complete, Relayed!SetReceiver,
       Relayed!NotReceiving, Relayed!NoChunk, Relayed!Transferring,
       Relayed!CanMove, Relayed!Successors, Relayed!Ended,
       Fab!Relayed!Update, Fab!Relayed!Complete, Fab!Relayed!SetReceiver,
       Fab!Relayed!NotReceiving, Fab!Relayed!NoChunk,
       Fab!Relayed!Transferring, Fab!Relayed!CanMove,
       Fab!Relayed!Successors, Fab!Relayed!Ended
  <2>6. \A t : (Relayed!Loop(t) <=> Fab!Relayed!Loop(t))
            
          /\ (Relayed!Fail(t) <=> Fab!Relayed!Fail(t))
    BY FabCards DEF Relayed!Loop, Relayed!Fail, Relayed!Collected,
       Relayed!Chunks, Relayed!SetReceiver, Relayed!NotReceiving,
       Relayed!NoChunk, Fab!Relayed!Loop, Fab!Relayed!Fail,
       Fab!Relayed!Collected, Fab!Relayed!Chunks, Fab!Relayed!SetReceiver,
       Fab!Relayed!NotReceiving, Fab!Relayed!NoChunk
  <2>7. \A t, to : Relayed!Ask(t, to) <=> Fab!Relayed!Ask(t, to)
    BY FabCards DEF Relayed!Ask, Relayed!NoChunk, Relayed!Transferring,
       Relayed!CanMove, Relayed!Successors, Relayed!Ended,
       Fab!Relayed!Ask, Fab!Relayed!NoChunk, Fab!Relayed!Transferring,
       Fab!Relayed!CanMove, Fab!Relayed!Successors, Fab!Relayed!Ended
  <2>8. Relayed!Answer <=> Fab!Relayed!Answer
    BY FabCards DEF Relayed!Answer, Relayed!NoChunk, Fab!Relayed!Answer,
       Fab!Relayed!NoChunk
  <2>9. Relayed!vars = Fab!Relayed!vars /\ Relayed!vars' = Fab!Relayed!vars'
    BY DEF Relayed!vars, Fab!Relayed!vars
  <2>10. \A t : Relayed!Take(t) <=> Fab!Relayed!Take(t)
    <3> TAKE t
    <3>1. /\ (Relayed!Receive(t) <=> Fab!Relayed!Receive(t))
          /\ (Relayed!Pull(t) <=> Fab!Relayed!Pull(t))
          /\ (Relayed!Collect(t) <=> Fab!Relayed!Collect(t))
      BY <2>2
    <3>2. /\ (Relayed!FindForAck(t) <=> Fab!Relayed!FindForAck(t))
          /\ (Relayed!MarkAcked(t) <=> Fab!Relayed!MarkAcked(t))
          /\ (Relayed!Count(t) <=> Fab!Relayed!Count(t))
      BY <2>3, <2>4
    <3>3. /\ (Relayed!Update(t) <=> Fab!Relayed!Update(t))
          /\ (Relayed!Complete(t) <=> Fab!Relayed!Complete(t))
          /\ (Relayed!Loop(t) <=> Fab!Relayed!Loop(t))
      BY <2>5, <2>6
    <3> QED
      BY <3>1, <3>2, <3>3 DEF Relayed!Take, Fab!Relayed!Take
  <2>11. Relayed!Next <=> Fab!Relayed!Next
    BY <2>1, <2>6, <2>7, <2>8, <2>10, Zenon DEF Relayed!Next, Fab!Relayed!Next
  <2> QED
    BY <2>9, <2>11, Zenon
<1>3. (Relayed!ChunkRelayAssumption <=> Fab!Relayed!ChunkRelayAssumption)
  BY FabCards DEF Relayed!ChunkRelayAssumption,
     Fab!Relayed!ChunkRelayAssumption
<1>4. (Relayed!CompletedIsCollected <=> Fab!Relayed!CompletedIsCollected)
  BY FabCards DEF Relayed!CompletedIsCollected, Relayed!Collected,
     Relayed!Chunks, Fab!Relayed!CompletedIsCollected,
     Fab!Relayed!Collected, Fab!Relayed!Chunks
<1>5. (Relayed!TypeOK <=> Fab!Relayed!TypeOK)
  BY FabCards DEF Relayed!TypeOK, Relayed!TransferState, Relayed!Chunks,
     Relayed!Collected, Relayed!Transferring, Relayed!Ended,
     Fab!Relayed!TypeOK, Fab!Relayed!TransferState, Fab!Relayed!Chunks,
     Fab!Relayed!Collected, Fab!Relayed!Transferring, Fab!Relayed!Ended
<1> QED
  BY <1>1, <1>2, <1>3, <1>4, <1>5

LEMMA SameOperations ==
  /\ (Operations!Init <=> Fab!Operations!Init)
  /\ ([Operations!Next]_Operations!vars <=> [Fab!Operations!Next]_Fab!Operations!vars)
  /\ (Operations!ReliableOperationsAssumption <=> Fab!Operations!ReliableOperationsAssumption)
  /\ (Operations!SlotsAccounted <=> Fab!Operations!SlotsAccounted)
  /\ (Operations!TypeOK <=> Fab!Operations!TypeOK)
<1>1. (Operations!Init <=> Fab!Operations!Init)
  BY FabCards DEF Operations!Init, Operations!Fresh, Operations!Idle,
     Fab!Operations!Init, Fab!Operations!Fresh, Fab!Operations!Idle
<1>2. ([Operations!Next]_Operations!vars <=> [Fab!Operations!Next]_Fab!Operations!vars)
  BY FabCards DEF Operations!Next, Operations!vars, Operations!Admit,
     Operations!Work, Operations!Prune, Operations!Elapse,
     Operations!List, Operations!GiveUp, Operations!Heal,
     Operations!Crash, Operations!At, Operations!Closed, Operations!Go,
     Operations!Begin, Operations!Succeed, Operations!Recover,
     Operations!Resume, Operations!Close, Operations!Fail,
     Operations!Fresh, Operations!Idle, Operations!AfterFailure,
     Operations!Leave, Operations!AfterSuccess, Operations!Outcome,
     Operations!Tripped, Fab!Operations!Next, Fab!Operations!vars,
     Fab!Operations!Admit, Fab!Operations!Work, Fab!Operations!Prune,
     Fab!Operations!Elapse, Fab!Operations!List, Fab!Operations!GiveUp,
     Fab!Operations!Heal, Fab!Operations!Crash, Fab!Operations!At,
     Fab!Operations!Closed, Fab!Operations!Go, Fab!Operations!Begin,
     Fab!Operations!Succeed, Fab!Operations!Recover,
     Fab!Operations!Resume, Fab!Operations!Close, Fab!Operations!Fail,
     Fab!Operations!Fresh, Fab!Operations!Idle,
     Fab!Operations!AfterFailure, Fab!Operations!Leave,
     Fab!Operations!AfterSuccess, Fab!Operations!Outcome,
     Fab!Operations!Tripped
<1>3. (Operations!ReliableOperationsAssumption <=> Fab!Operations!ReliableOperationsAssumption)
  BY FabCards DEF Operations!ReliableOperationsAssumption,
     Fab!Operations!ReliableOperationsAssumption
<1>4. (Operations!SlotsAccounted <=> Fab!Operations!SlotsAccounted)
  BY FabCards DEF Operations!SlotsAccounted, Operations!Holding,
     Operations!At, Fab!Operations!SlotsAccounted, Fab!Operations!Holding,
     Fab!Operations!At
<1>5. (Operations!TypeOK <=> Fab!Operations!TypeOK)
  BY FabCards DEF Operations!TypeOK, Operations!At, Operations!Closed,
     Fab!Operations!TypeOK, Fab!Operations!At, Fab!Operations!Closed
<1> QED
  BY <1>1, <1>2, <1>3, <1>4, <1>5

LEMMA SameDiscovery ==
  /\ (Discovery!Init <=> Fab!Discovery!Init)
  /\ ([Discovery!Next]_Discovery!vars <=> [Fab!Discovery!Next]_Fab!Discovery!vars)
  /\ (Discovery!PeerDiscoveryAssumption <=> Fab!Discovery!PeerDiscoveryAssumption)
  /\ (Discovery!OneSearch <=> Fab!Discovery!OneSearch)
  /\ (Discovery!TypeOK <=> Fab!Discovery!TypeOK)
<1>1. (Discovery!Init <=> Fab!Discovery!Init)
  BY DEF Discovery!Init, Discovery!Unknown, Discovery!NoEntry,
     Discovery!NewSession, Discovery!Idle, Discovery!Nothing,
     Fab!Discovery!Init, Fab!Discovery!Unknown, Fab!Discovery!NoEntry,
     Fab!Discovery!NewSession, Fab!Discovery!Idle, Fab!Discovery!Nothing
<1>2. ([Discovery!Next]_Discovery!vars <=> [Fab!Discovery!Next]_Fab!Discovery!vars)
  BY DEF Discovery!Next, Discovery!vars, Discovery!Register,
     Discovery!Deregister, Discovery!Invalidate, Discovery!Forget,
     Discovery!Lookup, Discovery!Resolve, Discovery!Ask,
     Discovery!AskForSession, Discovery!Answer, Discovery!Restart,
     Discovery!Unknown, Discovery!NoEntry, Discovery!At, Discovery!Go,
     Discovery!FindActive, Discovery!Create, Discovery!Pend,
     Discovery!Search, Discovery!Probe, Discovery!ReadRegistry,
     Discovery!FillCache, Discovery!Conclude, Discovery!Nothing,
     Discovery!Ends, Discovery!IsActive, Discovery!Free,
     Discovery!NewSession, Discovery!SetState, Discovery!Idle,
     Discovery!Finish, Discovery!StepFrom, Discovery!Advance,
     Discovery!Active, Fab!Discovery!Next, Fab!Discovery!vars,
     Fab!Discovery!Register, Fab!Discovery!Deregister,
     Fab!Discovery!Invalidate, Fab!Discovery!Forget, Fab!Discovery!Lookup,
     Fab!Discovery!Resolve, Fab!Discovery!Ask,
     Fab!Discovery!AskForSession, Fab!Discovery!Answer,
     Fab!Discovery!Restart, Fab!Discovery!Unknown, Fab!Discovery!NoEntry,
     Fab!Discovery!At, Fab!Discovery!Go, Fab!Discovery!FindActive,
     Fab!Discovery!Create, Fab!Discovery!Pend, Fab!Discovery!Search,
     Fab!Discovery!Probe, Fab!Discovery!ReadRegistry,
     Fab!Discovery!FillCache, Fab!Discovery!Conclude,
     Fab!Discovery!Nothing, Fab!Discovery!Ends, Fab!Discovery!IsActive,
     Fab!Discovery!Free, Fab!Discovery!NewSession, Fab!Discovery!SetState,
     Fab!Discovery!Idle, Fab!Discovery!Finish, Fab!Discovery!StepFrom,
     Fab!Discovery!Advance, Fab!Discovery!Active
<1>3. (Discovery!PeerDiscoveryAssumption <=> Fab!Discovery!PeerDiscoveryAssumption)
  BY DEF Discovery!PeerDiscoveryAssumption,
     Fab!Discovery!PeerDiscoveryAssumption
<1>4. (Discovery!OneSearch <=> Fab!Discovery!OneSearch)
  BY DEF Discovery!OneSearch, Discovery!IsActive, Discovery!Active,
     Fab!Discovery!OneSearch, Fab!Discovery!IsActive, Fab!Discovery!Active
<1>5. (Discovery!TypeOK <=> Fab!Discovery!TypeOK)
  BY DEF Discovery!TypeOK, Discovery!Versions, Discovery!NoEntry,
     Discovery!Active, Discovery!At, Fab!Discovery!TypeOK,
     Fab!Discovery!Versions, Fab!Discovery!NoEntry, Fab!Discovery!Active,
     Fab!Discovery!At
<1> QED
  BY <1>1, <1>2, <1>3, <1>4, <1>5

LEMMA SameTransfer ==
  /\ (Transfer!Init <=> Fab!Transfer!Init)
  /\ ([Transfer!Next]_Transfer!vars <=> [Fab!Transfer!Next]_Fab!Transfer!vars)
  /\ (Transfer!TransferReliabilityAssumption <=> Fab!Transfer!TransferReliabilityAssumption)
  /\ (Transfer!RepairIsAttended <=> Fab!Transfer!RepairIsAttended)
  /\ (Transfer!ResumesForward <=> Fab!Transfer!ResumesForward)
  /\ (Transfer!TypeOK <=> Fab!Transfer!TypeOK)
<1>1. (Transfer!Init <=> Fab!Transfer!Init)
  BY DEF Transfer!Init, Transfer!Idle, Fab!Transfer!Init,
     Fab!Transfer!Idle
<1>2. ([Transfer!Next]_Transfer!vars <=> [Fab!Transfer!Next]_Fab!Transfer!vars)
  BY DEF Transfer!Next, Transfer!vars, Transfer!Report, Transfer!Ask,
     Transfer!Interrupt, Transfer!Recover, Transfer!Migrate,
     Transfer!Step, Transfer!Crash, Transfer!Is, Transfer!Ended,
     Transfer!Go, Transfer!Allowed, Transfer!Stopped, Transfer!Attempt,
     Transfer!Advance, Transfer!Answer, Transfer!Stop, Transfer!Begin,
     Transfer!GiveUp, Transfer!Recovered, Transfer!HookFails,
     Transfer!Move, Transfer!Switched, Transfer!Conclude, Transfer!Idle,
     Transfer!Terminal, Transfer!Working, Transfer!UnderRepair,
     Transfer!Others, Transfer!End, Transfer!SetState, Transfer!IfNotLast,
     Fab!Transfer!Next, Fab!Transfer!vars, Fab!Transfer!Report,
     Fab!Transfer!Ask, Fab!Transfer!Interrupt, Fab!Transfer!Recover,
     Fab!Transfer!Migrate, Fab!Transfer!Step, Fab!Transfer!Crash,
     Fab!Transfer!Is, Fab!Transfer!Ended, Fab!Transfer!Go,
     Fab!Transfer!Allowed, Fab!Transfer!Stopped, Fab!Transfer!Attempt,
     Fab!Transfer!Advance, Fab!Transfer!Answer, Fab!Transfer!Stop,
     Fab!Transfer!Begin, Fab!Transfer!GiveUp, Fab!Transfer!Recovered,
     Fab!Transfer!HookFails, Fab!Transfer!Move, Fab!Transfer!Switched,
     Fab!Transfer!Conclude, Fab!Transfer!Idle, Fab!Transfer!Terminal,
     Fab!Transfer!Working, Fab!Transfer!UnderRepair, Fab!Transfer!Others,
     Fab!Transfer!End, Fab!Transfer!SetState, Fab!Transfer!IfNotLast
<1>3. (Transfer!TransferReliabilityAssumption <=> Fab!Transfer!TransferReliabilityAssumption)
  BY DEF Transfer!TransferReliabilityAssumption,
     Fab!Transfer!TransferReliabilityAssumption
<1>4. (Transfer!RepairIsAttended <=> Fab!Transfer!RepairIsAttended)
  BY DEF Transfer!RepairIsAttended, Transfer!UnderRepair,
     Fab!Transfer!RepairIsAttended, Fab!Transfer!UnderRepair
<1>5. (Transfer!ResumesForward <=> Fab!Transfer!ResumesForward)
  BY DEF Transfer!ResumesForward, Fab!Transfer!ResumesForward
<1>6. (Transfer!TypeOK <=> Fab!Transfer!TypeOK)
  BY DEF Transfer!TypeOK, Transfer!Working, Transfer!UnderRepair,
     Transfer!Terminal, Fab!Transfer!TypeOK, Fab!Transfer!Working,
     Fab!Transfer!UnderRepair, Fab!Transfer!Terminal
<1> QED
  BY <1>1, <1>2, <1>3, <1>4, <1>5, <1>6

LEMMA SameCapabilities ==
  /\ (Capabilities!Init <=> Fab!Capabilities!Init)
  /\ ([Capabilities!Next]_Capabilities!vars <=> [Fab!Capabilities!Next]_Fab!Capabilities!vars)
  /\ (Capabilities!CapabilityNegotiationAssumption <=> Fab!Capabilities!CapabilityNegotiationAssumption)
  /\ (Capabilities!AnswersFitSets <=> Fab!Capabilities!AnswersFitSets)
  /\ (Capabilities!TypeOK <=> Fab!Capabilities!TypeOK)
<1>1. (Capabilities!Init <=> Fab!Capabilities!Init)
  BY DEF Capabilities!Init, Capabilities!Unregistered, Capabilities!None,
     Capabilities!Idle, Fab!Capabilities!Init,
     Fab!Capabilities!Unregistered, Fab!Capabilities!None,
     Fab!Capabilities!Idle
<1>2. ([Capabilities!Next]_Capabilities!vars <=> [Fab!Capabilities!Next]_Fab!Capabilities!vars)
  BY DEF Capabilities!Next, Capabilities!vars, Capabilities!Register,
     Capabilities!Update, Capabilities!Refresh, Capabilities!Advertise,
     Capabilities!Remove, Capabilities!NotFound, Capabilities!Expire,
     Capabilities!Invalidate, Capabilities!Negotiate, Capabilities!Answer,
     Capabilities!Lapse, Capabilities!Forget, Capabilities!Is,
     Capabilities!Unregistered, Capabilities!Go, Capabilities!Kept,
     Capabilities!OneChange, Capabilities!NextVersion,
     Capabilities!Removed, Capabilities!End, Capabilities!None,
     Capabilities!Negotiable, Capabilities!Idle, Fab!Capabilities!Next,
     Fab!Capabilities!vars, Fab!Capabilities!Register,
     Fab!Capabilities!Update, Fab!Capabilities!Refresh,
     Fab!Capabilities!Advertise, Fab!Capabilities!Remove,
     Fab!Capabilities!NotFound, Fab!Capabilities!Expire,
     Fab!Capabilities!Invalidate, Fab!Capabilities!Negotiate,
     Fab!Capabilities!Answer, Fab!Capabilities!Lapse,
     Fab!Capabilities!Forget, Fab!Capabilities!Is,
     Fab!Capabilities!Unregistered, Fab!Capabilities!Go,
     Fab!Capabilities!Kept, Fab!Capabilities!OneChange,
     Fab!Capabilities!NextVersion, Fab!Capabilities!Removed,
     Fab!Capabilities!End, Fab!Capabilities!None,
     Fab!Capabilities!Negotiable, Fab!Capabilities!Idle
<1>3. (Capabilities!CapabilityNegotiationAssumption <=> Fab!Capabilities!CapabilityNegotiationAssumption)
  BY DEF Capabilities!CapabilityNegotiationAssumption,
     Fab!Capabilities!CapabilityNegotiationAssumption
<1>4. (Capabilities!AnswersFitSets <=> Fab!Capabilities!AnswersFitSets)
  BY DEF Capabilities!AnswersFitSets, Capabilities!Is, Capabilities!None,
     Fab!Capabilities!AnswersFitSets, Fab!Capabilities!Is,
     Fab!Capabilities!None
<1>5. (Capabilities!TypeOK <=> Fab!Capabilities!TypeOK)
  BY DEF Capabilities!TypeOK, Capabilities!Kept,
     Capabilities!Unregistered, Capabilities!Removed,
     Fab!Capabilities!TypeOK, Fab!Capabilities!Kept,
     Fab!Capabilities!Unregistered, Fab!Capabilities!Removed
<1> QED
  BY <1>1, <1>2, <1>3, <1>4, <1>5

LEMMA SameEvolution ==
  /\ (Evolution!Init <=> Fab!Evolution!Init)
  /\ ([Evolution!Next]_Evolution!vars <=> [Fab!Evolution!Next]_Fab!Evolution!vars)
  /\ (Evolution!SessionEvolutionAssumption <=> Fab!Evolution!SessionEvolutionAssumption)
  /\ (Evolution!HistoryTells <=> Fab!Evolution!HistoryTells)
  /\ (Evolution!TypeOK <=> Fab!Evolution!TypeOK)
<1>1. (Evolution!Init <=> Fab!Evolution!Init)
  BY DEF Evolution!Init, Evolution!NoRecord, Evolution!Idle,
     Fab!Evolution!Init, Fab!Evolution!NoRecord, Fab!Evolution!Idle
<1>2. ([Evolution!Next]_Evolution!vars <=> [Fab!Evolution!Next]_Fab!Evolution!vars)
  BY DEF Evolution!Next, Evolution!vars, Evolution!Create,
     Evolution!Schedule, Evolution!Cancel, Evolution!Advance,
     Evolution!Retire, Evolution!Scheduled, Evolution!Cancelled,
     Evolution!Evolving, Evolution!Evolved, Evolution!Settled,
     Evolution!RetireWrites, Evolution!NotFound, Evolution!Delete,
     Evolution!Is, Evolution!Kept, Evolution!Go, Evolution!Ask,
     Evolution!Ready, Evolution!Set, Evolution!End,
     Evolution!HistoryOfCopy, Evolution!NoRecord, Evolution!Allowed,
     Evolution!Idle, Fab!Evolution!Next, Fab!Evolution!vars,
     Fab!Evolution!Create, Fab!Evolution!Schedule, Fab!Evolution!Cancel,
     Fab!Evolution!Advance, Fab!Evolution!Retire, Fab!Evolution!Scheduled,
     Fab!Evolution!Cancelled, Fab!Evolution!Evolving,
     Fab!Evolution!Evolved, Fab!Evolution!Settled,
     Fab!Evolution!RetireWrites, Fab!Evolution!NotFound,
     Fab!Evolution!Delete, Fab!Evolution!Is, Fab!Evolution!Kept,
     Fab!Evolution!Go, Fab!Evolution!Ask, Fab!Evolution!Ready,
     Fab!Evolution!Set, Fab!Evolution!End, Fab!Evolution!HistoryOfCopy,
     Fab!Evolution!NoRecord, Fab!Evolution!Allowed, Fab!Evolution!Idle
<1>3. (Evolution!SessionEvolutionAssumption <=> Fab!Evolution!SessionEvolutionAssumption)
  BY DEF Evolution!SessionEvolutionAssumption,
     Fab!Evolution!SessionEvolutionAssumption
<1>4. (Evolution!HistoryTells <=> Fab!Evolution!HistoryTells)
  BY DEF Evolution!HistoryTells, Evolution!Kept, Evolution!NoRecord,
     Fab!Evolution!HistoryTells, Fab!Evolution!Kept,
     Fab!Evolution!NoRecord
<1>5. (Evolution!TypeOK <=> Fab!Evolution!TypeOK)
  BY DEF Evolution!TypeOK, Evolution!Kept, Evolution!Ready,
     Evolution!NoRecord, Fab!Evolution!TypeOK, Fab!Evolution!Kept,
     Fab!Evolution!Ready, Fab!Evolution!NoRecord
<1> QED
  BY <1>1, <1>2, <1>3, <1>4, <1>5

\* While a part runs, its component's inductive invariant holds.
FabricKept ==
  /\ part = "inbox" => Fab!RelayInv
  /\ part = "relayed" => Fab!ChunkRelayInv
  /\ part = "operations" => Fab!OperationsInv
  /\ part = "discovery" => Fab!DiscoveryInv
  /\ part = "transfer" => Fab!TransferInv
  /\ part = "capabilities" => Fab!CapabilityInv
  /\ part = "evolution" => Fab!EvolutionInv

\* What the components of the fabric assume holds here: one payload at the
\* relay, whose pulls do not fail.
LEMMA FabricHolds ==
  /\ Fab!MessageRelayAssumption
  /\ Fab!RelayAssumed /\ Fab!OnePayload
  /\ Fab!Operations!ReliableOperationsAssumption
  /\ Fab!Discovery!PeerDiscoveryAssumption
  /\ Fab!Transfer!TransferReliabilityAssumption
  /\ Fab!Capabilities!CapabilityNegotiationAssumption
  /\ Fab!Evolution!SessionEvolutionAssumption
<1>1. Fab!MessageRelayAssumption
  BY RelaysHold, SameInbox
<1>2. Fab!RelayAssumed /\ Fab!OnePayload
  BY RelaysHold, SameRelayed DEF Fab!RelayAssumed, Fab!OnePayload
<1>3. Fab!Operations!ReliableOperationsAssumption
  BY ReliableOperationsHolds, SameOperations
<1>4. Fab!Discovery!PeerDiscoveryAssumption
  BY PeerDiscoveryHolds, SameDiscovery
<1>5. Fab!Transfer!TransferReliabilityAssumption
  BY TransferReliabilityHolds, SameTransfer
<1>6. Fab!Capabilities!CapabilityNegotiationAssumption
  BY CapabilitiesHold, SameCapabilities
<1>7. Fab!Evolution!SessionEvolutionAssumption
  BY SessionEvolutionHolds, SameEvolution
<1> QED
  BY <1>1, <1>2, <1>3, <1>4, <1>5, <1>6, <1>7

\* The components of the fabric keep their invariants.
LEMMA FabricKeeps == PartSpec => []FabricKept
<1>1. PartInit => FabricKept
  BY FabricHolds, SameInbox, SameRelayed, SameOperations, SameDiscovery, SameTransfer,
     SameCapabilities, SameEvolution, Fab!InitRelay, Fab!InitChunkRelay,
     Fab!InitOperations, Fab!InitDiscovery, Fab!InitTransfer, Fab!InitCapabilities,
     Fab!InitEvolution
     DEF PartInit, FabricKept
<1>2. FabricKept /\ [PartNext]_<<part, all>> => FabricKept'
  <2> SUFFICES ASSUME FabricKept, [PartNext]_<<part, all>> PROVE FabricKept'
    OBVIOUS
  <2>1. part' = part
    BY StepsOfParts
  <2>2. part = "inbox" => Fab!RelayInv'
    BY FabricHolds, StepsOfParts, SameInbox, Fab!RelayStep DEF FabricKept
  <2>3. part = "relayed" => Fab!ChunkRelayInv'
    BY FabricHolds, StepsOfParts, SameRelayed, Fab!ChunkRelayStep DEF FabricKept
  <2>4. part = "operations" => Fab!OperationsInv'
    BY FabricHolds, StepsOfParts, SameOperations, Fab!OperationsStep DEF FabricKept
  <2>5. part = "discovery" => Fab!DiscoveryInv'
    BY FabricHolds, StepsOfParts, SameDiscovery, Fab!DiscoveryStep DEF FabricKept
  <2>6. part = "transfer" => Fab!TransferInv'
    BY FabricHolds, StepsOfParts, SameTransfer, Fab!TransferStep DEF FabricKept
  <2>7. part = "capabilities" => Fab!CapabilityInv'
    BY FabricHolds, StepsOfParts, SameCapabilities, Fab!CapabilityStep DEF FabricKept
  <2>8. part = "evolution" => Fab!EvolutionInv'
    BY FabricHolds, StepsOfParts, SameEvolution, Fab!EvolutionStep DEF FabricKept
  <2> QED
    BY <2>1, <2>2, <2>3, <2>4, <2>5, <2>6, <2>7, <2>8 DEF FabricKept
<1> QED
  BY <1>1, <1>2, PTL DEF PartSpec

\* No message key seals two messages and no message is opened twice unless its
\* key stayed cached while the chain had it, none that comes through the relay is
\* shown twice, a burst of triggers rekeys once, a device gets a group message
\* once unless two requests found its entry in the database, and lookups of one
\* peer do not search twice (messageKeyManager, messaging.pullInbox,
\* executionEngine.submit, drainDevice, discoveryManager.lookup).
THEOREM NothingIsDoneTwice == PartSpec => []NothingTwice
<1>1. KeysKept /\ FabricKept /\ RekeyKept /\ FanoutKept => NothingTwice
  <2>1. KeysKept /\ part = "keys" => Keys!EachKeySealsOnce /\ Keys!OpensOnce
    BY SameKeys, Sec!UsedOnce DEF KeysKept
  <2>2. FabricKept /\ part = "inbox" => Inbox!ShownOnce
    BY SameInbox, Fab!RelayMeans DEF FabricKept
  <2>3. FabricKept /\ part = "discovery" => Discovery!OneSearch
    BY FabricHolds, SameDiscovery, Fab!DiscoveryMeans DEF FabricKept
  <2>4. RekeyKept /\ part = "rekey" => Rekey!BurstRekeysOnce
    BY SameRekey, Sec!BurstMeans DEF RekeyKept
  <2>5. FanoutKept /\ part = "fanout" => Fanout!SentOnce
    BY GroupFanoutHolds, SameFanout, Grp!FanoutOnce DEF FanoutKept, Grp!FanoutTypeInv
  <2>6. FanoutKept /\ part = "stored" => Stored!SentOnce
    BY GroupFanoutHolds, SameStored, OpenGrp!FanoutOnce DEF FanoutKept, OpenGrp!FanoutTypeInv
  <2> QED
    BY <2>1, <2>2, <2>3, <2>4, <2>5, <2>6 DEF NothingTwice
<1> QED
  BY <1>1, KeysKeep, FabricKeeps, RekeyKeeps, FanoutKeeps, PTL

-----------------------------------------------------------------------------
(* A transfer at the relay that is not paused. *)

KeptFab == INSTANCE Fabric_proofs
  WITH MaxSeq <- 2, Polls <- Actors, MayFail <- TRUE, MaxReloads <- 1,
       state <- v1, polls <- v2, seen <- v3, shown <- v4, reloads <- v5,
       Transfers <- {"t"}, ChunkCount <- 3, PullsMayFail <- FALSE,
       Controls <- {"active", "cancelled"},
       stored <- v2, sender <- v3, receiver <- v4, control <- v5,
       relayed <- v6, handedOver <- v7,
       Operators <- People \cup {Admin}, MaxConcurrent <- 1, MaxQueue <- 1,
       MaxAttempts <- 2, MaxResumes <- 1, FailureThreshold <- 1,
       SuccessThreshold <- 1, MaxCrashes <- 0,
       record <- v1, ops <- v2, crashes <- v3, active <- v4, queue <- v5,
       breaker <- v6, failing <- v7, swept <- v8,
       Callers <- Actors, Sessions <- People, MaxVersions <- 1, MaxRestarts <- 1,
       Requests <- {"create", "completed", "cancelled", "expired"},
       device <- v1, sessions <- v2, cache <- v3, lookups <- v4, inflight <- v5,
       request <- v6, answer <- v7, restarts <- v8,
       Chunks <- 1, calls <- v2, MaxVersion <- 3, set <- v1, MaxGeneration <- 3

LEMMA KeptCards ==
  /\ \A S : Kept!Cardinality(S) = KeptFab!Relayed!Cardinality(S)
  /\ \A S : Kept!IsFiniteSet(S) <=> KeptFab!IsFiniteSet(S)
  BY DEF Kept!Cardinality, KeptFab!Relayed!Cardinality, Kept!IsFiniteSet,
     KeptFab!Relayed!IsFiniteSet, KeptFab!IsFiniteSet

LEMMA SameKept ==
  /\ (Kept!Init <=> KeptFab!Relayed!Init)
  /\ ([Kept!Next]_Kept!vars <=> [KeptFab!Relayed!Next]_KeptFab!Relayed!vars)
  /\ (Kept!ChunkRelayAssumption <=> KeptFab!Relayed!ChunkRelayAssumption)
  /\ (Kept!RelayedIsKept <=> KeptFab!Relayed!RelayedIsKept)
  /\ (Kept!TypeOK <=> KeptFab!Relayed!TypeOK)
<1>1. (Kept!Init <=> KeptFab!Relayed!Init)
  BY KeptCards DEF Kept!Init, Kept!Chunks, Kept!NoChunk,
     Kept!NotReceiving, KeptFab!Relayed!Init, KeptFab!Relayed!Chunks,
     KeptFab!Relayed!NoChunk, KeptFab!Relayed!NotReceiving
<1>2. ([Kept!Next]_Kept!vars <=> [KeptFab!Relayed!Next]_KeptFab!Relayed!vars)
  <2>1. \A t : Kept!Send(t) <=> KeptFab!Relayed!Send(t)
    BY KeptCards DEF Kept!Send, Kept!Open, Kept!Relay, Kept!Store,
       Kept!Relayed, Kept!SetSender, Kept!Chunks, Kept!Transferring,
       Kept!CanMove, Kept!Successors, Kept!Ended, KeptFab!Relayed!Send,
       KeptFab!Relayed!Open, KeptFab!Relayed!Relay, KeptFab!Relayed!Store,
       KeptFab!Relayed!Relayed, KeptFab!Relayed!SetSender,
       KeptFab!Relayed!Chunks, KeptFab!Relayed!Transferring,
       KeptFab!Relayed!CanMove, KeptFab!Relayed!Successors,
       KeptFab!Relayed!Ended
  <2>2. \A t : (Kept!Receive(t) <=> KeptFab!Relayed!Receive(t))
            
          /\ (Kept!Pull(t) <=> KeptFab!Relayed!Pull(t))
            
          /\ (Kept!Collect(t) <=> KeptFab!Relayed!Collect(t))
    BY KeptCards DEF Kept!Receive, Kept!Pull, Kept!Collect, Kept!Chunks,
       Kept!SetReceiver, Kept!NotReceiving, Kept!NoChunk,
       KeptFab!Relayed!Receive, KeptFab!Relayed!Pull,
       KeptFab!Relayed!Collect, KeptFab!Relayed!Chunks,
       KeptFab!Relayed!SetReceiver, KeptFab!Relayed!NotReceiving,
       KeptFab!Relayed!NoChunk
  <2>3. \A t : (Kept!FindForAck(t) <=> KeptFab!Relayed!FindForAck(t))
            
          /\ (Kept!MarkAcked(t) <=> KeptFab!Relayed!MarkAcked(t))
    BY KeptCards DEF Kept!FindForAck, Kept!MarkAcked, Kept!Min, Kept!Chunk,
       Kept!SetReceiver, Kept!NotReceiving, Kept!NoChunk,
       KeptFab!Relayed!FindForAck, KeptFab!Relayed!MarkAcked,
       KeptFab!Relayed!Min, KeptFab!Relayed!Chunk,
       KeptFab!Relayed!SetReceiver, KeptFab!Relayed!NotReceiving,
       KeptFab!Relayed!NoChunk
  <2>4. \A t : Kept!Count(t) <=> KeptFab!Relayed!Count(t)
    <3>1. \A t : Kept!AckedChunks(t) = KeptFab!Relayed!AckedChunks(t)
      BY DEF Kept!AckedChunks, Kept!Chunk, Kept!Chunks,
         KeptFab!Relayed!AckedChunks, KeptFab!Relayed!Chunk,
         KeptFab!Relayed!Chunks
    <3>2. \A t : Kept!Counted(t) = KeptFab!Relayed!Counted(t)
      BY <3>1, KeptCards DEF Kept!Counted, KeptFab!Relayed!Counted
    <3> QED
      BY <3>2 DEF Kept!Count, Kept!SetReceiver, Kept!NotReceiving,
         Kept!NoChunk, KeptFab!Relayed!Count, KeptFab!Relayed!SetReceiver,
         KeptFab!Relayed!NotReceiving, KeptFab!Relayed!NoChunk
  <2>5. \A t : (Kept!Update(t) <=> KeptFab!Relayed!Update(t))
            
          /\ (Kept!Complete(t) <=> KeptFab!Relayed!Complete(t))
    BY KeptCards DEF Kept!Update, Kept!Complete, Kept!SetReceiver,
       Kept!NotReceiving, Kept!NoChunk, Kept!Transferring, Kept!CanMove,
       Kept!Successors, Kept!Ended, KeptFab!Relayed!Update,
       KeptFab!Relayed!Complete, KeptFab!Relayed!SetReceiver,
       KeptFab!Relayed!NotReceiving, KeptFab!Relayed!NoChunk,
       KeptFab!Relayed!Transferring, KeptFab!Relayed!CanMove,
       KeptFab!Relayed!Successors, KeptFab!Relayed!Ended
  <2>6. \A t : (Kept!Loop(t) <=> KeptFab!Relayed!Loop(t))
            
          /\ (Kept!Fail(t) <=> KeptFab!Relayed!Fail(t))
    BY KeptCards DEF Kept!Loop, Kept!Fail, Kept!Collected, Kept!Chunks,
       Kept!SetReceiver, Kept!NotReceiving, Kept!NoChunk,
       KeptFab!Relayed!Loop, KeptFab!Relayed!Fail,
       KeptFab!Relayed!Collected, KeptFab!Relayed!Chunks,
       KeptFab!Relayed!SetReceiver, KeptFab!Relayed!NotReceiving,
       KeptFab!Relayed!NoChunk
  <2>7. \A t, to : Kept!Ask(t, to) <=> KeptFab!Relayed!Ask(t, to)
    BY KeptCards DEF Kept!Ask, Kept!NoChunk, Kept!Transferring, Kept!CanMove,
       Kept!Successors, Kept!Ended, KeptFab!Relayed!Ask,
       KeptFab!Relayed!NoChunk, KeptFab!Relayed!Transferring,
       KeptFab!Relayed!CanMove, KeptFab!Relayed!Successors,
       KeptFab!Relayed!Ended
  <2>8. Kept!Answer <=> KeptFab!Relayed!Answer
    BY KeptCards DEF Kept!Answer, Kept!NoChunk, KeptFab!Relayed!Answer,
       KeptFab!Relayed!NoChunk
  <2>9. Kept!vars = KeptFab!Relayed!vars /\ Kept!vars' = KeptFab!Relayed!vars'
    BY DEF Kept!vars, KeptFab!Relayed!vars
  <2>10. \A t : Kept!Take(t) <=> KeptFab!Relayed!Take(t)
    <3> TAKE t
    <3>1. /\ (Kept!Receive(t) <=> KeptFab!Relayed!Receive(t))
          /\ (Kept!Pull(t) <=> KeptFab!Relayed!Pull(t))
          /\ (Kept!Collect(t) <=> KeptFab!Relayed!Collect(t))
      BY <2>2
    <3>2. /\ (Kept!FindForAck(t) <=> KeptFab!Relayed!FindForAck(t))
          /\ (Kept!MarkAcked(t) <=> KeptFab!Relayed!MarkAcked(t))
          /\ (Kept!Count(t) <=> KeptFab!Relayed!Count(t))
      BY <2>3, <2>4
    <3>3. /\ (Kept!Update(t) <=> KeptFab!Relayed!Update(t))
          /\ (Kept!Complete(t) <=> KeptFab!Relayed!Complete(t))
          /\ (Kept!Loop(t) <=> KeptFab!Relayed!Loop(t))
      BY <2>5, <2>6
    <3> QED
      BY <3>1, <3>2, <3>3 DEF Kept!Take, KeptFab!Relayed!Take
  <2>11. Kept!Next <=> KeptFab!Relayed!Next
    BY <2>1, <2>6, <2>7, <2>8, <2>10, Zenon DEF Kept!Next, KeptFab!Relayed!Next
  <2> QED
    BY <2>9, <2>11, Zenon
<1>3. (Kept!ChunkRelayAssumption <=> KeptFab!Relayed!ChunkRelayAssumption)
  BY KeptCards DEF Kept!ChunkRelayAssumption,
     KeptFab!Relayed!ChunkRelayAssumption
<1>4. (Kept!RelayedIsKept <=> KeptFab!Relayed!RelayedIsKept)
  BY KeptCards DEF Kept!RelayedIsKept, Kept!Collected,
     KeptFab!Relayed!RelayedIsKept, KeptFab!Relayed!Collected
<1>5. (Kept!TypeOK <=> KeptFab!Relayed!TypeOK)
  BY KeptCards DEF Kept!TypeOK, Kept!TransferState, Kept!Chunks,
     Kept!Collected, Kept!Transferring, Kept!Ended,
     KeptFab!Relayed!TypeOK, KeptFab!Relayed!TransferState,
     KeptFab!Relayed!Chunks, KeptFab!Relayed!Collected,
     KeptFab!Relayed!Transferring, KeptFab!Relayed!Ended
<1> QED
  BY <1>1, <1>2, <1>3, <1>4, <1>5

\* While a part runs, its component's inductive invariant holds.
RelayKept == part = "kept" => KeptFab!ChunkRelayInv

\* The relay keeps its invariant with a participant who does not pause, too.
LEMMA RelayKeeps == PartSpec => []RelayKept
<1>1. KeptFab!RelayAssumed /\ KeptFab!OnePayload
  BY RelaysHold, SameKept DEF KeptFab!RelayAssumed, KeptFab!OnePayload
<1>2. PartInit => RelayKept
  BY <1>1, SameKept, KeptFab!InitChunkRelay DEF PartInit, RelayKept
<1>3. RelayKept /\ [PartNext]_<<part, all>> => RelayKept'
  BY <1>1, StepsOfParts, SameKept, KeptFab!ChunkRelayStep DEF RelayKept
<1> QED
  BY <1>2, <1>3, PTL DEF PartSpec

\* What was planned for a device is sent, waits or is under way, with the queue in
\* memory and in the database, unless it was put into the database between a find
\* and its deleteMany or its resume failed (groupCommunicationEngine.resumeDelivery),
\* and what the relay has accepted of a transfer that is not paused can be pulled
\* until the receiver has it (relayManager.pullChunks).
THEOREM NothingIsForgotten == PartSpec => []NotForgotten
<1>1. KeptFab!OnePayload
  BY DEF KeptFab!OnePayload
<1>2. FanoutKept /\ RelayKept => NotForgotten
  <2>1. FanoutKept /\ part = "fanout" => Fanout!NotForgotten
    BY GroupFanoutHolds, SameFanout, Grp!FanoutKeepsAll DEF FanoutKept, Grp!FanoutTypeInv
  <2>2. FanoutKept /\ part = "stored" => Stored!NotForgotten
    BY GroupFanoutHolds, SameStored, OpenGrp!FanoutKeepsAll
       DEF FanoutKept, OpenGrp!FanoutTypeInv
  <2>3. RelayKept /\ part = "kept" => Kept!RelayedIsKept
    BY <1>1, SameKept, KeptFab!ChunkRelayMeans DEF RelayKept
  <2> QED
    BY <2>1, <2>2, <2>3 DEF NotForgotten
<1> QED
  BY <1>2, FanoutKeeps, RelayKeeps, PTL
=============================================================================
