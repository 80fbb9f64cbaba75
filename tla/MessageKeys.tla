----------------------------- MODULE MessageKeys -----------------------------
(***************************************************************************)
(* One key per message (server/message-keys/manager/messageKeyManager.js   *)
(* over the chains of server/key-hierarchy/manager/chainManager.js).  One  *)
(* device seals, the other opens; both ratchet a chain key forward for     *)
(* every message and start a fresh chain with every generation.  Envelopes *)
(* may arrive late, twice or never, so the receiver keeps the keys of      *)
(* skipped messages in a bounded cache.                                    *)
(*                                                                         *)
(* A key is [gen, n]: generation and place in the chain.  Sealing and      *)
(* opening hold a lock each, but wait for the caller's cipher and for the  *)
(* repository in between.                                                  *)
(***************************************************************************)
EXTENDS Naturals, Sequences, SequencesExt, Functions

CONSTANTS
  Sealers,        \* callers of sealMessage
  MaxSkip,        \* MessageKeyManager.maxSkip
  CacheLimit,     \* MessageKeyCache limit
  MaxNumber,      \* bound: messages per generation
  MaxGeneration   \* bound: generations

MessageKeysAssumption ==
  MaxSkip \in Nat /\ CacheLimit \in Nat /\ MaxNumber \in Nat /\ MaxGeneration \in Nat

VARIABLES
  sendChain, \* key the sending chain stands at
  sealing,   \* key each sealMessage call derived, or Nothing
  sent,      \* keys of the envelopes that went out, in order
  recvChain, \* key the receiving chain stands at
  cache,     \* keys of skipped messages, oldest first
  opening,   \* the openMessage call under way, or Nothing
  opened,    \* keys of the messages opened, in order
  burnt,     \* keys given up: failed opening, eviction or expiry
  twins      \* history: keys the chain gave for use while they were cached too

vars == <<sendChain, sealing, sent, recvChain, cache, opening, opened, burnt, twins>>
sender == <<sendChain, sealing, sent>>
receiver == <<recvChain, cache, opening, opened, burnt, twins>>

Keys == [gen : 0..MaxGeneration, n : 0..MaxNumber]
Nothing == [gen |-> 0, n |-> MaxNumber + 1]
AtRest == opening.key = Nothing

NextKey(k) == [k EXCEPT !.n = @ + 1]
NewRoot(k) == [gen |-> k.gen + 1, n |-> 0]

Init ==
  /\ sendChain = [gen |-> 0, n |-> 0] /\ recvChain = sendChain
  /\ sealing = [s \in Sealers |-> Nothing] /\ sent = <<>>
  /\ cache = <<>> /\ opened = <<>> /\ burnt = {} /\ twins = {}
  /\ opening = [key |-> Nothing, step |-> "idle"]

\* Mutation: sealing does not wait for the lock.
SealUnlocked(s) ==
  /\ sealing[s] = Nothing
  /\ sendChain.n < MaxNumber
  /\ sealing' = [sealing EXCEPT ![s] = sendChain]
  /\ UNCHANGED <<sendChain, sent, receiver>>

\* _sealMessage up to sealFn, one call at a time (_withLock).
Seal(s) ==
  /\ \A t \in Sealers : sealing[t] = Nothing
  /\ sendChain.n < MaxNumber
  /\ sealing' = [sealing EXCEPT ![s] = sendChain]
  /\ UNCHANGED <<sendChain, sent, receiver>>

\* sealFn threw, or the read before the advance did: the key is wiped, the
\* chain stays.
SealFails(s) ==
  /\ sealing[s] # Nothing
  /\ sealing' = [sealing EXCEPT ![s] = Nothing]
  /\ UNCHANGED <<sendChain, sent, receiver>>

\* advanceSendingChain; the envelope goes out unless storing the new state
\* or the message record fails.
Sealed(s) ==
  /\ sealing[s] # Nothing
  /\ sealing' = [sealing EXCEPT ![s] = Nothing]
  /\ sendChain' = NextKey(sendChain)
  /\ \/ sent' = Append(sent, sealing[s])
     \/ UNCHANGED sent
  /\ UNCHANGED receiver

\* reroot of the sending device, between two messages.
RerootSender ==
  /\ \A s \in Sealers : sealing[s] = Nothing
  /\ sendChain.gen < MaxGeneration
  /\ sendChain' = NewRoot(sendChain)
  /\ UNCHANGED <<sealing, sent, receiver>>

Cached(k) == Contains(cache, k)
Begin(k, step) == opening' = [key |-> k, step |-> step]

\* Mutation: the key stays in the cache.
OpenSkippedKeeping(k) ==
  /\ AtRest
  /\ k.gen = recvChain.gen /\ k.n < recvChain.n
  /\ Cached(k)
  /\ Begin(k, "opening")
  /\ UNCHANGED <<sender, recvChain, cache, opened, burnt, twins>>

\* A message the chain is past: its key is taken from the cache.
OpenSkipped(k) ==
  /\ AtRest
  /\ k.gen = recvChain.gen /\ k.n < recvChain.n
  /\ \E i \in DOMAIN cache : cache[i] = k /\ cache' = RemoveAt(cache, i)
  /\ Begin(k, "opening")
  /\ UNCHANGED <<sender, recvChain, opened, burnt, twins>>

\* A message at or ahead of the chain, not too far.
Open(k) ==
  /\ AtRest
  /\ k.gen = recvChain.gen /\ k.n >= recvChain.n
  /\ k.n - recvChain.n <= MaxSkip
  /\ Begin(k, "skipping")
  /\ UNCHANGED <<sender, recvChain, cache, opened, burnt, twins>>

\* The cache with k put in; beyond its limit the oldest key goes.  A key that is
\* there already keeps its place.
Cache(k) == IF Cached(k) THEN cache
            ELSE IF Len(cache) < CacheLimit THEN Append(cache, k)
            ELSE Tail(Append(cache, k))
Evicted == IF Cached(recvChain) \/ Len(cache) < CacheLimit THEN {}
           ELSE {Head(Append(cache, recvChain))}

EndOpening == opening' = [key |-> Nothing, step |-> "idle"]

\* Mutation: the skipped key is not cached.
SkipForgetting ==
  /\ opening.step = "skipping" /\ recvChain.n < opening.key.n
  /\ recvChain' = NextKey(recvChain)
  /\ UNCHANGED <<sender, cache, opening, opened, burnt, twins>>

\* _deriveReceiving, one round: keep the key of the skipped message, advance.
Skip ==
  /\ opening.step = "skipping" /\ recvChain.n < opening.key.n
  /\ cache' = Cache(recvChain)
  /\ burnt' = burnt \cup Evicted
  /\ recvChain' = NextKey(recvChain)
  /\ UNCHANGED <<sender, opening, opened, twins>>

\* advanceReceivingChain threw and ends the call, the key being in the cache:
\* the chain stays when the read of its state failed, and is past the key when
\* storing the new state did.
SkipFails ==
  /\ opening.step = "skipping" /\ recvChain.n < opening.key.n
  /\ cache' = Cache(recvChain)
  /\ burnt' = burnt \cup Evicted
  /\ recvChain' \in {recvChain, NextKey(recvChain)}
  /\ EndOpening
  /\ UNCHANGED <<sender, opened, twins>>

\* Mutation: the chain is not advanced past the message.
DeriveStaying ==
  /\ opening.step = "skipping" /\ recvChain.n = opening.key.n
  /\ Begin(opening.key, "opening")
  /\ UNCHANGED <<sender, recvChain, cache, opened, burnt, twins>>

\* The key of the message itself, which a failed skip may have left in the
\* cache: nothing takes it from there.
Derive ==
  /\ opening.step = "skipping" /\ recvChain.n = opening.key.n
  /\ recvChain' = NextKey(recvChain)
  /\ Begin(opening.key, "opening")
  /\ twins' = IF Cached(opening.key) THEN twins \cup {opening.key} ELSE twins
  /\ UNCHANGED <<sender, cache, opened, burnt>>

\* advanceReceivingChain threw: as above, but the key is in nobody's hands.
DeriveFails ==
  /\ opening.step = "skipping" /\ recvChain.n = opening.key.n
  /\ \/ UNCHANGED <<recvChain, burnt>>
     \/ recvChain' = NextKey(recvChain) /\ burnt' = burnt \cup {opening.key}
  /\ EndOpening
  /\ UNCHANGED <<sender, cache, opened, twins>>

\* openFn succeeds.
Opened ==
  /\ opening.step = "opening"
  /\ opened' = Append(opened, opening.key)
  /\ EndOpening
  /\ UNCHANGED <<sender, recvChain, cache, burnt, twins>>

\* openFn throws, on a message damaged on its way: the key is wiped.
OpenFails ==
  /\ opening.step = "opening"
  /\ burnt' = burnt \cup {opening.key}
  /\ EndOpening
  /\ UNCHANGED <<sender, recvChain, cache, opened, twins>>

\* pruneCache: the oldest keys have expired.
PruneCache ==
  /\ cache # <<>>
  /\ cache' = Tail(cache) /\ burnt' = burnt \cup {Head(cache)}
  /\ UNCHANGED <<sender, recvChain, opening, opened, twins>>

RerootReceiver ==
  /\ AtRest
  /\ recvChain.gen < MaxGeneration
  /\ recvChain' = NewRoot(recvChain)
  /\ UNCHANGED <<sender, cache, opening, opened, burnt, twins>>

\* Every envelope may arrive again and again, in any order.
Receive == \E i \in DOMAIN sent : OpenSkipped(sent[i]) \/ Open(sent[i])

Next ==
  \/ \E s \in Sealers : Seal(s) \/ SealFails(s) \/ Sealed(s)
  \/ RerootSender \/ RerootReceiver
  \/ Receive \/ Skip \/ SkipFails \/ Derive \/ DeriveFails
  \/ Opened \/ OpenFails \/ PruneCache

Spec == Init /\ [][Next]_vars

-----------------------------------------------------------------------------

TypeOK ==
  /\ sendChain \in Keys /\ recvChain \in Keys
  /\ sealing \in [Sealers -> Keys \cup {Nothing}]
  /\ sent \in Seq(Keys) /\ opened \in Seq(Keys)
  /\ cache \in Seq(Keys) /\ Len(cache) <= CacheLimit
  /\ opening \in [key : Keys \cup {Nothing}, step : {"idle", "skipping", "opening"}]
  /\ burnt \subseteq Keys /\ twins \subseteq Keys

\* No two messages are sealed with the same key, however sealing calls fail
\* or overlap (sealMessage and its lock).
EachKeySealsOnce == IsInjective(sent)

\* A message is opened at most once, however often it arrives and whatever
\* call fails half way (openMessage).  The exception is exactly the key that
\* was taken from the chain while a failed skip had left it in the cache.
OpensOnce ==
  \A i, j \in DOMAIN opened :
    opened[i] = opened[j] => i = j \/ opened[i] \in twins

\* The same without the exception, as the documentation has it: every message
\* key is used once.
EachKeyOpensOnce == IsInjective(opened)

\* Until a message was opened or its key given up, the receiver can still come
\* by the key: ahead in the chain, in the cache, or in the call under way.
KeyStillAvailable ==
  \A k \in ToSet(sent) :
    k.gen = recvChain.gen =>
      \/ k.n >= recvChain.n \/ Cached(k) \/ opening.key = k
      \/ k \in ToSet(opened) \cup burnt

\* Once a message was opened its key can no longer be had: not from the
\* cache, not from the chain, not from a call (messageKeyManager.js).  The
\* exception is as above, and of the cache only: the chain is past every key.
UsedKeysAreGone ==
  \A k \in ToSet(opened) :
    /\ k.gen < recvChain.gen \/ k.n < recvChain.n
    /\ k \in twins \/ (~ Cached(k) /\ opening.key # k)

=============================================================================
