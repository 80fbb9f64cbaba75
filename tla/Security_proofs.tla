---------------------------- MODULE Security_proofs ----------------------------
(***************************************************************************)
(* Proofs about the keys of sessions and messages, for any number of       *)
(* callers, messages, generations and evolutions: every message key seals  *)
(* one message and opens it once (MessageKeys); a session that is closed   *)
(* or destroyed leaves no keys (SecureSession); the record of the          *)
(* generations tells which keys can still be had (ForwardSecrecy); a chain *)
(* of handshakes stays within the retries (Handshake), and a complete key  *)
(* agreement has what both participants sent (KeyAgreement); a burst of    *)
(* triggers rekeys a session once (AutomaticRekey).                        *)
(***************************************************************************)
EXTENDS MessageKeys, SequenceTheorems, FiniteSetTheorems, NaturalsInduction,
  WellFoundedInduction, TLAPS

CONSTANTS Callers, MaxRekeys, Retained, MaxEvolutions, UpdateMayFail,
  MaxHandshakes, MaxRetries, Tried, MaxAttempts, MaxExecutions, PersistMayFail
VARIABLES
  session, keys, store, record, calls, sessions, late, exchanges, lapsed,
  triggers, queue, pending, executions

Session == INSTANCE SecureSession WITH MaxGeneration <- MaxRekeys
Secrecy == INSTANCE ForwardSecrecy WITH MaxGeneration <- MaxEvolutions
Agreement == INSTANCE KeyAgreement
Rekey == INSTANCE AutomaticRekey WITH MaxGeneration <- MaxEvolutions

-----------------------------------------------------------------------------
(* Message keys (MessageKeys). *)

Places == [gen : Nat, n : Nat]

\* The chain has left the place of k behind.
Past(k, chain) == k.gen < chain.gen \/ (k.gen = chain.gen /\ k.n < chain.n)

SendTyped ==
  /\ sendChain \in Keys
  /\ sealing \in [Sealers -> Keys \cup {Nothing}]
  /\ sent \in Seq(Keys)

\* One call at a time derives the key the chain stands at; the keys of the
\* envelopes that went out are all behind it.
SendInv ==
  /\ SendTyped
  /\ \A s \in Sealers : sealing[s] # Nothing =>
       sealing[s] = sendChain /\ sendChain.n < MaxNumber
  /\ \A s, t \in Sealers : sealing[s] # Nothing /\ sealing[t] # Nothing => s = t
  /\ \A i \in 1..Len(sent) : Past(sent[i], sendChain)
  /\ \A i, j \in 1..Len(sent) : sent[i] = sent[j] => i = j

\* The chain has left the place of k behind, or stands at it.
PastOrAt(k, chain) == Past(k, chain) \/ k = chain

\* What a cache needs to be: keys behind the chain or at it, each once, none
\* used but those in "again".
CacheFits(q, chain, used, again) ==
  /\ q \in Seq(Places)
  /\ \A i \in 1..Len(q) : PastOrAt(q[i], chain)
  /\ \A i, j \in 1..Len(q) : q[i] = q[j] => i = j
  /\ \A i \in 1..Len(q), j \in 1..Len(used) : q[i] = used[j] => q[i] \in again

RecvTyped ==
  /\ recvChain \in Places
  /\ opened \in Seq(Keys)
  /\ opening \in [key : Keys \cup {Nothing}, step : {"idle", "skipping", "opening"}]
  /\ opening.step = "idle" <=> opening.key = Nothing

\* Nobody but the cache and the call under way has a key the receiving chain
\* is past, and a key that one of them has is no other's and never was used;
\* the twins are the exception.
RecvInv ==
  /\ RecvTyped
  /\ \A i \in 1..Len(opened) : Past(opened[i], recvChain)
  /\ \A i, j \in 1..Len(opened) : opened[i] = opened[j] => i = j \/ opened[i] \in twins
  /\ CacheFits(cache, recvChain, opened, twins)
  /\ opening.step = "opening" =>
       /\ Past(opening.key, recvChain)
       /\ \A i \in 1..Len(cache) : cache[i] = opening.key => opening.key \in twins
       /\ \A j \in 1..Len(opened) : opened[j] = opening.key => opening.key \in twins
  /\ opening.step = "skipping" =>
       opening.key.gen = recvChain.gen /\ opening.key.n >= recvChain.n

IInv == SendInv /\ RecvInv

LEMMA NothingIsNoKey == ASSUME MessageKeysAssumption PROVE Nothing \notin Keys
BY DEF Nothing, Keys, MessageKeysAssumption

LEMMA KeysArePlaces ==
  ASSUME MessageKeysAssumption, NEW k \in Keys
  PROVE  k \in Places /\ k.gen \in Nat /\ k.n \in Nat
BY DEF Keys, Places, MessageKeysAssumption

LEMMA PlaceNumbers ==
  ASSUME NEW q \in Seq(Places), NEW i \in 1..Len(q)
  PROVE  q[i].gen \in Nat /\ q[i].n \in Nat
<1>1. q[i] \in Places
  BY ElementOfSeq
<1> QED
  BY <1>1 DEF Places

LEMMA InitIInv == ASSUME MessageKeysAssumption PROVE Init => IInv
<1> SUFFICES ASSUME Init PROVE IInv
  OBVIOUS
<1>1. [gen |-> 0, n |-> 0] \in Keys /\ [gen |-> 0, n |-> 0] \in Places
  BY DEF Keys, Places, MessageKeysAssumption
<1>2. SendInv
  BY <1>1 DEF Init, SendInv, SendTyped
<1>3. RecvInv
  BY <1>1 DEF Init, RecvInv, RecvTyped, CacheFits
<1> QED
  BY <1>2, <1>3 DEF IInv

LEMMA SendStep ==
  ASSUME MessageKeysAssumption PROVE SendInv /\ [Next]_vars => SendInv'
<1> SUFFICES ASSUME SendInv, [Next]_vars PROVE SendInv'
  OBVIOUS
<1> USE DEF SendInv, SendTyped
<1>1. ASSUME NEW s \in Sealers, Seal(s) PROVE SendInv'
  <2>1. /\ sealing' = [sealing EXCEPT ![s] = sendChain]
        /\ \A t \in Sealers : sealing[t] = Nothing
        /\ UNCHANGED <<sendChain, sent>> /\ sendChain.n < MaxNumber
    BY <1>1 DEF Seal
  <2>2. \A t \in Sealers : sealing'[t] = IF t = s THEN sendChain ELSE Nothing
    BY <2>1
  <2> QED
    BY <2>1, <2>2
<1>2. ASSUME NEW s \in Sealers, SealFails(s) PROVE SendInv'
  <2>1. /\ sealing' = [sealing EXCEPT ![s] = Nothing]
        /\ UNCHANGED <<sendChain, sent>>
    BY <1>2 DEF SealFails
  <2>2. \A t \in Sealers : sealing'[t] = IF t = s THEN Nothing ELSE sealing[t]
    BY <2>1
  <2> QED
    BY <2>1, <2>2
<1>3. ASSUME NEW s \in Sealers, Sealed(s) PROVE SendInv'
  <2>1. /\ sealing' = [sealing EXCEPT ![s] = Nothing]
        /\ sealing[s] = sendChain /\ sendChain.n < MaxNumber
        /\ sendChain' = NextKey(sendChain)
        /\ sent' = Append(sent, sendChain) \/ sent' = sent
    BY <1>3 DEF Sealed
  <2>2. \A t \in Sealers : sealing'[t] = Nothing
    BY <1>3, <2>1 DEF Sealed
  <2>3. /\ sendChain' \in Keys
        /\ sendChain'.gen = sendChain.gen /\ sendChain'.n = sendChain.n + 1
        /\ sendChain.gen \in Nat /\ sendChain.n \in Nat
    BY <2>1 DEF NextKey, Keys, MessageKeysAssumption
  <2>4. sealing' \in [Sealers -> Keys \cup {Nothing}]
    BY <2>1
  <2>5. \A i \in 1..Len(sent) : sent[i] # sendChain
    BY <2>3 DEF Past
  <2>6. \A i \in 1..Len(sent) : Past(sent[i], sendChain')
    <3>1. \A i \in 1..Len(sent) : sent[i] \in Keys
      OBVIOUS
    <3>2. \A i \in 1..Len(sent) : sent[i].gen \in Nat /\ sent[i].n \in Nat
      BY <3>1, KeysArePlaces
    <3> QED
      BY <2>3, <3>2 DEF Past
  <2>7. CASE sent' = sent
    BY <2>2, <2>3, <2>4, <2>6, <2>7
  <2>8. CASE sent' = Append(sent, sendChain)
    <3>1. /\ sent' \in Seq(Keys) /\ Len(sent') = Len(sent) + 1
          /\ \A i \in 1..Len(sent) : sent'[i] = sent[i]
          /\ sent'[Len(sent) + 1] = sendChain
      BY <2>8
    <3>2. Past(sendChain, sendChain')
      BY <2>3 DEF Past
    <3>3. \A i \in 1..Len(sent') : i \in 1..Len(sent) \/ i = Len(sent) + 1
      BY <3>1
    <3>4. \A i \in 1..Len(sent') : Past(sent'[i], sendChain')
      BY <2>6, <3>1, <3>2, <3>3
    <3>5. \A i, j \in 1..Len(sent') : sent'[i] = sent'[j] => i = j
      BY <2>5, <3>1, <3>3
    <3> QED
      BY <2>2, <2>3, <2>4, <3>1, <3>4, <3>5
  <2> QED
    BY <2>1, <2>7, <2>8
<1>4. CASE RerootSender
  <2>1. /\ sendChain' \in Keys /\ sendChain'.gen = sendChain.gen + 1
        /\ UNCHANGED <<sealing, sent>> /\ \A s \in Sealers : sealing[s] = Nothing
    BY <1>4 DEF RerootSender, NewRoot, Keys, MessageKeysAssumption
  <2>2. \A i \in 1..Len(sent) : sent[i] \in Keys
    OBVIOUS
  <2>3. \A i \in 1..Len(sent) : sent[i].gen \in Nat /\ sendChain.gen \in Nat
    BY <2>2, KeysArePlaces
  <2> QED
    BY <2>1, <2>3 DEF Past
<1>5. CASE UNCHANGED sender
  BY <1>5 DEF sender
<1> QED
  BY <1>1, <1>2, <1>3, <1>4, <1>5
     DEF Next, Receive, RerootReceiver, OpenSkipped, Open, Skip, SkipFails, Derive,
         DeriveFails, Opened, OpenFails, PruneCache, vars, sender

\* Taking one key out of the cache.
LEMMA Removed ==
  ASSUME NEW S, NEW q \in Seq(S), NEW i \in 1..Len(q)
  PROVE  /\ RemoveAt(q, i) \in Seq(S)
         /\ Len(RemoveAt(q, i)) = Len(q) - 1
         /\ \A j \in 1..Len(q) - 1 :
              RemoveAt(q, i)[j] = IF j < i THEN q[j] ELSE q[j + 1]
<1> DEFINE front == SubSeq(q, 1, i - 1)
           back == SubSeq(q, i + 1, Len(q))
<1>1. /\ front \in Seq(S) /\ Len(front) = i - 1
      /\ \A j \in 1..i - 1 : front[j] = q[j]
  OBVIOUS
<1>2. /\ back \in Seq(S) /\ Len(back) = Len(q) - i
      /\ \A j \in 1..Len(q) - i : back[j] = q[i + j]
  OBVIOUS
<1>3. RemoveAt(q, i) = front \o back
  BY DEF RemoveAt
<1> HIDE DEF front, back
<1>4. /\ front \o back \in Seq(S) /\ Len(front \o back) = Len(q) - 1
      /\ \A j \in 1..Len(q) - 1 :
           (front \o back)[j] = IF j <= i - 1 THEN front[j] ELSE back[j - (i - 1)]
  <2>1. /\ front \o back \in Seq(S) /\ Len(front \o back) = Len(front) + Len(back)
        /\ \A j \in 1..Len(front) + Len(back) :
             (front \o back)[j] = IF j <= Len(front) THEN front[j] ELSE back[j - Len(front)]
    BY <1>1, <1>2, ConcatProperties
  <2>2. Len(front) = i - 1 /\ Len(front) + Len(back) = Len(q) - 1
    BY <1>1, <1>2
  <2> QED
    BY <2>1, <2>2
<1>5. ASSUME NEW j \in 1..Len(q) - 1
      PROVE  (front \o back)[j] = IF j < i THEN q[j] ELSE q[j + 1]
  <2>1. CASE j < i
    <3>1. j \in 1..i - 1 /\ j <= i - 1
      BY <2>1
    <3>2. (front \o back)[j] = front[j]
      BY <1>4, <3>1
    <3> QED
      BY <1>1, <2>1, <3>1, <3>2
  <2>2. CASE j >= i
    <3>1. j - (i - 1) \in 1..Len(q) - i /\ i + (j - (i - 1)) = j + 1
      BY <2>2
    <3>2. ~ (j <= i - 1) /\ ~ (j < i)
      BY <2>2
    <3>3. (front \o back)[j] = back[j - (i - 1)]
      BY <1>4, <3>2
    <3>4. back[j - (i - 1)] = q[i + (j - (i - 1))]
      BY <1>2, <3>1
    <3> QED
      BY <3>1, <3>2, <3>3, <3>4
  <2>3. j < i \/ j >= i
    OBVIOUS
  <2> QED
    BY <2>1, <2>2, <2>3
<1> QED
  BY <1>3, <1>4, <1>5

LEMMA CacheWithout ==
  ASSUME NEW q, NEW chain, NEW used, NEW again, CacheFits(q, chain, used, again),
         NEW i \in 1..Len(q)
  PROVE  /\ CacheFits(RemoveAt(q, i), chain, used, again)
         /\ \A j \in 1..Len(RemoveAt(q, i)) : RemoveAt(q, i)[j] # q[i]
<1> DEFINE r == RemoveAt(q, i)
<1>1. q \in Seq(Places)
  BY DEF CacheFits
<1>2. /\ r \in Seq(Places) /\ Len(r) = Len(q) - 1
      /\ \A j \in 1..Len(r) : r[j] = IF j < i THEN q[j] ELSE q[j + 1]
  BY <1>1, Removed
<1> HIDE DEF r
<1>3. /\ \A j \in 1..Len(r) : j \in 1..Len(q) /\ j + 1 \in 1..Len(q)
      /\ Len(q) \in Nat
  BY <1>1, <1>2
<1>4. \A j \in 1..Len(r) : PastOrAt(r[j], chain)
  BY <1>2, <1>3 DEF CacheFits
<1>5. \A j, k \in 1..Len(r) : r[j] = r[k] => j = k
  BY <1>2, <1>3 DEF CacheFits
<1>6. \A j \in 1..Len(r), k \in 1..Len(used) : r[j] = used[k] => r[j] \in again
  BY <1>2, <1>3 DEF CacheFits
<1>7. \A j \in 1..Len(r) : r[j] # q[i]
  BY <1>2, <1>3 DEF CacheFits
<1>8. CacheFits(r, chain, used, again)
  BY <1>2, <1>4, <1>5, <1>6 DEF CacheFits
<1> QED
  BY <1>7, <1>8 DEF r

LEMMA CacheWithoutFirst ==
  ASSUME NEW q, NEW chain, NEW used, NEW again, CacheFits(q, chain, used, again),
         q # <<>>
  PROVE  CacheFits(Tail(q), chain, used, again)
<1>1. q \in Seq(Places)
  BY DEF CacheFits
<1>2. /\ Tail(q) \in Seq(Places) /\ Len(Tail(q)) = Len(q) - 1
      /\ \A j \in 1..Len(Tail(q)) :
           Tail(q)[j] = q[j + 1] /\ j + 1 \in 1..Len(q)
  BY <1>1
<1> QED
  BY <1>2 DEF CacheFits

LEMMA CacheWith ==
  ASSUME NEW q, NEW chain, NEW later, NEW used, NEW again,
         CacheFits(q, chain, used, again),
         NEW k \in Places, PastOrAt(k, later),
         \A i \in 1..Len(q) : q[i] # k /\ PastOrAt(q[i], later),
         \A j \in 1..Len(used) : used[j] # k
  PROVE  CacheFits(Append(q, k), later, used, again)
<1>1. q \in Seq(Places)
  BY DEF CacheFits
<1>2. /\ Append(q, k) \in Seq(Places) /\ Len(Append(q, k)) = Len(q) + 1
      /\ Append(q, k)[Len(q) + 1] = k
      /\ \A j \in 1..Len(q) : Append(q, k)[j] = q[j]
      /\ \A j \in 1..Len(q) + 1 : j \in 1..Len(q) \/ j = Len(q) + 1
  BY <1>1
<1> QED
  BY <1>2 DEF CacheFits

\* The cache with the key the chain stands at, whether the chain is advanced
\* past it or stays.
LEMMA CacheWithChain ==
  ASSUME RecvInv, recvChain.gen \in Nat, recvChain.n \in Nat,
         \A m \in 1..Len(cache) : cache[m].gen \in Nat /\ cache[m].n \in Nat,
         \A m \in 1..Len(opened) : opened[m].gen \in Nat /\ opened[m].n \in Nat,
         NEW later \in {recvChain, NextKey(recvChain)}
  PROVE  /\ CacheFits(Cache(recvChain), later, opened, twins)
         /\ later \in Places /\ later.gen = recvChain.gen
         /\ later.n \in {recvChain.n, recvChain.n + 1}
         /\ \A m \in 1..Len(opened) : Past(opened[m], later)
<1> USE DEF RecvInv, RecvTyped
<1>1. /\ later \in Places /\ later.gen = recvChain.gen
      /\ later.n \in {recvChain.n, recvChain.n + 1}
      /\ later.n = recvChain.n => later = recvChain
  BY DEF NextKey, Places
<1>2. /\ \A m \in 1..Len(opened) : opened[m] # recvChain /\ Past(opened[m], later)
      /\ \A m \in 1..Len(cache) : PastOrAt(cache[m], later)
      /\ PastOrAt(recvChain, later)
  <2>1. \A k : k.gen \in Nat /\ k.n \in Nat /\ Past(k, recvChain) =>
           k # recvChain /\ Past(k, later)
    BY <1>1 DEF Past, Places
  <2>2. PastOrAt(recvChain, later)
    BY <1>1 DEF Past, PastOrAt, Places
  <2>3. \A m \in 1..Len(cache) : Past(cache[m], recvChain) \/ cache[m] = recvChain
    BY DEF CacheFits, PastOrAt
  <2> QED
    BY <2>1, <2>2, <2>3 DEF PastOrAt
<1>3. CASE Cached(recvChain)
  <2>1. CacheFits(cache, later, opened, twins)
    BY <1>2 DEF CacheFits
  <2> QED
    BY <1>1, <1>2, <1>3, <2>1 DEF Cache
<1>4. CASE ~ Cached(recvChain)
  <2>1. \A m \in 1..Len(cache) : cache[m] # recvChain
    BY <1>4 DEF Cached, Contains, CacheFits
  <2>2. CacheFits(Append(cache, recvChain), later, opened, twins)
    BY <1>2, <2>1, CacheWith
  <2>3. cache \in Seq(Places) /\ Append(cache, recvChain) # <<>>
    BY DEF CacheFits
  <2>4. CacheFits(Tail(Append(cache, recvChain)), later, opened, twins)
    BY <2>2, <2>3, CacheWithoutFirst
  <2> QED
    BY <1>1, <1>2, <1>4, <2>2, <2>4 DEF Cache
<1> QED
  BY <1>3, <1>4

LEMMA RecvStep ==
  ASSUME MessageKeysAssumption, SendInv, RecvInv, [Next]_vars
  PROVE  RecvInv'
<1> USE DEF RecvInv, RecvTyped
<1>1. /\ recvChain.gen \in Nat /\ recvChain.n \in Nat
      /\ \A i \in 1..Len(opened) : opened[i].gen \in Nat /\ opened[i].n \in Nat
      /\ \A i \in 1..Len(cache) : cache[i].gen \in Nat /\ cache[i].n \in Nat
  <2>1. \A i \in 1..Len(opened) : opened[i] \in Keys
    OBVIOUS
  <2>2. \A i \in 1..Len(cache) : cache[i] \in Places
    BY DEF CacheFits
  <2> QED
    BY <2>1, <2>2, KeysArePlaces DEF Places
<1>2. ASSUME NEW i \in DOMAIN sent, OpenSkipped(sent[i]) PROVE RecvInv'
  <2> DEFINE k == sent[i]
  <2>1. k \in Keys /\ k # Nothing
    BY NothingIsNoKey DEF SendInv, SendTyped
  <2>2. PICK j \in 1..Len(cache) : cache[j] = k /\ cache' = RemoveAt(cache, j)
    BY <1>2 DEF OpenSkipped, CacheFits
  <2>3. /\ opening' = [key |-> k, step |-> "opening"]
        /\ UNCHANGED <<recvChain, opened, twins>>
    BY <1>2 DEF OpenSkipped, Begin
  <2>4. /\ CacheFits(cache', recvChain, opened, twins)
        /\ \A m \in 1..Len(cache') : cache'[m] # k
    BY <2>2, CacheWithout
  <2>5. \A m \in 1..Len(opened) : opened[m] = k => k \in twins
    BY <2>2 DEF CacheFits
  <2>6. Past(k, recvChain)
    BY <1>2 DEF OpenSkipped, Past
  <2> QED
    BY <2>1, <2>3, <2>4, <2>5, <2>6
<1>3. ASSUME NEW i \in DOMAIN sent, Open(sent[i]) PROVE RecvInv'
  <2>1. sent[i] \in Keys /\ sent[i] # Nothing
    BY NothingIsNoKey DEF SendInv, SendTyped
  <2> QED
    BY <1>3, <2>1 DEF Open, Begin
<1>4. CASE Skip
  <2>1. /\ opening.step = "skipping" /\ recvChain.n < opening.key.n
        /\ recvChain' = NextKey(recvChain)
        /\ cache' = Cache(recvChain) /\ UNCHANGED <<opening, opened, twins>>
    BY <1>4 DEF Skip
  <2>2. /\ CacheFits(cache', recvChain', opened, twins)
        /\ recvChain' \in Places /\ recvChain'.gen = recvChain.gen
        /\ recvChain'.n \in {recvChain.n, recvChain.n + 1}
        /\ \A m \in 1..Len(opened) : Past(opened[m], recvChain')
    BY <1>1, <2>1, CacheWithChain
  <2>3. opening.key.n \in Nat
    <3>1. opening.key \in Keys
      BY <2>1
    <3> QED
      BY <3>1, KeysArePlaces
  <2>4. opening.key.gen = recvChain'.gen /\ opening.key.n >= recvChain'.n
    BY <1>1, <2>1, <2>2, <2>3
  <2> QED
    BY <2>1, <2>2, <2>4
<1>f. CASE SkipFails
  <2>1. /\ recvChain' \in {recvChain, NextKey(recvChain)}
        /\ cache' = Cache(recvChain) /\ UNCHANGED <<opened, twins>>
        /\ opening' = [key |-> Nothing, step |-> "idle"]
    BY <1>f DEF SkipFails, EndOpening
  <2>2. /\ CacheFits(cache', recvChain', opened, twins)
        /\ recvChain' \in Places
        /\ \A m \in 1..Len(opened) : Past(opened[m], recvChain')
    BY <1>1, <2>1, CacheWithChain
  <2> QED
    BY <2>1, <2>2
<1>5. CASE Derive \/ DeriveFails
  <2>1. /\ opening.step = "skipping" /\ recvChain.n = opening.key.n
        /\ UNCHANGED <<cache, opened>> /\ recvChain.gen = opening.key.gen
        /\ opening.key \in Keys /\ twins \subseteq twins'
    BY <1>5 DEF Derive, DeriveFails
  <2>2. opening.key \in Places /\ opening.key # Nothing /\ opening.key = recvChain
    BY <2>1, KeysArePlaces, NothingIsNoKey DEF Places
  <2>3. /\ NextKey(recvChain) \in Places
        /\ NextKey(recvChain).gen = recvChain.gen
        /\ NextKey(recvChain).n = recvChain.n + 1
    BY <2>1 DEF NextKey, Places
  <2>4. \A k : k.gen \in Nat /\ k.n \in Nat /\ PastOrAt(k, recvChain) =>
          Past(k, NextKey(recvChain))
    BY <1>1, <2>3 DEF Past, PastOrAt
  <2>5. /\ \A m \in 1..Len(opened) :
             opened[m] # opening.key /\ Past(opened[m], NextKey(recvChain))
        /\ \A m \in 1..Len(cache) : PastOrAt(cache[m], NextKey(recvChain))
        /\ Past(opening.key, NextKey(recvChain))
    <3>1. \A m \in 1..Len(opened) : opened[m] # recvChain
      BY <1>1 DEF Past
    <3>2. \A m \in 1..Len(cache) : PastOrAt(cache[m], recvChain)
      BY DEF CacheFits
    <3> QED
      BY <1>1, <2>2, <2>4, <3>1, <3>2 DEF PastOrAt
  <2>6. /\ CacheFits(cache, NextKey(recvChain), opened, twins')
        /\ CacheFits(cache, recvChain, opened, twins')
    BY <2>1, <2>5 DEF CacheFits
  <2>7. CASE Derive
    <3>1. /\ recvChain' = NextKey(recvChain)
          /\ opening' = [key |-> opening.key, step |-> "opening"]
          /\ Cached(opening.key) => opening.key \in twins'
      BY <2>7 DEF Derive, Begin
    <3>2. \A m \in 1..Len(cache) : cache[m] = opening.key => opening.key \in twins'
      BY <3>1 DEF Cached, Contains, CacheFits
    <3> QED
      BY <2>1, <2>2, <2>3, <2>5, <2>6, <3>1, <3>2
  <2>8. CASE DeriveFails
    <3>1. /\ recvChain' \in {recvChain, NextKey(recvChain)}
          /\ opening' = [key |-> Nothing, step |-> "idle"]
      BY <2>8 DEF DeriveFails, EndOpening
    <3> QED
      BY <2>1, <2>3, <2>5, <2>6, <3>1
  <2> QED
    BY <1>5, <2>7, <2>8
<1>6. CASE Opened
  <2> DEFINE k == opening.key
  <2>1. /\ opening.step = "opening" /\ opened' = Append(opened, k)
        /\ opening' = [key |-> Nothing, step |-> "idle"]
        /\ UNCHANGED <<cache, recvChain, twins>>
    BY <1>6 DEF Opened, EndOpening
  <2>2. k \in Keys
    BY <2>1
  <2>3. /\ opened' \in Seq(Keys) /\ Len(opened') = Len(opened) + 1
        /\ opened'[Len(opened) + 1] = k
        /\ \A m \in 1..Len(opened) : opened'[m] = opened[m]
        /\ \A m \in 1..Len(opened') : m \in 1..Len(opened) \/ m = Len(opened) + 1
    BY <2>1, <2>2
  <2>4. \A m \in 1..Len(opened') : Past(opened'[m], recvChain)
    BY <2>1, <2>3
  <2>5. \A l, m \in 1..Len(opened') :
           opened'[l] = opened'[m] => l = m \/ opened'[l] \in twins
    BY <2>1, <2>3
  <2>6. CacheFits(cache, recvChain, opened', twins)
    BY <2>1, <2>3 DEF CacheFits
  <2> QED
    BY <2>1, <2>3, <2>4, <2>5, <2>6
<1>7. CASE OpenFails
  BY <1>7 DEF OpenFails, EndOpening
<1>8. CASE PruneCache
  <2>1. CacheFits(cache', recvChain, opened, twins)
    BY <1>8, CacheWithoutFirst DEF PruneCache
  <2>2. /\ UNCHANGED <<recvChain, opening, opened, twins>>
        /\ \A m \in 1..Len(cache') : \E l \in 1..Len(cache) : cache'[m] = cache[l]
    <3>1. cache \in Seq(Places) /\ cache # <<>> /\ cache' = Tail(cache)
      BY <1>8 DEF PruneCache, CacheFits
    <3>2. \A m \in 1..Len(Tail(cache)) :
             Tail(cache)[m] = cache[m + 1] /\ m + 1 \in 1..Len(cache)
      BY <3>1
    <3> QED
      BY <1>8, <3>1, <3>2 DEF PruneCache
  <2> QED
    BY <2>1, <2>2
<1>9. CASE RerootReceiver
  <2>1. /\ recvChain' \in Places /\ recvChain'.gen = recvChain.gen + 1
        /\ opening.step = "idle" /\ UNCHANGED <<cache, opening, opened, twins>>
    BY <1>9 DEF RerootReceiver, NewRoot, Places, AtRest
  <2>2. \A m \in 1..Len(opened) : Past(opened[m], recvChain')
    BY <1>1, <2>1 DEF Past
  <2>3. \A m \in 1..Len(cache) : PastOrAt(cache[m], recvChain)
    BY DEF CacheFits
  <2>4. ASSUME NEW m \in 1..Len(cache) PROVE PastOrAt(cache[m], recvChain')
    <3>1. cache[m].gen < recvChain.gen \/ cache[m].gen = recvChain.gen
      BY <2>3 DEF Past, PastOrAt
    <3>2. cache[m].gen < recvChain'.gen
      BY <1>1, <2>1, <3>1
    <3> QED
      BY <3>2 DEF Past, PastOrAt
  <2>5. CacheFits(cache, recvChain', opened, twins)
    BY <2>4 DEF CacheFits
  <2> QED
    BY <2>1, <2>2, <2>5
<1>10. CASE UNCHANGED <<recvChain, cache, opening, opened, twins>>
  BY <1>10
<1> QED
  BY <1>2, <1>3, <1>4, <1>f, <1>5, <1>6, <1>7, <1>8, <1>9, <1>10
     DEF Next, Receive, Seal, SealFails, Sealed, RerootSender, receiver, vars

LEMMA StepIInv ==
  ASSUME MessageKeysAssumption PROVE IInv /\ [Next]_vars => IInv'
BY SendStep, RecvStep DEF IInv

\* What the invariant says of the keys that were used.
LEMMA UsedOnce == IInv => EachKeySealsOnce /\ OpensOnce
<1>1. IInv => EachKeySealsOnce
  BY DEF IInv, SendInv, SendTyped, EachKeySealsOnce, IsInjective
<1>2. IInv => OpensOnce
  BY DEF IInv, RecvInv, RecvTyped, OpensOnce
<1> QED
  BY <1>1, <1>2

\* No two messages are sealed with the same key, however sealing calls fail,
\* overlap or follow a reroot (sealMessage under its lock).
THEOREM KeysSealOnce ==
  ASSUME MessageKeysAssumption PROVE Spec => []EachKeySealsOnce
BY UsedOnce, InitIInv, StepIInv, PTL DEF Spec

\* A message is opened at most once, however often and late it arrives, unless
\* its key was taken from the chain while a failed skip had left it in the cache
\* (openMessage, its cache and its chain).
THEOREM MessagesOpenOnce ==
  ASSUME MessageKeysAssumption PROVE Spec => []OpensOnce
BY UsedOnce, InitIInv, StepIInv, PTL DEF Spec

\* An opened message's key is behind the chain, and in nobody's hands unless it
\* is a twin.
LEMMA UsedAreGone ==
  ASSUME MessageKeysAssumption, IInv PROVE UsedKeysAreGone
<1> SUFFICES ASSUME NEW j \in 1..Len(opened)
             PROVE  /\ opened[j].gen < recvChain.gen \/ opened[j].n < recvChain.n
                    /\ \/ opened[j] \in twins
                       \/ ~ Cached(opened[j]) /\ opening.key # opened[j]
  BY DEF UsedKeysAreGone, ToSet, IInv, RecvInv, RecvTyped
<1> USE DEF IInv, RecvInv, RecvTyped
<1>1. Past(opened[j], recvChain) /\ opened[j] \in Keys
  OBVIOUS
<1>2. Cached(opened[j]) => opened[j] \in twins
  BY DEF Cached, Contains, CacheFits
<1>3. opening.key = opened[j] => opened[j] \in twins
  <2>1. CASE opening.step = "idle"
    BY <1>1, <2>1, NothingIsNoKey
  <2>2. CASE opening.step = "opening"
    BY <2>2
  <2>3. CASE opening.step = "skipping"
    <3>1. /\ recvChain.n \in Nat /\ recvChain.gen \in Nat
          /\ opened[j].n \in Nat /\ opened[j].gen \in Nat
      BY <1>1, KeysArePlaces DEF Places
    <3> QED
      BY <1>1, <2>3, <3>1 DEF Past
  <2> QED
    BY <2>1, <2>2, <2>3
<1> QED
  BY <1>1, <1>2, <1>3 DEF Past

\* The key of an opened message is nowhere to be had any more, a twin's in the
\* cache excepted (messageKeyManager._deriveReceiving and its cache).
THEOREM OpenedKeysAreGone ==
  ASSUME MessageKeysAssumption PROVE Spec => []UsedKeysAreGone
<1>1. IInv => UsedKeysAreGone
  BY UsedAreGone
<1> QED
  BY <1>1, InitIInv, StepIInv, PTL DEF Spec

\* The receiver can still come by the key k of its generation, or is done with it.
HasKey(k) ==
  \/ k.n >= recvChain.n \/ opening.key = k \/ k \in burnt
  \/ \E i \in 1..Len(cache) : cache[i] = k
  \/ \E j \in 1..Len(opened) : opened[j] = k

\* The receiving chain is not ahead of the sending one: it is moved on by
\* envelopes that were sealed, and by a reroot, which starts at number 0.
Following ==
  /\ recvChain.gen = sendChain.gen => recvChain.n <= sendChain.n
  /\ recvChain.gen > sendChain.gen => recvChain.n = 0
  /\ opening.step = "skipping" => \E i \in 1..Len(sent) : sent[i] = opening.key

LastInv ==
  /\ Following
  /\ \A i \in 1..Len(sent) : sent[i].gen = recvChain.gen => HasKey(sent[i])

LEMMA InitLast == ASSUME Init PROVE LastInv
BY DEF Init, LastInv, Following

\* What the senders and the receiver have are keys and places of natural numbers.
LEMMA NumbersOfKeys ==
  ASSUME MessageKeysAssumption, IInv
  PROVE  /\ sendChain.gen \in Nat /\ sendChain.n \in Nat
         /\ recvChain.gen \in Nat /\ recvChain.n \in Nat
         /\ \A i \in 1..Len(sent) :
              sent[i] \in Keys /\ sent[i].gen \in Nat /\ sent[i].n \in Nat
         /\ sent \in Seq(Keys) /\ opened \in Seq(Keys) /\ cache \in Seq(Places)
<1>1. sendChain \in Keys /\ recvChain \in Places
  BY DEF IInv, SendInv, SendTyped, RecvInv, RecvTyped
<1>2. \A i \in 1..Len(sent) : sent[i] \in Keys
  BY DEF IInv, SendInv, SendTyped
<1>3. sent \in Seq(Keys) /\ opened \in Seq(Keys) /\ cache \in Seq(Places)
  BY DEF IInv, SendInv, SendTyped, RecvInv, RecvTyped, CacheFits
<1> QED
  BY <1>1, <1>2, <1>3, KeysArePlaces DEF Places

\* A place is its generation and its number.
LEMMA PlaceIsBoth ==
  ASSUME NEW k \in Places, NEW c \in Places, k.gen = c.gen, k.n = c.n
  PROVE  k = c
BY DEF Places

LEMMA FollowingStep ==
  ASSUME MessageKeysAssumption, IInv, Following, [Next]_vars
  PROVE  Following'
<1>n. /\ sendChain.gen \in Nat /\ sendChain.n \in Nat
      /\ recvChain.gen \in Nat /\ recvChain.n \in Nat
      /\ sent \in Seq(Keys)
      /\ \A i \in 1..Len(sent) :
           sent[i] \in Keys /\ sent[i].gen \in Nat /\ sent[i].n \in Nat
  BY NumbersOfKeys
<1> USE DEF Following
<1>1. ASSUME NEW s \in Sealers, Sealed(s) PROVE Following'
  <2>1. /\ sendChain'.gen = sendChain.gen /\ sendChain'.n = sendChain.n + 1
        /\ UNCHANGED <<recvChain, opening>>
    BY <1>n, <1>1 DEF Sealed, NextKey, receiver, IInv, SendInv, SendTyped, Keys
  <2>2. \A i \in 1..Len(sent) : i \in 1..Len(sent') /\ sent'[i] = sent[i]
    <3>1. sealing[s] \in Keys
      BY <1>n, <1>1 DEF Sealed, IInv, SendInv, SendTyped
    <3> QED
      BY <1>n, <1>1, <3>1 DEF Sealed
  <2> QED
    BY <1>n, <2>1, <2>2
<1>2. CASE RerootSender
  <2>1. /\ sendChain'.gen = sendChain.gen + 1 /\ sendChain'.n = 0
        /\ UNCHANGED <<sent, recvChain, opening>>
    BY <1>n, <1>2 DEF RerootSender, NewRoot, receiver
  <2> QED
    BY <1>n, <2>1
<1>3. ASSUME NEW i \in DOMAIN sent, OpenSkipped(sent[i]) \/ Open(sent[i]) PROVE Following'
  BY <1>n, <1>3 DEF OpenSkipped, Open, Begin, sender
<1>4. CASE Skip \/ SkipFails \/ Derive \/ DeriveFails
  <2>1. /\ opening.step = "skipping" /\ recvChain.n <= opening.key.n
        /\ recvChain'.gen = recvChain.gen
        /\ recvChain'.n \in {recvChain.n, recvChain.n + 1}
        /\ UNCHANGED <<sendChain, sent>>
        /\ opening'.step = "skipping" => opening' = opening
    <3>1. opening.step = "skipping" => opening.key \in Keys
      BY <1>n DEF IInv, RecvInv, RecvTyped
    <3>2. opening.step = "skipping" => opening.key.n \in Nat
      BY <1>n, <3>1, KeysArePlaces
    <3> QED
      BY <1>n, <1>4, <3>2 DEF Skip, SkipFails, Derive, DeriveFails, Begin, EndOpening,
         NextKey, sender, IInv, RecvInv, RecvTyped, Places
  <2>2. PICK i \in 1..Len(sent) : sent[i] = opening.key
    BY <1>n, <2>1
  <2>3. opening.key.gen = recvChain.gen /\ Past(sent[i], sendChain)
    BY <1>n, <2>1 DEF IInv, RecvInv, SendInv
  <2> QED
    BY <1>n, <2>1, <2>2, <2>3 DEF Past
<1>5. CASE RerootReceiver
  BY <1>n, <1>5 DEF RerootReceiver, NewRoot, sender
<1>6. CASE UNCHANGED <<sendChain, sent, recvChain>> /\ (opening'.step = "skipping" => opening' = opening)
  BY <1>n, <1>6
<1> QED
  BY <1>n, <1>1, <1>2, <1>3, <1>4, <1>5, <1>6
     DEF Next, Receive, Seal, SealFails, Opened, OpenFails, EndOpening, PruneCache,
         sender, receiver, vars

LEMMA LastStep ==
  ASSUME MessageKeysAssumption, IInv, LastInv, [Next]_vars
  PROVE  LastInv'
<1>n. /\ recvChain.gen \in Nat /\ recvChain.n \in Nat
      /\ \A i \in 1..Len(sent) :
           sent[i] \in Keys /\ sent[i].gen \in Nat /\ sent[i].n \in Nat
      /\ sent \in Seq(Keys) /\ opened \in Seq(Keys) /\ cache \in Seq(Places)
  BY NumbersOfKeys
<1>0. Following'
  BY <1>n, FollowingStep DEF LastInv
<1>s. \A i \in 1..Len(sent) : sent[i] # Nothing
  BY <1>n, NothingIsNoKey
<1>1. ASSUME NEW s \in Sealers, Sealed(s) PROVE LastInv'
  <2>1. /\ sealing[s] = sendChain /\ UNCHANGED <<recvChain, cache, opening, opened, burnt>>
    BY <1>n, <1>1 DEF Sealed, receiver, IInv, SendInv
  <2>2. \A i \in 1..Len(sent') : \/ i \in 1..Len(sent) /\ sent'[i] = sent[i]
                                 \/ sent'[i] = sendChain
    <3>1. sealing[s] \in Keys
      BY <1>n, <1>1 DEF Sealed, IInv, SendInv, SendTyped
    <3> QED
      BY <1>n, <1>1, <2>1, <3>1 DEF Sealed
  <2>3. sendChain.gen = recvChain.gen => sendChain.n >= recvChain.n
    BY <1>n DEF LastInv, Following
  <2> QED
    BY <1>n, <1>0, <2>1, <2>2, <2>3 DEF LastInv, HasKey
<1>3. ASSUME NEW m \in DOMAIN sent, OpenSkipped(sent[m]) PROVE LastInv'
  <2> DOMAIN cache = 1..Len(cache)
    BY <1>n
  <2>1. PICK j \in 1..Len(cache) : cache[j] = sent[m] /\ cache' = RemoveAt(cache, j)
    BY <1>3 DEF OpenSkipped
  <2>2. /\ opening.key = Nothing /\ opening'.key = sent[m]
        /\ UNCHANGED <<sent, recvChain, opened, burnt>>
    BY <1>n, <1>3 DEF OpenSkipped, AtRest, Begin, sender
  <2>3. ASSUME NEW i \in 1..Len(cache), cache[i] # sent[m]
        PROVE  \E l \in 1..Len(cache') : cache'[l] = cache[i]
    <3>1. /\ Len(cache') = Len(cache) - 1 /\ cache' \in Seq(Places)
          /\ \A l \in 1..Len(cache) - 1 :
               cache'[l] = IF l < j THEN cache[l] ELSE cache[l + 1]
      BY <1>n, <2>1, Removed
    <3>2. i # j
      BY <1>n, <2>1, <2>3
    <3>3. CASE i < j
      <4>1. i \in 1..Len(cache')
        BY <1>n, <3>1, <3>3
      <4> QED
        BY <1>n, <3>1, <3>3, <4>1
    <3>4. CASE i > j
      <4>1. i - 1 \in 1..Len(cache') /\ ~ (i - 1 < j) /\ i - 1 + 1 = i
        BY <1>n, <3>1, <3>4
      <4>2. cache'[i - 1] = cache[i]
        BY <1>n, <3>1, <4>1
      <4> QED
        BY <1>n, <4>1, <4>2
    <3>5. i \in Int /\ j \in Int
      OBVIOUS
    <3> QED
      BY <3>2, <3>3, <3>4, <3>5
  <2>4. ASSUME NEW i \in 1..Len(sent), sent[i].gen = recvChain.gen
        PROVE  HasKey(sent[i])'
    <3>1. HasKey(sent[i]) /\ sent[i] # Nothing
      BY <1>s, <2>4 DEF LastInv
    <3>2. CASE sent[i] = sent[m]
      BY <2>2, <3>2 DEF HasKey
    <3>3. CASE sent[i] # sent[m] /\ \E l \in 1..Len(cache) : cache[l] = sent[i]
      <4>1. \E l \in 1..Len(cache') : cache'[l] = sent[i]
        BY <2>3, <3>3
      <4> QED
        BY <2>2, <4>1 DEF HasKey
    <3>4. CASE ~ \E l \in 1..Len(cache) : cache[l] = sent[i]
      BY <2>2, <3>1, <3>4 DEF HasKey
    <3> QED
      BY <3>2, <3>3, <3>4
  <2> QED
    BY <1>0, <2>2, <2>4 DEF LastInv
<1>4. ASSUME NEW m \in DOMAIN sent, Open(sent[m]) PROVE LastInv'
  BY <1>n, <1>0, <1>4, <1>s DEF Open, AtRest, Begin, sender, LastInv, HasKey
<1>5. CASE Skip \/ SkipFails
  <2>1. /\ recvChain'.gen = recvChain.gen
        /\ recvChain'.n \in {recvChain.n, recvChain.n + 1}
        /\ cache' = Cache(recvChain) /\ burnt' = burnt \cup Evicted
        /\ UNCHANGED <<sent, opened>>
        /\ opening.key.n > recvChain.n
    BY <1>n, <1>5 DEF Skip, SkipFails, NextKey, sender, IInv, RecvInv, RecvTyped, Places
  <2>2. recvChain \in Places
    BY <1>n DEF IInv, RecvInv, RecvTyped
  <2> DEFINE longer == IF Cached(recvChain) THEN cache ELSE Append(cache, recvChain)
  <2>3. /\ longer \in Seq(Places) /\ Len(longer) \in {Len(cache), Len(cache) + 1}
        /\ \E i \in 1..Len(longer) : longer[i] = recvChain
        /\ \A i \in 1..Len(cache) : longer[i] = cache[i]
    <3>1. CASE Cached(recvChain)
      BY <1>n, <3>1 DEF Cached, Contains
    <3>2. CASE ~ Cached(recvChain)
      <4>1. longer = Append(cache, recvChain)
        BY <3>2
      <4>2. /\ Append(cache, recvChain) \in Seq(Places)
            /\ Len(Append(cache, recvChain)) = Len(cache) + 1
            /\ Append(cache, recvChain)[Len(cache) + 1] = recvChain
            /\ \A i \in 1..Len(cache) : Append(cache, recvChain)[i] = cache[i]
            /\ Len(cache) + 1 \in 1..Len(cache) + 1
        BY <1>n, <2>2
      <4> QED
        BY <4>1, <4>2
    <3> QED
      BY <3>1, <3>2
  <2>4. \A i \in 1..Len(longer) :
          longer[i] \in burnt' \/ \E l \in 1..Len(cache') : cache'[l] = longer[i]
    <3>1. CASE Cached(recvChain) \/ Len(cache) < CacheLimit
      BY <1>n, <2>1, <3>1 DEF Cache
    <3>2. CASE ~ (Cached(recvChain) \/ Len(cache) < CacheLimit)
      <4>1. cache' = Tail(longer) /\ Head(longer) \in burnt'
        BY <1>n, <2>1, <3>2 DEF Cache, Evicted
      <4> HIDE DEF longer
      <4>2. /\ Head(longer) = longer[1] /\ Len(Tail(longer)) = Len(longer) - 1
            /\ \A l \in 1..Len(longer) - 1 : Tail(longer)[l] = longer[l + 1]
        BY <1>n, <2>3
      <4>3. ASSUME NEW i \in 1..Len(longer), i # 1
            PROVE  \E l \in 1..Len(cache') : cache'[l] = longer[i]
        <5>1. i - 1 \in 1..Len(longer) - 1 /\ i - 1 + 1 = i
          BY <1>n, <2>3, <4>3
        <5> QED
          BY <1>n, <4>1, <4>2, <5>1
      <4> QED
        BY <1>n, <4>1, <4>2, <4>3
    <3> QED
      BY <1>n, <3>1, <3>2
  <2>5. \A i \in 1..Len(cache) : i \in 1..Len(longer)
    BY <1>n, <2>3
  <2> HIDE DEF longer
  <2>6. ASSUME NEW i \in 1..Len(sent), sent[i].gen = recvChain.gen PROVE HasKey(sent[i])'
    <3>1. HasKey(sent[i])
      BY <1>n, <2>6 DEF LastInv
    <3>2. CASE sent[i].n = recvChain.n
      <4>1. sent[i] = recvChain
        BY <1>n, <2>2, <2>6, <3>2, KeysArePlaces, PlaceIsBoth
      <4>2. \/ sent[i] \in burnt'
            \/ \E l \in 1..Len(cache') : cache'[l] = sent[i]
        BY <2>3, <2>4, <4>1
      <4> QED
        BY <2>1, <4>2 DEF HasKey
    <3>3. CASE sent[i].n # recvChain.n /\ sent[i].n >= recvChain.n
      BY <1>n, <2>1, <3>3 DEF HasKey
    <3>4. ASSUME NEW j \in 1..Len(cache), cache[j] = sent[i] PROVE HasKey(sent[i])'
      <4>1. longer[j] = sent[i] /\ j \in 1..Len(longer)
        BY <2>3, <2>5, <3>4
      <4>2. sent[i] \in burnt' \/ \E l \in 1..Len(cache') : cache'[l] = sent[i]
        BY <2>4, <4>1
      <4> QED
        BY <2>1, <4>2 DEF HasKey
    <3>5. CASE \/ sent[i] \in burnt
               \/ \E j \in 1..Len(opened) : opened[j] = sent[i]
      BY <2>1, <3>5 DEF HasKey
    <3>7. CASE opening.key = sent[i]
      <4>1. sent[i].n >= recvChain'.n
        BY <1>n, <2>1, <3>7
      <4> QED
        BY <2>1, <4>1 DEF HasKey
    <3>6. sent[i].n >= recvChain.n \/ ~ sent[i].n >= recvChain.n
      OBVIOUS
    <3> QED
      BY <3>1, <3>2, <3>3, <3>4, <3>5, <3>6, <3>7 DEF HasKey
  <2> QED
    BY <1>n, <1>0, <2>1, <2>6 DEF LastInv
<1>6. CASE Derive
  <2>1. /\ recvChain'.gen = recvChain.gen /\ recvChain'.n = recvChain.n + 1
        /\ opening.step = "skipping" /\ recvChain.n = opening.key.n
        /\ opening'.key = opening.key
        /\ UNCHANGED <<sent, cache, opened, burnt>>
    BY <1>n, <1>6 DEF Derive, Begin, NextKey, sender, IInv, RecvInv, RecvTyped, Places
  <2>2. opening.key \in Keys /\ opening.key.gen = recvChain.gen
    BY <1>n, <2>1 DEF IInv, RecvInv, RecvTyped
  <2>3. ASSUME NEW i \in 1..Len(sent), sent[i].gen = recvChain.gen PROVE HasKey(sent[i])'
    <3>1. HasKey(sent[i])
      BY <1>n, <2>3 DEF LastInv
    <3>2. CASE sent[i].n = recvChain.n
      <4>1. sent[i] = opening.key
        BY <1>n, <2>1, <2>2, <2>3, <3>2, KeysArePlaces, PlaceIsBoth
      <4> QED
        BY <1>n, <2>1, <4>1 DEF HasKey
    <3>3. CASE sent[i].n # recvChain.n /\ sent[i].n >= recvChain.n
      BY <1>n, <2>1, <2>3, <3>3 DEF HasKey
    <3>4. CASE ~ sent[i].n >= recvChain.n
      BY <2>1, <3>1, <3>4 DEF HasKey
    <3> QED
      BY <3>2, <3>3, <3>4
  <2> QED
    BY <1>n, <1>0, <2>1, <2>3 DEF LastInv
<1>f. CASE DeriveFails
  <2>1. /\ opening.step = "skipping" /\ recvChain.n = opening.key.n
        /\ recvChain'.gen = recvChain.gen
        /\ \/ recvChain' = recvChain /\ burnt' = burnt
           \/ recvChain'.n = recvChain.n + 1 /\ burnt' = burnt \cup {opening.key}
        /\ UNCHANGED <<sent, cache, opened>>
    BY <1>n, <1>f DEF DeriveFails, NextKey, sender, IInv, RecvInv, RecvTyped, Places
  <2>2. opening.key \in Keys /\ opening.key.gen = recvChain.gen
    BY <1>n, <2>1 DEF IInv, RecvInv, RecvTyped
  <2>3. ASSUME NEW i \in 1..Len(sent), sent[i].gen = recvChain.gen PROVE HasKey(sent[i])'
    <3>1. HasKey(sent[i])
      BY <1>n, <2>3 DEF LastInv
    <3>2. CASE sent[i].n = recvChain.n
      <4>1. sent[i] = opening.key
        BY <1>n, <2>1, <2>2, <2>3, <3>2, KeysArePlaces, PlaceIsBoth
      <4> QED
        BY <1>n, <2>1, <3>2, <4>1 DEF HasKey
    <3>3. CASE sent[i].n # recvChain.n /\ sent[i].n >= recvChain.n
      BY <1>n, <2>1, <2>3, <3>3 DEF HasKey
    <3>4. CASE ~ sent[i].n >= recvChain.n
      <4>1. opening.key # sent[i]
        BY <1>n, <2>1, <3>4
      <4> QED
        BY <2>1, <3>1, <3>4, <4>1 DEF HasKey
    <3> QED
      BY <3>2, <3>3, <3>4
  <2> QED
    BY <1>n, <1>0, <2>1, <2>3 DEF LastInv
<1>7. CASE Opened
  <2>1. /\ opening.key \in Keys /\ opened' = Append(opened, opening.key)
        /\ UNCHANGED <<sent, recvChain, cache, burnt>>
    BY <1>n, <1>7 DEF Opened, sender, IInv, RecvInv, RecvTyped
  <2>2. /\ Len(opened') = Len(opened) + 1 /\ opened'[Len(opened')] = opening.key
        /\ \A j \in 1..Len(opened) : opened'[j] = opened[j]
    BY <1>n, <2>1
  <2>3. Len(opened') \in 1..Len(opened') /\ \A j \in 1..Len(opened) : j \in 1..Len(opened')
    BY <1>n, <2>2
  <2>4. ASSUME NEW i \in 1..Len(sent), HasKey(sent[i]) PROVE HasKey(sent[i])'
    BY <2>1, <2>2, <2>3, <2>4 DEF HasKey
  <2> QED
    BY <1>0, <2>1, <2>4 DEF LastInv
<1>8. CASE OpenFails
  BY <1>n, <1>0, <1>8 DEF OpenFails, sender, LastInv, HasKey
<1>9. CASE PruneCache
  <2>1. /\ cache # <<>> /\ cache' = Tail(cache) /\ burnt' = burnt \cup {Head(cache)}
        /\ UNCHANGED <<sent, recvChain, opening, opened>>
    BY <1>n, <1>9 DEF PruneCache, sender
  <2>2. /\ Head(cache) = cache[1] /\ Len(cache') = Len(cache) - 1
        /\ \A l \in 1..Len(cache) - 1 : cache'[l] = cache[l + 1]
    BY <1>n, <2>1
  <2>3. ASSUME NEW i \in 1..Len(cache)
        PROVE  cache[i] \in burnt' \/ \E l \in 1..Len(cache') : cache'[l] = cache[i]
    <3>1. CASE i = 1
      BY <1>n, <2>1, <2>2, <3>1
    <3>2. CASE i # 1
      <4>1. i - 1 \in 1..Len(cache) - 1 /\ i - 1 + 1 = i
        BY <1>n, <3>2
      <4> QED
        BY <1>n, <2>2, <4>1
    <3> QED
      BY <1>n, <3>1, <3>2
  <2>4. burnt \subseteq burnt'
    BY <2>1
  <2>5. ASSUME NEW i \in 1..Len(sent), HasKey(sent[i]) PROVE HasKey(sent[i])'
    <3>1. ASSUME NEW l \in 1..Len(cache), cache[l] = sent[i] PROVE HasKey(sent[i])'
      BY <2>1, <2>3, <3>1 DEF HasKey
    <3> QED
      BY <2>1, <2>4, <2>5, <3>1 DEF HasKey
  <2> QED
    BY <1>0, <2>1, <2>5 DEF LastInv
<1>10. CASE RerootReceiver
  BY <1>n, <1>0, <1>10 DEF RerootReceiver, NewRoot, sender, LastInv, HasKey
<1>11. CASE UNCHANGED <<sent, recvChain, cache, opening, opened, burnt>>
  BY <1>n, <1>0, <1>11 DEF LastInv, HasKey
<1> QED
  BY <1>n, <1>1, <1>3, <1>4, <1>5, <1>6, <1>f, <1>7, <1>8, <1>9, <1>10, <1>11
     DEF Next, Receive, Seal, SealFails, RerootSender, receiver, vars

LEMMA LastMeans ==
  ASSUME MessageKeysAssumption, IInv, LastInv PROVE KeyStillAvailable
<1>1. ASSUME NEW i \in 1..Len(sent), sent[i].gen = recvChain.gen
      PROVE  \/ sent[i].n >= recvChain.n \/ Cached(sent[i]) \/ opening.key = sent[i]
             \/ sent[i] \in ToSet(opened) \cup burnt
  <2>1. opened \in Seq(Keys) /\ cache \in Seq(Places)
    BY NumbersOfKeys
  <2> QED
    BY <1>1, <2>1 DEF LastInv, HasKey, Cached, Contains, ToSet
<1>2. sent \in Seq(Keys)
  BY NumbersOfKeys
<1> QED
  BY <1>1, <1>2 DEF KeyStillAvailable, ToSet

\* Until a message was opened or its key given up the receiver can come by the
\* key, however messages are skipped, come late or again (openMessage and the
\* cache of skipped keys).
THEOREM KeysLast ==
  ASSUME MessageKeysAssumption PROVE Spec => []KeyStillAvailable
<1>1. Init => IInv /\ LastInv
  BY InitIInv, InitLast
<1>2. (IInv /\ LastInv) /\ [Next]_vars => (IInv /\ LastInv)'
  BY StepIInv, LastStep
<1>3. IInv /\ LastInv => KeyStillAvailable
  BY LastMeans
<1> QED
  BY <1>1, <1>2, <1>3, PTL DEF Spec

-----------------------------------------------------------------------------
(* The session and its keys (SecureSession). *)

Status == {"created"} \cup Session!Usable \cup Session!Ended \cup Session!Missing
Moves == [op : {"move"}, from : Status, to : Session!Operations]
Rekeys == [op : {"derive", "rekey"}, generation : 0..MaxRekeys]
Others == [op : {"establish", "wipe", "destroy"}]

SessionTyped ==
  /\ session \in [status : Status, generation : 0..MaxRekeys]
  /\ keys \in 0..MaxRekeys \cup {Session!NoKeys}
  /\ calls \in [Callers -> {Session!Idle} \cup Moves \cup Rekeys \cup Others]

\* The keys are stored only while the session is being created, when no other
\* operation is under way, and nobody destroys it before that is over.
KeysInTime(c) ==
  /\ session.status = "none" => calls[c].op = "idle"
  /\ calls[c].op = "establish" =>
       /\ session.status = "created"
       /\ \A d \in Callers : d # c => calls[d].op = "idle"
  /\ calls[c].op = "destroy" =>
       session.status \notin {"none", "created"} /\ keys = Session!NoKeys

\* The keys of a closed session are gone or about to be wiped.
KeysEnd ==
  /\ session.status = "closed" =>
       keys = Session!NoKeys \/ \E c \in Callers : calls[c].op = "wipe"
  /\ session.status = "destroyed" => keys = Session!NoKeys

SessionInv == SessionTyped /\ (\A c \in Callers : KeysInTime(c)) /\ KeysEnd

LEMMA InitSession == ASSUME Session!SecureSessionAssumption PROVE Session!Init => SessionInv
<1> SUFFICES ASSUME Session!Init PROVE SessionInv
  OBVIOUS
<1>1. SessionTyped
  BY DEF Session!Init, SessionTyped, Status, Session!Missing,
     Session!SecureSessionAssumption
<1>2. \A c \in Callers : KeysInTime(c)
  BY DEF Session!Init, KeysInTime, Session!Idle
<1>3. KeysEnd
  BY DEF Session!Init, KeysEnd
<1> QED
  BY <1>1, <1>2, <1>3 DEF SessionInv

LEMMA SessionChanged ==
  ASSUME SessionTyped, NEW c \in Callers, NEW call, Session!Busy(c, call)
  PROVE  calls'[c] = call /\ \A d \in Callers : d # c => calls'[d] = calls[d]
BY DEF SessionTyped, Session!Busy

LEMMA SessionTypedStep ==
  ASSUME Session!SecureSessionAssumption
  PROVE  SessionTyped /\ [Session!Next]_Session!vars => SessionTyped'
<1> SUFFICES ASSUME SessionTyped, [Session!Next]_Session!vars PROVE SessionTyped'
  OBVIOUS
<1> USE DEF SessionTyped
<1>1. ASSUME NEW c \in Callers,
             NEW call \in {Session!Idle} \cup Moves \cup Rekeys \cup Others,
             Session!Busy(c, call)
      PROVE  calls' \in [Callers -> {Session!Idle} \cup Moves \cup Rekeys \cup Others]
  BY <1>1 DEF Session!Busy
<1>2. CASE Session!Restart
  BY <1>2 DEF Session!Restart
<1>3. ASSUME NEW c \in Callers, Session!Establish(c) \/ Session!StoreKeys(c)
      PROVE  SessionTyped'
  <2>1. CASE Session!Establish(c)
    BY <1>1, <2>1 DEF Session!Establish, Others, Status
  <2>2. CASE Session!StoreKeys(c)
    <3>1. Session!Moving("created", "active") \in Moves
      BY DEF Session!Moving, Moves, Status, Session!Operations
    <3> QED
      BY <1>1, <2>2, <3>1 DEF Session!StoreKeys, Session!SecureSessionAssumption
  <2> QED
    BY <1>3, <2>1, <2>2
<1>4. ASSUME NEW c \in Callers, Session!Write(c) PROVE SessionTyped'
  <2>1. calls[c] \in Moves
    BY <1>4 DEF Session!Write, Session!Idle, Rekeys, Others
  <2>2. calls[c].to \in Session!Operations /\ calls[c].to \in Status
    BY <2>1 DEF Moves, Session!Operations, Status, Session!Usable, Session!Ended
  <2>3. session' \in [status : Status, generation : 0..MaxRekeys]
    BY <1>4, <2>2 DEF Session!Write
  <2>4. \E call \in {Session!Idle} \cup Moves \cup Rekeys \cup Others : Session!Busy(c, call)
    <3>1. CASE calls[c].to = "resumed"
      <4>1. Session!Moving("resumed", "active") \in Moves
        BY DEF Session!Moving, Moves, Status, Session!Usable, Session!Operations
      <4>2. Session!Busy(c, Session!Moving("resumed", "active"))
        BY <1>4, <3>1 DEF Session!Write
      <4> QED
        BY <4>1, <4>2
    <3>2. CASE calls[c].to = "closed"
      <4>1. Session!Busy(c, [op |-> "wipe"])
        BY <1>4, <3>2 DEF Session!Write
      <4> QED
        BY <4>1 DEF Others
    <3>3. CASE calls[c].to \notin {"resumed", "closed"}
      <4>1. Session!Busy(c, Session!Idle)
        BY <1>4, <3>3 DEF Session!Write
      <4> QED
        BY <4>1
    <3> QED
      BY <3>1, <3>2, <3>3
  <2> QED
    BY <1>1, <1>4, <2>3, <2>4 DEF Session!Write
<1>5. ASSUME NEW c \in Callers, Session!WriteMissing(c) \/ Session!Wipe(c)
      PROVE  SessionTyped'
  BY <1>1, <1>5 DEF Session!WriteMissing, Session!Wipe
<1>6. ASSUME NEW c \in Callers, Session!Destroy(c) \/ Session!DestroyWrite(c)
      PROVE  SessionTyped'
  BY <1>1, <1>6 DEF Session!Destroy, Session!DestroyWrite, Others, Status,
     Session!Missing
<1>7. ASSUME NEW c \in Callers, Session!Rekey(c) PROVE SessionTyped'
  <2>1. [op |-> "derive", generation |-> session.generation + 1] \in Rekeys
    BY <1>7 DEF Session!Rekey, Rekeys, Session!SecureSessionAssumption
  <2> QED
    BY <1>1, <1>7, <2>1 DEF Session!Rekey
<1>8. ASSUME NEW c \in Callers, Session!ReplaceKeys(c) \/ Session!RekeyWrite(c)
      PROVE  SessionTyped'
  <2>1. calls[c] \in Rekeys
    BY <1>8 DEF Session!ReplaceKeys, Session!RekeyWrite, Session!Idle, Moves, Others
  <2>2. [calls[c] EXCEPT !.op = "rekey"] \in Rekeys
    BY <2>1 DEF Rekeys
  <2>3. calls[c].generation \in 0..MaxRekeys
    BY <2>1 DEF Rekeys
  <2>4. CASE Session!ReplaceKeys(c)
    BY <1>1, <2>2, <2>3, <2>4 DEF Session!ReplaceKeys
  <2>5. CASE Session!RekeyWrite(c)
    BY <1>1, <2>3, <2>5 DEF Session!RekeyWrite
  <2> QED
    BY <1>8, <2>4, <2>5
<1>9. ASSUME NEW c \in Callers, NEW to \in Session!Operations, Session!Decide(c, to)
      PROVE  SessionTyped'
  <2>1. Session!Moving(session.status, to) \in Moves
    BY DEF Session!Moving, Moves
  <2> QED
    BY <1>1, <1>9, <2>1 DEF Session!Decide
<1>10. CASE UNCHANGED Session!vars
  BY <1>10 DEF Session!vars
<1> QED
  BY <1>2, <1>3, <1>4, <1>5, <1>6, <1>7, <1>8, <1>9, <1>10 DEF Session!Next

\* One step, one operation at a time; the typing is TypedStep's.
LEMMA SessionKeysStep ==
  ASSUME Session!SecureSessionAssumption, SessionInv, [Session!Next]_Session!vars
  PROVE  (\A d \in Callers : KeysInTime(d)') /\ KeysEnd'
<1> USE DEF KeysInTime, KeysEnd
<1>1. SessionTyped /\ KeysEnd /\ \A d \in Callers : KeysInTime(d)
  BY DEF SessionInv
<1> DEFINE Goal == (\A d \in Callers : KeysInTime(d)') /\ KeysEnd'
<1>2. CASE Session!Restart
  BY <1>1, <1>2 DEF Session!Restart, Session!Idle
<1>3. ASSUME NEW c \in Callers, Session!Establish(c) PROVE Goal
  <2>1. /\ session.status = "none" /\ session'.status = "created"
        /\ keys' = keys /\ Session!Busy(c, [op |-> "establish"])
    BY <1>1, <1>3 DEF Session!Establish, SessionTyped
  <2> QED
    BY <1>1, <2>1, SessionChanged
<1>4. ASSUME NEW c \in Callers, Session!StoreKeys(c) PROVE Goal
  <2>1. /\ session.status = "created" /\ session' = session
        /\ calls[c].op = "establish" /\ Session!Busy(c, Session!Moving("created", "active"))
    BY <1>1, <1>4 DEF Session!StoreKeys
  <2>2. /\ calls'[c].op = "move"
        /\ \A d \in Callers : d # c => calls'[d] = calls[d]
    BY <1>1, <2>1, SessionChanged DEF Session!Moving
  <2> QED
    BY <1>1, <2>1, <2>2
<1>5. ASSUME NEW c \in Callers, Session!Write(c) PROVE Goal
  <2>1. calls[c] \in Moves
    BY <1>1, <1>5 DEF Session!Write, SessionTyped, Session!Idle, Rekeys, Others
  <2>2. /\ session.status \notin Session!Missing /\ keys' = keys
        /\ session'.status = calls[c].to /\ calls[c].to \in Session!Operations
    BY <1>1, <1>5, <2>1 DEF Session!Write, SessionTyped, Moves
  <2>3. PICK call : Session!Busy(c, call) /\ call.op \notin {"establish", "destroy"}
                    /\ (calls[c].to = "closed" => call.op = "wipe")
    BY <1>5 DEF Session!Write, Session!Moving, Session!Idle
  <2>4. /\ calls'[c] = call
        /\ \A d \in Callers : d # c => calls'[d] = calls[d]
    BY <1>1, <2>3, SessionChanged
  <2>5. \A d \in Callers : KeysInTime(d)'
    BY <1>1, <2>1, <2>2, <2>3, <2>4 DEF Session!Operations, Moves, Session!Missing
  <2>6. KeysEnd'
    BY <2>2, <2>3, <2>4 DEF Session!Operations
  <2> QED
    BY <2>5, <2>6
<1>6. ASSUME NEW c \in Callers, Session!WriteMissing(c) PROVE Goal
  BY <1>1, <1>6, SessionChanged DEF Session!WriteMissing, Session!Idle
<1>7. ASSUME NEW c \in Callers, Session!Wipe(c) PROVE Goal
  BY <1>1, <1>7, SessionChanged DEF Session!Wipe, Session!Idle
<1>8. ASSUME NEW c \in Callers, Session!Destroy(c) PROVE Goal
  <2>1. /\ session.status \in Session!Usable \cup Session!Ended /\ session' = session
        /\ keys' = Session!NoKeys /\ calls[c].op = "idle"
        /\ Session!Busy(c, [op |-> "destroy"])
    BY <1>8 DEF Session!Destroy, Session!Free, Session!Idle
  <2>2. /\ calls'[c].op = "destroy"
        /\ \A d \in Callers : d # c => calls'[d] = calls[d]
    BY <1>1, <2>1, SessionChanged
  <2>3. session.status \notin {"none", "created"}
    BY <2>1 DEF Session!Usable, Session!Ended
  <2> QED
    BY <1>1, <2>1, <2>2, <2>3
<1>9. ASSUME NEW c \in Callers, Session!DestroyWrite(c) PROVE Goal
  <2>1. /\ session'.status = "destroyed" /\ keys' = Session!NoKeys /\ keys = Session!NoKeys
        /\ session.status # "created" /\ Session!Busy(c, Session!Idle)
    BY <1>1, <1>9 DEF Session!DestroyWrite, SessionTyped
  <2> QED
    BY <1>1, <2>1, SessionChanged DEF Session!Idle
<1>10. ASSUME NEW c \in Callers, Session!Rekey(c) PROVE Goal
  <2>1. /\ session.status \in Session!Usable /\ calls[c].op = "idle"
        /\ UNCHANGED <<session, keys>>
        /\ Session!Busy(c, [op |-> "derive", generation |-> session.generation + 1])
    BY <1>10 DEF Session!Rekey, Session!Free, Session!Idle
  <2>2. /\ calls'[c].op = "derive"
        /\ \A d \in Callers : d # c => calls'[d] = calls[d]
    BY <1>1, <2>1, SessionChanged
  <2>3. session.status \notin {"none", "created"}
    BY <2>1 DEF Session!Usable
  <2> QED
    BY <1>1, <2>1, <2>2, <2>3
<1>11. ASSUME NEW c \in Callers, Session!ReplaceKeys(c) PROVE Goal
  <2>1. PICK call : Session!Busy(c, call) /\ call.op \in {"idle", "rekey"}
    <3>1. calls[c] \in Rekeys
      BY <1>1, <1>11 DEF Session!ReplaceKeys, SessionTyped, Session!Idle, Moves, Others
    <3>2. [calls[c] EXCEPT !.op = "rekey"].op = "rekey"
      BY <3>1 DEF Rekeys
    <3>3. CASE keys = Session!NoKeys
      <4>1. Session!Busy(c, Session!Idle) /\ Session!Idle.op = "idle"
        BY <1>11, <3>3 DEF Session!ReplaceKeys, Session!Idle
      <4> QED
        BY <4>1
    <3>4. CASE keys # Session!NoKeys
      <4>1. Session!Busy(c, [calls[c] EXCEPT !.op = "rekey"])
        BY <1>11, <3>4 DEF Session!ReplaceKeys
      <4> QED
        BY <3>2, <4>1
    <3> QED
      BY <3>3, <3>4
  <2>2. session' = session /\ (keys = Session!NoKeys => keys' = Session!NoKeys)
        /\ calls[c].op = "derive"
    BY <1>11 DEF Session!ReplaceKeys
  <2> QED
    BY <1>1, <2>1, <2>2, SessionChanged
<1>12. ASSUME NEW c \in Callers, Session!RekeyWrite(c) PROVE Goal
  <2>1. /\ session'.status = session.status /\ keys' = keys
        /\ Session!Busy(c, Session!Idle) /\ calls[c].op = "rekey"
    BY <1>1, <1>12 DEF Session!RekeyWrite, SessionTyped
  <2> QED
    BY <1>1, <2>1, SessionChanged DEF Session!Idle
<1>13. ASSUME NEW c \in Callers, NEW to \in Session!Operations, Session!Decide(c, to)
       PROVE  Goal
  <2>1. /\ session.status \in Session!Usable \cup Session!Ended /\ calls[c].op = "idle"
        /\ UNCHANGED <<session, keys>>
        /\ Session!Busy(c, Session!Moving(session.status, to))
    BY <1>13 DEF Session!Decide, Session!Free, Session!Idle
  <2>2. /\ calls'[c].op = "move"
        /\ \A d \in Callers : d # c => calls'[d] = calls[d]
    BY <1>1, <2>1, SessionChanged DEF Session!Moving
  <2>3. session.status \notin {"none", "created"}
    BY <2>1 DEF Session!Usable, Session!Ended
  <2> QED
    BY <1>1, <2>1, <2>2, <2>3
<1>14. CASE UNCHANGED Session!vars
  BY <1>1, <1>14 DEF Session!vars
<1> QED
  BY <1>2, <1>3, <1>4, <1>5, <1>6, <1>7, <1>8, <1>9, <1>10, <1>11, <1>12,
     <1>13, <1>14 DEF Session!Next

LEMMA SessionStep ==
  ASSUME Session!SecureSessionAssumption
  PROVE  SessionInv /\ [Session!Next]_Session!vars => SessionInv'
BY SessionTypedStep, SessionKeysStep DEF SessionInv

\* What the invariant says of the keys, and of a destroyed session's record.
LEMMA SessionMeans ==
  /\ SessionInv => Session!EndedHasNoKeys
  /\ SessionInv /\ [Session!Next]_Session!vars => Session!StaysDestroyed
<1>1. SessionInv => Session!EndedHasNoKeys
  BY DEF SessionInv, KeysEnd, Session!EndedHasNoKeys, Session!Free, Session!Idle
<1>2. ASSUME SessionTyped, [Session!Next]_Session!vars, session.status = "destroyed"
      PROVE  session'.status = "destroyed"
  BY <1>2 DEF Session!Next, Session!vars, SessionTyped, Session!Restart,
     Session!Establish, Session!StoreKeys, Session!Write, Session!WriteMissing,
     Session!Wipe, Session!Destroy, Session!DestroyWrite, Session!Rekey,
     Session!ReplaceKeys, Session!RekeyWrite, Session!Decide, Session!Missing
<1> QED
  BY <1>1, <1>2 DEF SessionInv, Session!StaysDestroyed

\* A closed or destroyed session leaves no keys behind once its operations
\* are over, also when it was rekeyed or resumed meanwhile (closeSession,
\* destroySession).
THEOREM EndedLeavesNoKeys ==
  ASSUME Session!SecureSessionAssumption PROVE Session!Spec => []Session!EndedHasNoKeys
BY SessionMeans, InitSession, SessionStep, PTL DEF Session!Spec

\* No operation brings a destroyed session back.
THEOREM DestroyedStays ==
  ASSUME Session!SecureSessionAssumption PROVE Session!Spec => Session!DestroyedForGood
BY SessionMeans, InitSession, SessionStep, PTL DEF Session!Spec,
   Session!DestroyedForGood

-----------------------------------------------------------------------------
(* The generations of keys (ForwardSecrecy). *)

\* The generations whose keys a device at generation gen has: which they are
\* depends on nothing else, so that copies of the record cannot disagree.
LastOnes(gen) == {g \in 0..gen : g >= gen - Retained}

\* A record or a copy of one that was read or is about to be written.
Tells(copy) == copy.gen \in Nat /\ copy.live = LastOnes(copy.gen)

CallFits(c) ==
  /\ calls[c].op = "evolve" => calls[c].copy.started /\ Tells(calls[c].copy)
  /\ calls[c].op = "write" => Tells(calls[c].copy)

\* The store never holds anything but the last generations.
StoreFits ==
  store = Secrecy!Gone \/ (store.gen \in Nat /\ store = [gen |-> store.gen,
                                                 held |-> LastOnes(store.gen)])

RecordFits ==
  /\ record \in [started : BOOLEAN, gen : Int, live : SUBSET Nat]
  /\ record.started => Tells(record)

SecrecyInv ==
  /\ calls \in [Callers -> [op : {"idle"}, ok : BOOLEAN]
                  \cup [op : {"start", "evolve", "destroy", "delete"},
                        copy : [started : BOOLEAN, gen : Int, live : SUBSET Nat]]
                  \cup [op : {"write"}, copy : [gen : Int, live : SUBSET Nat]]]
  /\ StoreFits /\ RecordFits
  /\ \A c \in Callers : CallFits(c)

LEMMA FirstOnes == ASSUME Secrecy!ForwardSecrecyAssumption PROVE LastOnes(0) = {0}
BY DEF LastOnes, Secrecy!ForwardSecrecyAssumption

LEMMA LastOnesNat ==
  ASSUME NEW gen \in Int PROVE LastOnes(gen) \subseteq Nat
BY DEF LastOnes

\* What an evolution keeps in the store, and what it is about to record.
LEMMA NextOnes ==
  ASSUME Secrecy!ForwardSecrecyAssumption, NEW gen \in Nat, store.held = LastOnes(gen)
  PROVE  /\ Secrecy!Committed(gen + 1) = [gen |-> gen + 1, held |-> LastOnes(gen + 1)]
         /\ (LastOnes(gen) \ (store.held \ Secrecy!Committed(gen + 1).held)) \cup {gen + 1}
              = LastOnes(gen + 1)
<1>1. {g \in store.held \cup {gen + 1} : g >= (gen + 1) - Retained} = LastOnes(gen + 1)
  BY DEF LastOnes, Secrecy!ForwardSecrecyAssumption
<1>2. Secrecy!Committed(gen + 1) = [gen |-> gen + 1, held |-> LastOnes(gen + 1)]
  <2>1. Secrecy!Committed(gen + 1) =
          [gen |-> gen + 1,
           held |-> {g \in store.held \cup {gen + 1} : g >= (gen + 1) - Retained}]
    BY Zenon DEF Secrecy!Committed
  <2> QED
    BY <1>1, <2>1, Zenon
<1>3. gen + 1 \in LastOnes(gen + 1)
  BY DEF LastOnes, Secrecy!ForwardSecrecyAssumption
<1>4. (LastOnes(gen) \ (LastOnes(gen) \ LastOnes(gen + 1))) \cup {gen + 1}
        = LastOnes(gen + 1)
  <2>1. LastOnes(gen + 1) \subseteq LastOnes(gen) \cup {gen + 1}
    BY DEF LastOnes, Secrecy!ForwardSecrecyAssumption
  <2> QED
    BY <1>3, <2>1
<1> QED
  BY <1>2, <1>4

LEMMA InitSecrecy == Secrecy!Init => SecrecyInv
<1> SUFFICES ASSUME Secrecy!Init PROVE SecrecyInv
  OBVIOUS
<1>1. StoreFits /\ RecordFits
  BY DEF Secrecy!Init, StoreFits, RecordFits, Secrecy!NoRecord
<1>2. \A c \in Callers : CallFits(c)
  BY DEF Secrecy!Init, CallFits, Secrecy!Ended
<1> QED
  BY <1>1, <1>2 DEF Secrecy!Init, SecrecyInv, Secrecy!Ended

LEMMA SecrecyStep ==
  ASSUME Secrecy!ForwardSecrecyAssumption
  PROVE  SecrecyInv /\ [Secrecy!Next]_Secrecy!vars => SecrecyInv'
<1> SUFFICES ASSUME SecrecyInv, [Secrecy!Next]_Secrecy!vars PROVE SecrecyInv'
  OBVIOUS
<1> DEFINE Record == [started : BOOLEAN, gen : Int, live : SUBSET Nat]
           Written == [gen : Int, live : SUBSET Nat]
           Call == [op : {"idle"}, ok : BOOLEAN]
                   \cup [op : {"start", "evolve", "destroy", "delete"}, copy : Record]
                   \cup [op : {"write"}, copy : Written]
<1>1. calls \in [Callers -> Call] /\ record \in Record
  BY DEF SecrecyInv, RecordFits
<1>2. ASSUME NEW c \in Callers, NEW call \in Call, Secrecy!Busy(c, call),
             call.op = "evolve" => call.copy.started /\ Tells(call.copy),
             call.op = "write" => Tells(call.copy)
      PROVE  calls' \in [Callers -> Call] /\ \A d \in Callers : CallFits(d)'
  <2>1. calls' \in [Callers -> Call]
    BY <1>1, <1>2 DEF Secrecy!Busy
  <2>2. ASSUME NEW d \in Callers PROVE CallFits(d)'
    <3>1. calls'[d] = IF d = c THEN call ELSE calls[d]
      BY <1>1, <1>2 DEF Secrecy!Busy
    <3> QED
      BY <1>2, <3>1 DEF SecrecyInv, CallFits, Tells, LastOnes
  <2> QED
    BY <2>1, <2>2
<1>3. ASSUME NEW c \in Callers, NEW ok \in BOOLEAN, Secrecy!Busy(c, Secrecy!Ended(ok))
      PROVE  calls' \in [Callers -> Call] /\ \A d \in Callers : CallFits(d)'
  BY <1>2, <1>3 DEF Secrecy!Ended
<1>4. ASSUME NEW c \in Callers,
             NEW op \in {"start", "evolve", "destroy", "delete"},
             Secrecy!Busy(c, Secrecy!With(op, record)), op = "evolve" => record.started
      PROVE  calls' \in [Callers -> Call] /\ \A d \in Callers : CallFits(d)'
  <2>1. Secrecy!With(op, record) \in Call
    BY <1>1 DEF Secrecy!With
  <2>2. op = "evolve" => Tells(record)
    BY <1>4 DEF SecrecyInv, RecordFits
  <2> QED
    BY <1>2, <1>4, <2>1, <2>2 DEF Secrecy!With
<1>5. ASSUME UNCHANGED store PROVE StoreFits'
  BY <1>5 DEF SecrecyInv, StoreFits, LastOnes, Secrecy!Gone
<1>6. ASSUME UNCHANGED record PROVE RecordFits'
  BY <1>6 DEF SecrecyInv, RecordFits, Tells, LastOnes
<1>7. ASSUME store' = Secrecy!Gone PROVE StoreFits'
  BY <1>7 DEF StoreFits, Secrecy!Gone
<1>8. ASSUME NEW c \in Callers,
             Secrecy!Start(c) \/ Secrecy!Evolve(c) \/ Secrecy!Destroy(c) \/ Secrecy!Delete(c)
      PROVE  SecrecyInv'
  BY <1>4, <1>5, <1>6, <1>7, <1>8 DEF Secrecy!Start, Secrecy!Evolve, Secrecy!Destroy,
     Secrecy!Delete, SecrecyInv
<1>9. ASSUME NEW c \in Callers, Secrecy!StartWrite(c) PROVE SecrecyInv'
  <2>1. StoreFits' /\ RecordFits'
    BY <1>9, FirstOnes
       DEF Secrecy!StartWrite, Secrecy!Fresh, Secrecy!NewRecord, StoreFits, RecordFits, Tells, LastOnes
  <2> QED
    BY <1>3, <1>9, <2>1 DEF Secrecy!StartWrite, SecrecyInv
<1>10. ASSUME NEW c \in Callers, Secrecy!Commit(c) PROVE SecrecyInv'
  <2> DEFINE gen == calls[c].copy.gen
             next == [gen |-> gen + 1, live |-> LastOnes(gen + 1)]
  <2>1. Tells(calls[c].copy) /\ gen \in Nat
    BY <1>10 DEF SecrecyInv, CallFits, Secrecy!Commit, Tells
  <2>2. store.held = LastOnes(gen)
    BY <1>10, <2>1 DEF SecrecyInv, StoreFits, Secrecy!Commit, Secrecy!Gone
  <2>3. /\ store' = [gen |-> gen + 1, held |-> LastOnes(gen + 1)]
        /\ Secrecy!Busy(c, Secrecy!With("write", next)) /\ UNCHANGED record
    BY <1>10, <2>1, <2>2, NextOnes DEF Secrecy!Commit, Tells
  <2>4. StoreFits'
    BY <2>1, <2>3 DEF StoreFits, LastOnes
  <2>5. next \in Written
    BY <2>1, LastOnesNat
  <2>6. Secrecy!With("write", next) \in Call /\ Tells(next)
    BY <2>1, <2>5 DEF Secrecy!With, Tells
  <2>7. calls' \in [Callers -> Call] /\ \A d \in Callers : CallFits(d)'
    BY <1>2, <2>3, <2>6 DEF Secrecy!With
  <2> QED
    BY <1>6, <2>3, <2>4, <2>7 DEF SecrecyInv
<1>11. ASSUME NEW c \in Callers, Secrecy!Write(c) PROVE SecrecyInv'
  <2>1. calls[c].copy \in Written /\ Tells(calls[c].copy)
    BY <1>1, <1>11 DEF SecrecyInv, CallFits, Secrecy!Write
  <2>2. RecordFits'
    BY <1>1, <1>11, <2>1 DEF Secrecy!Write, RecordFits, Tells, LastOnes
  <2> QED
    BY <1>3, <1>5, <1>11, <2>2 DEF Secrecy!Write, SecrecyInv
<1>12. ASSUME NEW c \in Callers, Secrecy!CommitRefused(c) \/ Secrecy!WriteFails(c)
       PROVE  SecrecyInv'
  BY <1>3, <1>5, <1>6, <1>12 DEF Secrecy!CommitRefused, Secrecy!WriteFails, SecrecyInv
<1>13. ASSUME NEW c \in Callers, Secrecy!DestroyWrite(c) \/ Secrecy!DeleteWrite(c)
       PROVE  SecrecyInv'
  <2>1. Secrecy!NoRecord \in Record /\ ~ Secrecy!NoRecord.started
    BY DEF Secrecy!NoRecord
  <2>2. record' \in Record /\ ~ record'.started
    BY <1>1, <1>13, <2>1 DEF Secrecy!DestroyWrite, Secrecy!DeleteWrite
  <2>3. RecordFits'
    BY <2>2 DEF RecordFits
  <2>4. \E ok \in BOOLEAN : Secrecy!Busy(c, Secrecy!Ended(ok))
    BY <1>13 DEF Secrecy!DestroyWrite, Secrecy!DeleteWrite
  <2> QED
    BY <1>3, <1>5, <1>13, <2>3, <2>4 DEF Secrecy!DestroyWrite, Secrecy!DeleteWrite,
       SecrecyInv
<1>14. CASE Secrecy!Restart
  <2>1. \A c \in Callers : CallFits(c)'
    BY <1>14 DEF Secrecy!Restart, CallFits, Secrecy!Ended
  <2> QED
    BY <1>6, <1>7, <1>14, <2>1 DEF Secrecy!Restart, SecrecyInv, Secrecy!Ended
<1>15. CASE UNCHANGED Secrecy!vars
  <2>1. \A c \in Callers : CallFits(c)'
    BY <1>15 DEF SecrecyInv, CallFits, Secrecy!vars, Tells, LastOnes
  <2> QED
    BY <1>5, <1>6, <1>15, <2>1 DEF SecrecyInv, Secrecy!vars
<1> QED
  BY <1>8, <1>9, <1>10, <1>11, <1>12, <1>13, <1>14, <1>15 DEF Secrecy!Next,
     Secrecy!Proceed

\* What the invariant says of the record, and of the key store's steps.
LEMMA SecrecyMeans ==
  /\ SecrecyInv => Secrecy!RecordTellsHeld
  /\ SecrecyInv /\ [Secrecy!Next]_Secrecy!vars => Secrecy!OneGenerationOn
<1>1. SecrecyInv /\ [Secrecy!Next]_Secrecy!vars => Secrecy!OneGenerationOn
  <2> SUFFICES ASSUME SecrecyInv, [Secrecy!Next]_Secrecy!vars, store # Secrecy!Gone,
                      store' \notin {store, Secrecy!Gone, Secrecy!Fresh}
               PROVE  store'.gen = store.gen + 1
    BY DEF Secrecy!OneGenerationOn
  <2>1. PICK c \in Callers : Secrecy!Commit(c)
    BY DEF Secrecy!Next, Secrecy!Proceed, Secrecy!Restart, Secrecy!Start,
       Secrecy!StartWrite, Secrecy!Evolve, Secrecy!CommitRefused, Secrecy!Write,
       Secrecy!WriteFails, Secrecy!Destroy, Secrecy!DestroyWrite, Secrecy!Delete,
       Secrecy!DeleteWrite, Secrecy!vars
  <2> QED
    BY <2>1 DEF Secrecy!Commit, Secrecy!Committed
<1>2. SecrecyInv => Secrecy!RecordTellsHeld
  BY DEF SecrecyInv, StoreFits, RecordFits, Tells, Secrecy!RecordTellsHeld, Secrecy!Gone
<1> QED
  BY <1>1, <1>2

\* Where record and key store stand at the same generation, the record lists
\* the generations whose keys can be had, for any number retained (evolve and
\* its prune, destroy).
THEOREM RecordTells ==
  ASSUME Secrecy!ForwardSecrecyAssumption PROVE Secrecy!Spec => []Secrecy!RecordTellsHeld
BY SecrecyMeans, InitSecrecy, SecrecyStep, PTL DEF Secrecy!Spec

\* Overlapping evolutions never derive a generation twice nor skip one.
THEOREM OneGenerationEachTime ==
  ASSUME Secrecy!ForwardSecrecyAssumption PROVE Secrecy!Spec => Secrecy!OneGenerationAtATime
BY SecrecyMeans, InitSecrecy, SecrecyStep, PTL DEF Secrecy!Spec,
   Secrecy!OneGenerationAtATime

-----------------------------------------------------------------------------
(* Handshakes and the key agreement within them (Handshake, KeyAgreement). *)

Histories == Seq(Agreement!States) \ {<<>>}
Handshakes ==
  [history : Histories, agreed : BOOLEAN, retryCount : Nat, previous : Nat]

\* What a call in flight may be.
Targets == {"generating", "waitingKey", "deriving", "established", "cryptoComplete"}
HandCalls ==
  {Agreement!Idle}
  \cup [op : {"create"}, retryCount : Nat, previous : Nat]
  \cup [op : {"move"}, id : Nat, base : Seq(Agreement!States), path : Histories]
Waits == {"awaitingInitiatorKey", "awaitingResponderKey", "keysExchanged"}
AgreementCalls ==
  [op : {"sync"}, id : Nat, target : Targets, compare : BOOLEAN]
  \cup [op : {"compare", "fail", "sweep"}, id : Nat]
  \cup [op : {"key"}, id : Nat, role : Agreement!Roles, state : Waits]
  \cup [op : {"commit"}, id : Nat, role : Agreement!Roles]
  \cup [op : {"syncWrite"}, id : Nat, base : Seq(Agreement!States), path : Histories,
        compare : BOOLEAN]

HandTyped ==
  /\ sessions \in Seq(Handshakes)
  /\ Len(sessions) <= MaxHandshakes
  /\ late \subseteq Agreement!Ids
  /\ calls \in [Callers -> HandCalls \cup AgreementCalls]
  /\ \A c \in Callers : calls[c].op \notin {"idle", "create"} => calls[c].id \in Agreement!Ids

\* The chain of restarts, as far as it is stored: a handshake replaces an older
\* one and counts one retry more.
Follows(retryCount, previous) ==
  /\ retryCount <= MaxRetries
  /\ previous # 0 => /\ previous \in Agreement!Ids
                     /\ retryCount = sessions[previous].retryCount + 1
ChainInv ==
  /\ \A i \in Agreement!Ids : /\ Follows(sessions[i].retryCount, sessions[i].previous)
                              /\ sessions[i].previous < i
  /\ \A c \in Callers : calls[c].op = "create" =>
       Follows(calls[c].retryCount, calls[c].previous)

HandInv == HandTyped /\ ChainInv

\* What a new handshake leaves of those that are stored.
LEMMA Stored ==
  ASSUME sessions \in Seq(Handshakes), NEW s \in Handshakes,
         sessions' = Append(sessions, s)
  PROVE  /\ sessions' \in Seq(Handshakes)
         /\ Len(sessions') = Len(sessions) + 1
         /\ Agreement!Ids' = Agreement!Ids \cup {Len(sessions) + 1}
         /\ Agreement!Ids = 1..Len(sessions)
         /\ \A i \in Agreement!Ids : sessions'[i] = sessions[i]
         /\ sessions'[Len(sessions) + 1] = s
BY DEF Agreement!Ids

\* What writing a history leaves.
Writes(i, h, more) ==
  sessions' = [sessions EXCEPT ![i].history = h, ![i].agreed = @ \/ more]
WritesHistory(i, h) == sessions' = [sessions EXCEPT ![i].history = h]

\* What writing a history leaves of the others, and of the chain of restarts.
LEMMA HistoryWritten ==
  ASSUME sessions \in Seq(Handshakes), NEW i \in Agreement!Ids, NEW h \in Histories,
         NEW more \in BOOLEAN, Writes(i, h, more) \/ WritesHistory(i, h)
  PROVE  /\ sessions' \in Seq(Handshakes)
         /\ Len(sessions') = Len(sessions)
         /\ Agreement!Ids' = Agreement!Ids /\ Agreement!Ids = 1..Len(sessions)
         /\ \A j \in Agreement!Ids : /\ sessions'[j].retryCount = sessions[j].retryCount
                                     /\ sessions'[j].previous = sessions[j].previous
                                     /\ j # i => sessions'[j] = sessions[j]
         /\ sessions'[i].history = h
<1>1. /\ Len(sessions) \in Nat /\ Agreement!Ids = 1..Len(sessions)
      /\ \A j \in Agreement!Ids : sessions[j] \in Handshakes
  BY DEF Agreement!Ids
<1>2. CASE Writes(i, h, more)
  <2> DEFINE r == [sessions[i] EXCEPT !.history = h, !.agreed = @ \/ more]
  <2>1. sessions' = [sessions EXCEPT ![i] = r]
    BY <1>2 DEF Writes
  <2>2. /\ r \in Handshakes /\ r.retryCount = sessions[i].retryCount
        /\ r.previous = sessions[i].previous /\ r.history = h
    BY <1>1 DEF Handshakes
  <2> HIDE DEF r
  <2> QED
    BY <1>1, <2>1, <2>2, ExceptSeq DEF Agreement!Ids
<1>3. CASE WritesHistory(i, h)
  <2> DEFINE r == [sessions[i] EXCEPT !.history = h]
  <2>1. sessions' = [sessions EXCEPT ![i] = r]
    BY <1>3 DEF WritesHistory
  <2>2. /\ r \in Handshakes /\ r.retryCount = sessions[i].retryCount
        /\ r.previous = sessions[i].previous /\ r.history = h
    BY <1>1 DEF Handshakes
  <2> HIDE DEF r
  <2> QED
    BY <1>1, <2>1, <2>2, ExceptSeq DEF Agreement!Ids
<1> QED
  BY <1>2, <1>3

\* The states a handshake is moved to one at a time.
MovesTo == Agreement!States \ {"cryptoComplete"}

\* Most operations only read; what they have in mind then.
Reads(c, call) == Agreement!Busy(c, call) /\ UNCHANGED <<sessions, late>>
InMind(call) ==
  \/ call = Agreement!Creating(0, 0)
  \/ \E i \in Agreement!Ids : \/ /\ Agreement!canRetry(sessions[i].retryCount)
                                 /\ call = Agreement!Creating(sessions[i].retryCount + 1, i)
                              \/ \E to \in MovesTo : call = Agreement!Moving(i, sessions[i].history, <<to>>)

\* An operation reads and has in mind what it is to write, or writes it.
LEMMA NextIs ==
  ASSUME Agreement!Next
  PROVE  \/ \E c \in Callers : Agreement!Create(c) \/ Agreement!Write(c)
         \/ \E i \in Agreement!Ids : Agreement!Expire(i)
         \/ \E c \in Callers : \E call : Reads(c, call) /\ InMind(call)
<1>1. ASSUME NEW c \in Callers, Agreement!StartHandshake(c)
      PROVE  Reads(c, Agreement!Creating(0, 0)) /\ InMind(Agreement!Creating(0, 0))
  BY <1>1 DEF Agreement!StartHandshake, Reads, InMind
<1>2. ASSUME NEW c \in Callers, NEW i \in Agreement!Ids, Agreement!RestartHandshake(c, i)
      PROVE  LET call == Agreement!Creating(sessions[i].retryCount + 1, i)
             IN Reads(c, call) /\ InMind(call)
  BY <1>2 DEF Agreement!RestartHandshake, Reads, InMind
<1>3. ASSUME NEW c \in Callers, NEW i \in Agreement!Ids, NEW to \in MovesTo,
             Agreement!Decide(c, i, to)
      PROVE  LET call == Agreement!Moving(i, sessions[i].history, <<to>>)
             IN Reads(c, call) /\ InMind(call)
  BY <1>3 DEF Agreement!Decide, Reads, InMind
<1>4. ASSUME NEW c \in Callers, NEW i \in Agreement!Ids,
             Agreement!AcceptHandshake(c, i) \/ Agreement!CompleteHandshake(c, i) \/ Agreement!GetHandshake(c, i)
                         \/ Agreement!RejectHandshake(c, i) \/ Agreement!EndHandshake(c, i)
      PROVE  \E to \in MovesTo : Agreement!Decide(c, i, to)
  <2>1. {"expired", "negotiating", "failed", "completed", "rejected"} \subseteq MovesTo
        /\ Agreement!Failures \subseteq MovesTo
    BY DEF MovesTo, Agreement!States, Agreement!ActiveStates,
       Agreement!TerminalStates, Agreement!Failures
  <2> QED
    BY <1>4, <2>1 DEF Agreement!AcceptHandshake, Agreement!CompleteHandshake,
       Agreement!GetHandshake, Agreement!RejectHandshake, Agreement!EndHandshake,
       Agreement!RefreshExpiry
<1> QED
  BY <1>1, <1>2, <1>3, <1>4 DEF Agreement!Next

\* A call that goes on has a handshake in mind that is there.
LEMMA CallsInMind ==
  ASSUME HandInv, Agreement!HandshakeAssumption, NEW call, InMind(call)
  PROVE  /\ call \in HandCalls
         /\ call.op = "create" => Follows(call.retryCount, call.previous)
         /\ call.op \in {"create", "move"}
         /\ call.op = "move" => call.id \in Agreement!Ids /\ call.path[Len(call.path)] \in MovesTo
<1>1. /\ Agreement!Ids = 1..Len(sessions) /\ Len(sessions) \in Nat
      /\ \A i \in Agreement!Ids : sessions[i] \in Handshakes
  BY DEF HandInv, HandTyped, Agreement!Ids
<1>2. CASE call = Agreement!Creating(0, 0)
  BY <1>2 DEF Agreement!Creating, HandCalls, Follows, Agreement!HandshakeAssumption
<1>3. ASSUME NEW i \in Agreement!Ids, Agreement!canRetry(sessions[i].retryCount),
             call = Agreement!Creating(sessions[i].retryCount + 1, i)
      PROVE  /\ call \in HandCalls /\ call.op = "create"
             /\ Follows(call.retryCount, call.previous)
  BY <1>1, <1>3 DEF Agreement!Creating, HandCalls, Follows,
     Agreement!HandshakeAssumption, Handshakes, Agreement!canRetry
<1>4. ASSUME NEW i \in Agreement!Ids, NEW to \in MovesTo,
             call = Agreement!Moving(i, sessions[i].history, <<to>>)
      PROVE  /\ call \in HandCalls /\ call.op = "move"
             /\ call.id \in Agreement!Ids /\ call.path[Len(call.path)] \in MovesTo
  <2>1. <<to>> \in Histories /\ Len(<<to>>) = 1 /\ <<to>>[1] = to
    BY DEF MovesTo, Histories
  <2>2. sessions[i].history \in Seq(Agreement!States) /\ i \in Nat
    BY <1>1 DEF Handshakes, Histories
  <2> QED
    BY <1>4, <2>1, <2>2 DEF Agreement!Moving, HandCalls
<1> QED
  BY <1>2, <1>3, <1>4 DEF InMind

\* While the handshakes stored so far stay where they are, so does what follows
\* them.
LEMMA StillFollows ==
  ASSUME \A i \in Agreement!Ids : /\ sessions'[i].retryCount = sessions[i].retryCount
                                  /\ sessions'[i].previous = sessions[i].previous,
         Agreement!Ids \subseteq Agreement!Ids',
         NEW retryCount, NEW previous, Follows(retryCount, previous)
  PROVE  Follows(retryCount, previous)'
BY DEF Follows

\* Nothing is stored at first.
LEMMA InitHand == ASSUME Agreement!HandshakeAssumption, Agreement!Init PROVE HandInv
<1>1. sessions \in Seq(Handshakes) /\ Len(sessions) = 0 /\ Agreement!Ids = {}
  BY DEF Agreement!Init, Agreement!Ids
<1>2. Agreement!Idle \in HandCalls /\ Agreement!Idle.op = "idle"
  BY DEF Agreement!Idle, HandCalls
<1> QED
  BY <1>1, <1>2 DEF Agreement!Init, HandInv, HandTyped, ChainInv,
     Agreement!HandshakeAssumption

\* A restart is stored one retry above the handshake it replaces.
LEMMA CreateKeeps ==
  ASSUME Agreement!HandshakeAssumption, HandInv, NEW c \in Callers, Agreement!Create(c)
  PROVE  HandInv'
<1> DEFINE s == Agreement!createSession(calls[c].retryCount, calls[c].previous)
           n == Len(sessions) + 1
           call == Agreement!Moving(n, <<"created">>, <<"initialized">>)
<1>0. /\ sessions \in Seq(Handshakes) /\ Len(sessions) \in Nat
      /\ calls \in [Callers -> HandCalls \cup AgreementCalls]
  BY DEF HandInv, HandTyped
<1>1. calls[c].op = "create" /\ Follows(calls[c].retryCount, calls[c].previous)
  BY DEF Agreement!Create, HandInv, ChainInv
<1>2. calls[c].retryCount \in Nat /\ calls[c].previous \in Nat
  BY <1>0, <1>1 DEF HandCalls, AgreementCalls, Agreement!Idle
<1>3. <<"created">> \in Histories /\ <<"initialized">> \in Histories
  BY DEF Histories, Agreement!States, Agreement!ActiveStates
<1>4. s \in Handshakes /\ s.retryCount = calls[c].retryCount
        /\ s.previous = calls[c].previous
  BY <1>2, <1>3 DEF Agreement!createSession, Handshakes
<1>5. sessions' = Append(sessions, s) /\ Len(sessions) < MaxHandshakes
        /\ calls' = [calls EXCEPT ![c] = call] /\ late' = late
  BY DEF Agreement!Create, Agreement!Busy
<1>6. call \in HandCalls /\ call.op = "move" /\ call.id = n
  BY <1>0, <1>3 DEF HandCalls, Agreement!Moving, Histories
<1> HIDE DEF s, call
<1>7. /\ sessions' \in Seq(Handshakes) /\ Len(sessions') = n
      /\ Agreement!Ids' = Agreement!Ids \cup {n} /\ Agreement!Ids = 1..Len(sessions)
      /\ \A i \in Agreement!Ids : sessions'[i] = sessions[i]
      /\ sessions'[n] = s
  BY <1>0, <1>4, <1>5, Stored
<1>8. HandTyped'
  BY <1>0, <1>5, <1>6, <1>7 DEF HandInv, HandTyped, Agreement!HandshakeAssumption
<1>9. \A r, p : Follows(r, p) => Follows(r, p)'
  BY <1>7 DEF Follows
<1>10. ASSUME NEW i \in Agreement!Ids'
       PROVE  Follows(sessions[i].retryCount, sessions[i].previous)'
                /\ sessions'[i].previous < i
  <2>1. CASE i \in Agreement!Ids
    BY <1>7, <1>9, <2>1 DEF HandInv, ChainInv
  <2>2. CASE i = n
    BY <1>0, <1>1, <1>2, <1>4, <1>7, <1>9, <2>2 DEF Follows
  <2> QED
    BY <1>7, <2>1, <2>2
<1>11. ASSUME NEW d \in Callers, calls'[d].op = "create"
       PROVE  Follows(calls[d].retryCount, calls[d].previous)'
  BY <1>0, <1>5, <1>6, <1>9, <1>11 DEF HandInv, ChainInv
<1> QED
  BY <1>8, <1>10, <1>11 DEF HandInv, ChainInv

\* A history that goes on ends as what it goes on with.
LEMMA JoinedHistory ==
  ASSUME NEW base \in Seq(Agreement!States), NEW path \in Seq(Agreement!States), path # <<>>
  PROVE  base \o path \in Histories /\ Agreement!Last(base \o path) = Agreement!Last(path)
<1>1. /\ base \o path \in Seq(Agreement!States) /\ Len(base \o path) = Len(base) + Len(path)
      /\ \A n \in 1..Len(base) + Len(path) : n > Len(base) =>
           (base \o path)[n] = path[n - Len(base)]
  BY ConcatProperties
<1>2. Len(base) \in Nat /\ Len(path) \in Nat /\ Len(path) # 0
  OBVIOUS
<1>3. (base \o path)[Len(base) + Len(path)] = path[Len(path)]
  BY <1>1, <1>2
<1>4. base \o path # <<>>
  BY <1>1, <1>2
<1> QED
  BY <1>1, <1>3, <1>4 DEF Histories, Agreement!Last

\* A write changes no more than a history.
LEMMA WriteIs ==
  ASSUME HandTyped, NEW c \in Callers, Agreement!Write(c)
  PROVE  /\ calls[c].op = "move" /\ calls[c].id \in Agreement!Ids /\ late' = late
         /\ calls[c].base \o calls[c].path \in Histories
         /\ Agreement!Last(calls[c].base \o calls[c].path) = Agreement!Last(calls[c].path)
         /\ \E more \in BOOLEAN :
              Writes(calls[c].id, calls[c].base \o calls[c].path, more)
         /\ \E call \in HandCalls :
              /\ Agreement!Busy(c, call) /\ call.op \in {"idle", "move"}
              /\ call.op = "move" => /\ call.id \in Agreement!Ids
                                     /\ call.path = <<"waiting">>
<1> DEFINE h == calls[c].base \o calls[c].path
           next == IF calls[c].path = <<"initialized">>
                     THEN Agreement!Moving(calls[c].id, h, <<"waiting">>) ELSE Agreement!Idle
<1>1. calls[c].op = "move" /\ calls[c].id \in Agreement!Ids /\ calls[c].id \in Nat
  BY DEF Agreement!Write, HandTyped, Agreement!Ids
<1>2. calls[c].base \in Seq(Agreement!States) /\ calls[c].path \in Seq(Agreement!States)
        /\ calls[c].path # <<>>
  BY <1>1 DEF HandTyped, HandCalls, AgreementCalls, Histories, Agreement!Idle
<1>3. h \in Histories /\ Agreement!Last(h) = Agreement!Last(calls[c].path)
  BY <1>2, JoinedHistory DEF Histories
<1>4. <<"waiting">> \in Histories
  BY DEF Histories, Agreement!States, Agreement!ActiveStates
<1>5. /\ next \in HandCalls /\ next.op \in {"idle", "move"}
      /\ next.op = "move" => next.id \in Agreement!Ids /\ next.path = <<"waiting">>
  BY <1>1, <1>3, <1>4 DEF HandCalls, Agreement!Moving, Agreement!Idle, Histories
<1>6. Agreement!Busy(c, next) /\ late' = late
                  /\ Writes(calls[c].id, h, calls[c].path = <<"negotiating">>)
  BY <1>1 DEF Agreement!Write, Writes
<1>7. (calls[c].path = <<"negotiating">>) \in BOOLEAN
  OBVIOUS
<1> QED
  BY <1>1, <1>3, <1>5, <1>6, <1>7

\* Writing a history, and going on with a call that creates nothing.
LEMMA HistoryKeeps ==
  ASSUME HandInv, NEW c \in Callers, NEW i \in Agreement!Ids, NEW h \in Histories,
         NEW more \in BOOLEAN, Writes(i, h, more) \/ WritesHistory(i, h),
         late' = late, NEW call \in HandCalls \cup AgreementCalls, Agreement!Busy(c, call),
         call.op # "create", call.op # "idle" => call.id \in Agreement!Ids
  PROVE  HandInv'
<1>1. /\ sessions' \in Seq(Handshakes) /\ Len(sessions') = Len(sessions)
      /\ Agreement!Ids' = Agreement!Ids
      /\ \A j \in Agreement!Ids : /\ sessions'[j].retryCount = sessions[j].retryCount
                                  /\ sessions'[j].previous = sessions[j].previous
  BY HistoryWritten DEF HandInv, HandTyped
<1>2. \A r, p : Follows(r, p) => Follows(r, p)'
  BY <1>1 DEF Follows
<1>3. /\ calls \in [Callers -> HandCalls \cup AgreementCalls]
      /\ calls' = [calls EXCEPT ![c] = call]
  BY DEF HandInv, HandTyped, Agreement!Busy
<1>4. HandTyped'
  BY <1>1, <1>3 DEF HandInv, HandTyped
<1>5. ChainInv'
  BY <1>1, <1>2, <1>3 DEF HandInv, ChainInv
<1> QED
  BY <1>4, <1>5 DEF HandInv

\* A call that only reads, and has nothing or a handshake that is there in mind.
LEMMA ReadKeeps ==
  ASSUME HandInv, NEW c \in Callers, NEW call \in HandCalls \cup AgreementCalls,
         Reads(c, call),
         call.op = "create" => Follows(call.retryCount, call.previous),
         call.op \notin {"idle", "create"} => call.id \in Agreement!Ids
  PROVE  HandInv'
<1>1. /\ calls \in [Callers -> HandCalls \cup AgreementCalls]
      /\ calls' = [calls EXCEPT ![c] = call] /\ sessions' = sessions /\ late' = late
  BY DEF HandInv, HandTyped, Reads, Agreement!Busy
<1>2. Agreement!Ids' = Agreement!Ids /\ \A r, p : Follows(r, p)' <=> Follows(r, p)
  BY <1>1 DEF Agreement!Ids, Follows
<1> QED
  BY <1>1, <1>2 DEF HandInv, HandTyped, ChainInv

\* Every operation of handshakes keeps the invariant.
LEMMA HandStep ==
  ASSUME Agreement!HandshakeAssumption, HandInv, [Agreement!Next]_Agreement!vars
  PROVE  HandInv'
<1>1. ASSUME NEW c \in Callers, Agreement!Write(c) PROVE HandInv'
  BY <1>1, WriteIs, HistoryKeeps DEF HandInv
<1>2. ASSUME NEW i \in Agreement!Ids, Agreement!Expire(i) PROVE HandInv'
  <2>1. sessions' = sessions /\ calls' = calls /\ late' = late \cup {i}
    BY <1>2 DEF Agreement!Expire
  <2>2. Agreement!Ids' = Agreement!Ids /\ \A r, p : Follows(r, p)' <=> Follows(r, p)
    BY <2>1 DEF Agreement!Ids, Follows
  <2> QED
    BY <2>1, <2>2 DEF HandInv, HandTyped, ChainInv
<1>3. ASSUME NEW c \in Callers, NEW call, Reads(c, call), InMind(call)
      PROVE  HandInv'
  BY <1>3, CallsInMind, ReadKeeps
<1>4. CASE UNCHANGED Agreement!vars
  <2>1. sessions' = sessions /\ calls' = calls /\ late' = late
    BY <1>4 DEF Agreement!vars
  <2>2. Agreement!Ids' = Agreement!Ids /\ \A r, p : Follows(r, p)' <=> Follows(r, p)
    BY <2>1 DEF Agreement!Ids, Follows
  <2> QED
    BY <2>1, <2>2 DEF HandInv, HandTyped, ChainInv
<1> QED
  BY <1>1, <1>2, <1>3, <1>4, CreateKeeps, NextIs

LEMMA RetriesCounted ==
  ASSUME HandInv PROVE \A i \in Agreement!Ids : sessions[i].retryCount \in Nat
<1>1. \A i \in Agreement!Ids : sessions[i] \in Handshakes
  BY DEF HandInv, HandTyped, Agreement!Ids
<1> QED
  BY <1>1 DEF Handshakes

\* Along a chain of restarts the count of retries grows with every link.  Were
\* it less somewhere, take the first place where it is.
LEMMA ChainCounts ==
  ASSUME HandInv, Agreement!HandshakeAssumption,
         NEW chain \in [0..(MaxRetries + 1) -> Agreement!Ids],
         \A k \in 0..MaxRetries : sessions[chain[k + 1]].previous = chain[k]
  PROVE  \A k \in 0..(MaxRetries + 1) : sessions[chain[k]].retryCount >= k
<1> DEFINE R == OpToRel(<, Nat)
           few == {k \in 0..(MaxRetries + 1) : ~ (sessions[chain[k]].retryCount >= k)}
<1> SUFFICES ASSUME few # {} PROVE FALSE
  OBVIOUS
<1>1. IsWellFoundedOn(R, Nat) /\ \A x, y \in Nat : x < y => <<x, y>> \in R
  BY NatLessThanWellFounded DEF OpToRel
<1>2. /\ few \subseteq Nat /\ few \subseteq 0..(MaxRetries + 1)
      /\ \A k \in 0..(MaxRetries + 1) : k \notin few => sessions[chain[k]].retryCount >= k
      /\ \A k \in few : ~ (sessions[chain[k]].retryCount >= k)
  BY DEF Agreement!HandshakeAssumption
<1> HIDE DEF R, few
<1>3. PICK m \in few : \A k \in few : ~ (<<k, m>> \in R)
  BY <1>1, <1>2, WFMin
<1>4. \A k \in few : ~ (k < m)
  BY <1>1, <1>2, <1>3
<1>5. /\ MaxRetries \in Nat /\ m \in 0..(MaxRetries + 1)
      /\ \A k \in 0..(MaxRetries + 1) : chain[k] \in Agreement!Ids
      /\ \A i \in Agreement!Ids : sessions[i].retryCount \in Nat
  BY <1>2, RetriesCounted DEF Agreement!HandshakeAssumption
<1>6. m # 0
  <2>1. 0 \in 0..(MaxRetries + 1)
    BY <1>5
  <2>2. sessions[chain[0]].retryCount \in Nat
    BY <1>5, <2>1
  <2> QED
    BY <1>2, <2>2
<1>7. m - 1 \in 0..MaxRetries /\ m - 1 \in 0..(MaxRetries + 1) /\ m - 1 < m /\ (m - 1) + 1 = m
  BY <1>5, <1>6
<1>8. sessions[chain[m - 1]].retryCount >= m - 1
  BY <1>2, <1>4, <1>7
<1>9. sessions[chain[m]].previous = chain[m - 1] /\ chain[m - 1] # 0
  BY <1>5, <1>7 DEF HandInv, HandTyped, Agreement!Ids
<1>10. sessions[chain[m]].retryCount = sessions[chain[m - 1]].retryCount + 1
  BY <1>5, <1>9 DEF HandInv, ChainInv, Follows
<1>11. sessions[chain[m - 1]].retryCount \in Nat
  BY <1>5, <1>7
<1>12. sessions[chain[m]].retryCount >= m
  BY <1>5, <1>8, <1>10, <1>11
<1> QED
  BY <1>2, <1>12

\* The last of a chain that is too long would count more than is allowed.
LEMMA ChainMeans ==
  ASSUME Agreement!HandshakeAssumption PROVE HandInv => Agreement!ChainWithinBudget
<1> SUFFICES ASSUME HandInv,
                    NEW chain \in [0..(MaxRetries + 1) -> Agreement!Ids],
                    \A k \in 0..MaxRetries : sessions[chain[k + 1]].previous = chain[k]
             PROVE  FALSE
  BY DEF Agreement!ChainWithinBudget
<1>1. MaxRetries \in Nat /\ MaxRetries + 1 \in 0..(MaxRetries + 1)
  BY DEF Agreement!HandshakeAssumption
<1>2. sessions[chain[MaxRetries + 1]].retryCount >= MaxRetries + 1
  BY <1>1, ChainCounts
<1>3. chain[MaxRetries + 1] \in Agreement!Ids
  BY <1>1
<1>4. /\ sessions[chain[MaxRetries + 1]].retryCount <= MaxRetries
      /\ sessions[chain[MaxRetries + 1]].retryCount \in Nat
  BY <1>3, RetriesCounted DEF HandInv, ChainInv, Follows
<1> QED
  BY <1>1, <1>2, <1>4

\* No chain of handshakes that replace one another is longer than the retries
\* allow (ChainWithinBudget), for any number of retries and of handshakes and
\* with any number of requests in flight.
THEOREM RestartsWithinBudget ==
  ASSUME Agreement!HandshakeAssumption PROVE Agreement!Spec => []Agreement!ChainWithinBudget
BY InitHand, HandStep, ChainMeans, PTL DEF Agreement!Spec

\* The types of a handshake and of the calls.
LEMMA HandMeans == HandInv => Agreement!TypeOK
<1> SUFFICES ASSUME HandInv PROVE Agreement!TypeOK
  OBVIOUS
<1>1. \A i \in Agreement!Ids : sessions[i] \in Handshakes /\ sessions[i].previous < i
        /\ i \in Nat
  BY DEF HandInv, HandTyped, ChainInv, Agreement!Ids
<1>2. \A i \in Agreement!Ids : sessions[i] \in
        [history : Seq(Agreement!States), agreed : BOOLEAN, retryCount : Nat,
         previous : 0..(i - 1)]
  BY <1>1 DEF Handshakes, Histories
<1> QED
  BY <1>2 DEF Agreement!TypeOK, HandInv, HandTyped

(* Key agreement. *)

Exchanges ==
  [state : Agreement!ExchangeStates \cup {"none"}, keys : SUBSET Agreement!Roles,
   commitments : SUBSET Agreement!Roles, same : BOOLEAN]
ExchangesTyped ==
  exchanges \in [1..MaxHandshakes -> Exchanges] /\ lapsed \subseteq Agreement!Ids

\* What an exchange has: both keys, both commitments, and one secret.
BothKeys(i) == exchanges[i].keys = Agreement!Roles
BothIn(i) == BothKeys(i) /\ exchanges[i].commitments = Agreement!Roles
Backed(i) == BothIn(i) /\ exchanges[i].same

\* What a call in flight relies on.
Compares(call) ==
  call.op = "compare" \/ (call.op \in {"sync", "syncWrite"} /\ call.compare)
CallBacked(call) ==
  /\ call.op = "key" /\ call.state = "keysExchanged" =>
       exchanges[call.id].keys \cup {call.role} = Agreement!Roles
  /\ call.op = "commit" => BothKeys(call.id)
  /\ Compares(call) => BothIn(call.id)
  /\ call.op = "sync" /\ call.target = "cryptoComplete" => Backed(call.id)
  /\ call.op \in {"move", "syncWrite"} /\ Agreement!Last(call.path) = "cryptoComplete" =>
       Backed(call.id)

BackedInv ==
  /\ \A i \in 1..MaxHandshakes :
       /\ exchanges[i].state = "established" => Backed(i)
       /\ exchanges[i].state = "keysExchanged" \/ exchanges[i].commitments # {} =>
            BothKeys(i)
  /\ \A i \in Agreement!Ids : Agreement!State(i) = "cryptoComplete" => Backed(i)
  /\ \A c \in Callers : CallBacked(calls[c])

AgreementInv == HandInv /\ ExchangesTyped /\ BackedInv

\* What an exchange has it keeps.
Grows ==
  \A i \in 1..MaxHandshakes :
    /\ BothKeys(i) => BothKeys(i)'
    /\ BothIn(i) => BothIn(i)'
    /\ Backed(i) => Backed(i)'
    /\ \A role \in Agreement!Roles : exchanges[i].keys \cup {role} = Agreement!Roles =>
         exchanges'[i].keys \cup {role} = Agreement!Roles

\* What a call knows of the exchanges stays true while they grow.
LEMMA StillBacked ==
  ASSUME Grows, NEW call \in HandCalls \cup AgreementCalls,
         call.op \notin {"idle", "create"} => call.id \in 1..MaxHandshakes,
         CallBacked(call)
  PROVE  CallBacked(call)'
<1>1. call.op \notin {"idle", "create"} => call.id \in 1..MaxHandshakes
  OBVIOUS
<1>2. call.op = "key" => call.role \in Agreement!Roles
  BY DEF HandCalls, AgreementCalls, Agreement!Idle
<1> QED
  BY <1>1, <1>2 DEF Grows, CallBacked, Compares

\* The identifiers of the handshakes that are stored.
LEMMA IdsAreBounded ==
  ASSUME Agreement!HandshakeAssumption, HandInv
  PROVE  Agreement!Ids \subseteq 1..MaxHandshakes /\ Agreement!Ids = 1..Len(sessions)
BY DEF HandInv, HandTyped, Agreement!Ids, Agreement!HandshakeAssumption

\* The calls stay backed when one of them goes on.
LEMMA CallsStayBacked ==
  ASSUME Agreement!HandshakeAssumption, AgreementInv, Grows, NEW c \in Callers,
         NEW call \in HandCalls \cup AgreementCalls, Agreement!Busy(c, call),
         CallBacked(call)'
  PROVE  \A d \in Callers : CallBacked(calls[d])'
<1> SUFFICES ASSUME NEW d \in Callers PROVE CallBacked(calls[d])'
  OBVIOUS
<1>1. /\ calls \in [Callers -> HandCalls \cup AgreementCalls]
      /\ calls' = [calls EXCEPT ![c] = call]
      /\ calls[d].op \notin {"idle", "create"} => calls[d].id \in 1..MaxHandshakes
  BY IdsAreBounded DEF AgreementInv, HandInv, HandTyped, Agreement!Busy
<1>2. CallBacked(calls[d])
  BY DEF AgreementInv, BackedInv
<1>3. CASE d # c
  <2> DEFINE was == calls[d]
  <2>1. calls'[d] = calls[d]
    BY <1>1, <1>3
  <2>2. \A x \in HandCalls \cup AgreementCalls :
          (x.op \notin {"idle", "create"} => x.id \in 1..MaxHandshakes) /\ CallBacked(x)
            => CallBacked(x)'
    BY StillBacked
  <2> QED
    BY <1>1, <1>2, <2>1, <2>2 DEF CallBacked, Compares, BothIn, BothKeys, Backed
<1>4. CASE d = c
  <2>1. calls'[d] = call
    BY <1>1, <1>4
  <2> QED
    BY <2>1 DEF CallBacked, Compares, BothIn, BothKeys, Backed
<1> QED
  BY <1>3, <1>4

\* The states that the key agreement takes a handshake through.
LEMMA ChainFacts ==
  /\ Agreement!Chain \in Seq(Agreement!States) /\ Len(Agreement!Chain) = 6
  /\ \A t \in Targets : Agreement!ChainIndex(t) \in 1..6 /\ Agreement!Chain[Agreement!ChainIndex(t)] = t
  /\ \A s : Agreement!ChainIndex(s) \in 0..6
<1>1. Agreement!Chain \in Seq(Agreement!States) /\ Len(Agreement!Chain) = 6 /\ DOMAIN Agreement!Chain = 1..6
  BY DEF Agreement!Chain, Agreement!States, Agreement!ActiveStates,
     Agreement!CryptoStates, Agreement!TerminalStates
<1>2. /\ Agreement!Chain[2] = "generating" /\ Agreement!Chain[3] = "waitingKey" /\ Agreement!Chain[4] = "deriving"
      /\ Agreement!Chain[5] = "established" /\ Agreement!Chain[6] = "cryptoComplete"
  BY DEF Agreement!Chain
<1>3. ASSUME NEW s, Agreement!Contains(Agreement!Chain, s)
      PROVE  Agreement!ChainIndex(s) \in 1..6 /\ Agreement!Chain[Agreement!ChainIndex(s)] = s
  <2>1. \E n \in DOMAIN Agreement!Chain : Agreement!Chain[n] = s
    BY <1>1, <1>3 DEF Agreement!Contains
  <2> QED
    BY <1>1, <1>3, <2>1 DEF Agreement!ChainIndex
<1>4. \A t \in Targets : Agreement!Contains(Agreement!Chain, t)
  BY <1>1, <1>2 DEF Targets, Agreement!Contains
<1>5. \A s : ~ Agreement!Contains(Agreement!Chain, s) => Agreement!ChainIndex(s) = 0
  BY DEF Agreement!ChainIndex
<1> QED
  BY <1>1, <1>3, <1>4, <1>5

\* The way along the chain to a later state ends there.
LEMMA WayAlong ==
  ASSUME NEW from \in 0..6, NEW to \in 1..6, from < to
  PROVE  /\ SubSeq(Agreement!Chain, from + 1, to) \in Histories
         /\ Agreement!Last(SubSeq(Agreement!Chain, from + 1, to)) = Agreement!Chain[to]
<1> PICK chain : chain = Agreement!Chain
  OBVIOUS
<1> PICK path : path = SubSeq(chain, from + 1, to)
  OBVIOUS
<1>0. chain \in Seq(Agreement!States) /\ Len(chain) = 6
  BY ChainFacts
<1>1. \A n \in 1..6 : chain[n] \in Agreement!States
  BY <1>0, ElementOfSeq
<1>2. from + 1 \in Int /\ to \in Int /\ \A n \in from + 1..to : n \in 1..6
  OBVIOUS
<1>3. /\ path \in Seq(Agreement!States)
      /\ Len(path) = IF from + 1 <= to THEN to - (from + 1) + 1 ELSE 0
      /\ \A n \in 1..to - (from + 1) + 1 : path[n] = chain[(from + 1) + n - 1]
  BY <1>1, <1>2, SubSeqProperties
<1>4. Len(path) = to - from /\ to - from \in 1..to - (from + 1) + 1
        /\ (from + 1) + (to - from) - 1 = to /\ to - from # 0
  BY <1>3
<1>5. path[Len(path)] = chain[to] /\ path # <<>>
  BY <1>3, <1>4
<1> QED
  BY <1>3, <1>5 DEF Histories, Agreement!Last

\* No agreement is under way at first.
LEMMA InitAgreement ==
  ASSUME Agreement!HandshakeAssumption, Agreement!AgreementInit PROVE AgreementInv
<1>1. HandInv /\ Agreement!Ids = {}
  BY InitHand DEF Agreement!AgreementInit, Agreement!Init, Agreement!Ids
<1>2. Agreement!NoExchange \in Exchanges /\ Agreement!NoExchange.state = "none"
                  /\ Agreement!NoExchange.commitments = {}
  BY DEF Agreement!NoExchange, Exchanges
<1>3. ExchangesTyped
  BY <1>2 DEF Agreement!AgreementInit, ExchangesTyped
<1>4. \A c \in Callers : calls[c].op = "idle"
  BY DEF Agreement!AgreementInit, Agreement!Init, Agreement!Idle
<1>5. BackedInv
  BY <1>1, <1>2, <1>4 DEF Agreement!AgreementInit, BackedInv, CallBacked, Compares
<1> QED
  BY <1>1, <1>3, <1>5 DEF AgreementInv

\* A handshake moves on, and the call with it; the exchanges do not.
LEMMA MoveKeepsAgreement ==
  ASSUME Agreement!HandshakeAssumption, AgreementInv, UNCHANGED <<exchanges, lapsed>>,
         NEW c \in Callers, NEW i \in Agreement!Ids, NEW h \in Histories,
         NEW more \in BOOLEAN, Writes(i, h, more) \/ WritesHistory(i, h),
         Agreement!Last(h) = "cryptoComplete" => Backed(i), late' = late,
         NEW call \in HandCalls \cup AgreementCalls, Agreement!Busy(c, call),
         call.op # "create", call.op # "idle" => call.id \in Agreement!Ids,
         CallBacked(call)
  PROVE  AgreementInv'
<1>1. HandInv'
  BY HistoryKeeps DEF AgreementInv
<1>2. /\ Agreement!Ids' = Agreement!Ids /\ sessions'[i].history = h
      /\ \A j \in Agreement!Ids : j # i => sessions'[j] = sessions[j]
  BY HistoryWritten DEF AgreementInv, HandInv, HandTyped
<1>3. \A j : Backed(j)' <=> Backed(j)
  BY DEF Backed, BothIn, BothKeys
<1>4. Grows /\ CallBacked(call)'
  BY DEF Grows, CallBacked, Compares, Backed, BothIn, BothKeys
<1>5. \A d \in Callers : CallBacked(calls[d])'
  BY <1>4, CallsStayBacked
<1>6. \A j \in Agreement!Ids' : Agreement!State(j)' = "cryptoComplete" => Backed(j)'
  BY <1>2, <1>3 DEF AgreementInv, BackedInv, Agreement!State
<1>7. ExchangesTyped'
  BY <1>2 DEF AgreementInv, ExchangesTyped
<1> QED
  BY <1>1, <1>5, <1>6, <1>7 DEF AgreementInv, BackedInv, Backed, BothIn, BothKeys

\* A call goes on and may add to the exchanges; the handshakes stay as they are.
LEMMA ReadKeepsAgreement ==
  ASSUME Agreement!HandshakeAssumption, AgreementInv, ExchangesTyped', Grows,
         NEW c \in Callers, NEW call \in HandCalls \cup AgreementCalls,
         Reads(c, call),
         call.op = "create" => Follows(call.retryCount, call.previous),
         call.op \notin {"idle", "create"} => call.id \in Agreement!Ids,
         CallBacked(call)',
         \A i \in 1..MaxHandshakes :
           /\ exchanges'[i].state = "established" => Backed(i)'
           /\ exchanges'[i].state = "keysExchanged" \/ exchanges'[i].commitments # {} =>
                BothKeys(i)'
  PROVE  AgreementInv'
<1>1. HandInv' /\ sessions' = sessions /\ Agreement!Ids' = Agreement!Ids
  BY ReadKeeps DEF AgreementInv, Reads, Agreement!Ids
<1>2. \A d \in Callers : CallBacked(calls[d])'
  BY CallsStayBacked DEF Reads
<1>3. \A j \in Agreement!Ids' : Agreement!State(j)' = "cryptoComplete" => Backed(j)'
  <2>1. Agreement!Ids \subseteq 1..MaxHandshakes
    BY IdsAreBounded DEF AgreementInv
  <2> QED
    BY <1>1, <2>1 DEF AgreementInv, BackedInv, Agreement!State, Grows
<1> QED
  BY <1>1, <1>2, <1>3 DEF AgreementInv, BackedInv

\* The same when the exchanges do not change.
LEMMA ThinkKeepsAgreement ==
  ASSUME Agreement!HandshakeAssumption, AgreementInv, UNCHANGED <<exchanges, lapsed>>,
         NEW c \in Callers, NEW call \in HandCalls \cup AgreementCalls,
         Reads(c, call),
         call.op = "create" => Follows(call.retryCount, call.previous),
         call.op \notin {"idle", "create"} => call.id \in Agreement!Ids,
         CallBacked(call)
  PROVE  AgreementInv'
<1>1. Grows /\ CallBacked(call)'
  BY DEF Grows, CallBacked, Compares, Backed, BothIn, BothKeys
<1>2. ExchangesTyped'
  BY DEF AgreementInv, ExchangesTyped, Reads, Agreement!Ids
<1>3. \A i \in 1..MaxHandshakes :
        /\ exchanges'[i].state = "established" => Backed(i)'
        /\ exchanges'[i].state = "keysExchanged" \/ exchanges'[i].commitments # {} =>
             BothKeys(i)'
  BY DEF AgreementInv, BackedInv, Backed, BothIn, BothKeys
<1> QED
  BY <1>1, <1>2, <1>3, ReadKeepsAgreement

\* A new handshake has nothing to be backed yet.
LEMMA CreateKeepsAgreement ==
  ASSUME Agreement!HandshakeAssumption, AgreementInv, UNCHANGED <<exchanges, lapsed>>,
         NEW c \in Callers, Agreement!Create(c)
  PROVE  AgreementInv'
<1> DEFINE s == Agreement!createSession(calls[c].retryCount, calls[c].previous)
           n == Len(sessions) + 1
<1>1. HandInv'
  BY CreateKeeps DEF AgreementInv
<1> PICK call : call = Agreement!Moving(n, <<"created">>, <<"initialized">>)
  OBVIOUS
<1>2. sessions' = Append(sessions, s) /\ sessions \in Seq(Handshakes) /\ Agreement!Busy(c, call)
  BY DEF Agreement!Create, AgreementInv, HandInv, HandTyped
<1>3. /\ Agreement!Ids' = Agreement!Ids \cup {n} /\ sessions'[n] = s /\ n \in Nat
      /\ \A i \in Agreement!Ids : sessions'[i] = sessions[i]
  BY <1>2 DEF Agreement!Ids
<1>4. s.history = <<"created">> /\ Agreement!Last(s.history) = "created"
  BY DEF Agreement!createSession, Agreement!Last
<1>5. <<"created">> \in Histories /\ <<"initialized">> \in Histories
  BY DEF Histories, Agreement!States, Agreement!ActiveStates
<1>6. call \in HandCalls /\ call.op = "move" /\ Agreement!Last(call.path) = "initialized"
  BY <1>3, <1>5 DEF Agreement!Moving, HandCalls, Agreement!Last, Histories
<1> HIDE DEF s
<1>7. CallBacked(call)' /\ Grows
  BY <1>6 DEF CallBacked, Compares, Grows, Backed, BothIn, BothKeys
<1>8. \A d \in Callers : CallBacked(calls[d])'
  BY <1>2, <1>6, <1>7, CallsStayBacked
<1>9. \A j \in Agreement!Ids' : Agreement!State(j)' = "cryptoComplete" => Backed(j)'
  BY <1>3, <1>4 DEF AgreementInv, BackedInv, Agreement!State, Backed, BothIn, BothKeys
<1>10. ExchangesTyped'
  BY <1>3 DEF AgreementInv, ExchangesTyped
<1> QED
  BY <1>1, <1>8, <1>9, <1>10 DEF AgreementInv, BackedInv, Backed, BothIn, BothKeys

\* The operations of handshakes leave the exchanges alone.
LEMMA HandshakeKeepsAgreement ==
  ASSUME Agreement!HandshakeAssumption, AgreementInv, Agreement!Next,
         UNCHANGED <<exchanges, lapsed>>
  PROVE  AgreementInv'
<1>1. ASSUME NEW c \in Callers, Agreement!Write(c) PROVE AgreementInv'
  <2> DEFINE h == calls[c].base \o calls[c].path
  <2>1. /\ calls[c].op = "move" /\ calls[c].id \in Agreement!Ids /\ late' = late
        /\ h \in Histories /\ Agreement!Last(h) = Agreement!Last(calls[c].path)
    BY <1>1, WriteIs DEF AgreementInv, HandInv
  <2>2. PICK more \in BOOLEAN : Writes(calls[c].id, h, more)
    BY <1>1, WriteIs DEF AgreementInv, HandInv
  <2>3. PICK call \in HandCalls :
          /\ Agreement!Busy(c, call) /\ call.op \in {"idle", "move"}
          /\ call.op = "move" => call.id \in Agreement!Ids /\ call.path = <<"waiting">>
    BY <1>1, WriteIs DEF AgreementInv, HandInv
  <2>4. Agreement!Last(h) = "cryptoComplete" => Backed(calls[c].id)
    BY <2>1 DEF AgreementInv, BackedInv, CallBacked
  <2>5. CallBacked(call)
    <3>1. Agreement!Last(<<"waiting">>) = "waiting"
      BY DEF Agreement!Last
    <3>2. call.op = "move" => Agreement!Last(call.path) = "waiting"
      BY <2>3, <3>1
    <3> QED
      BY <2>3, <3>2 DEF CallBacked, Compares
  <2> HIDE DEF h
  <2> QED
    BY <2>1, <2>2, <2>3, <2>4, <2>5, MoveKeepsAgreement
<1>2. ASSUME NEW i \in Agreement!Ids, Agreement!Expire(i) PROVE AgreementInv'
  <2>1. sessions' = sessions /\ calls' = calls
    BY <1>2 DEF Agreement!Expire
  <2>2. HandInv'
    BY HandStep DEF AgreementInv
  <2>3. Agreement!Ids' = Agreement!Ids
    BY <2>1 DEF Agreement!Ids
  <2> QED
    BY <2>1, <2>2, <2>3 DEF AgreementInv, ExchangesTyped, BackedInv, CallBacked,
       Compares, Backed, BothIn, BothKeys, Agreement!State
<1>3. ASSUME NEW c \in Callers, NEW call, Reads(c, call), InMind(call)
      PROVE  AgreementInv'
  <2>1. /\ call \in HandCalls
        /\ call.op = "create" => Follows(call.retryCount, call.previous)
        /\ call.op \in {"create", "move"}
        /\ call.op = "move" => call.id \in Agreement!Ids /\ Agreement!Last(call.path) \in MovesTo
    BY <1>3, CallsInMind DEF AgreementInv, Agreement!Last
  <2>2. CallBacked(call)
    BY <2>1 DEF CallBacked, Compares, MovesTo
  <2> QED
    BY <1>3, <2>1, <2>2, ThinkKeepsAgreement
<1> QED
  BY <1>1, <1>2, <1>3, CreateKeepsAgreement, NextIs

\* A step of the agreement changes one exchange at most, and one call.
LEMMA NegotiateKeeps ==
  ASSUME Agreement!HandshakeAssumption, AgreementInv, NEW c \in Callers,
         NEW i \in Agreement!Ids,
         Agreement!Negotiate(c, i)
  PROVE  AgreementInv'
<1> DEFINE call == Agreement!Syncing(i, "generating", FALSE)
<1>1. i \in 1..MaxHandshakes /\ i \in Nat
  BY IdsAreBounded DEF AgreementInv
<1>2. PICK same \in BOOLEAN : exchanges' = [exchanges EXCEPT ![i] =
         [Agreement!NoExchange EXCEPT !.state = "awaitingInitiatorKey", !.same = same]]
  BY DEF Agreement!Negotiate
<1> DEFINE new == [Agreement!NoExchange EXCEPT !.state = "awaitingInitiatorKey", !.same = same]
<1>3. /\ new \in Exchanges /\ new.state = "awaitingInitiatorKey"
      /\ new.commitments = {} /\ new.keys = {}
  BY DEF Agreement!NoExchange, Exchanges, Agreement!ExchangeStates
<1>4. exchanges[i].keys = {} /\ exchanges[i].commitments = {}
  BY DEF Agreement!Negotiate, Agreement!NoExchange
<1>5. exchanges \in [1..MaxHandshakes -> Exchanges]
  BY DEF AgreementInv, ExchangesTyped
<1> HIDE DEF new
<1>6. /\ exchanges'[i] = new /\ \A j \in 1..MaxHandshakes : j # i =>
           exchanges'[j] = exchanges[j]
      /\ exchanges' \in [1..MaxHandshakes -> Exchanges]
  BY <1>1, <1>2, <1>3, <1>5 DEF new
<1>7. Grows
  BY <1>1, <1>3, <1>4, <1>6 DEF Grows, Backed, BothIn, BothKeys, Agreement!Roles
<1>8. Reads(c, call) /\ lapsed' = lapsed
  BY DEF Agreement!Negotiate, Reads
<1>9. call \in AgreementCalls /\ call.op = "sync" /\ call.id = i
        /\ call.target = "generating" /\ ~ call.compare
  BY <1>1 DEF AgreementCalls, Agreement!Syncing, Targets
<1> HIDE DEF call
<1>10. CallBacked(call)'
  BY <1>9 DEF CallBacked, Compares
<1>11. ExchangesTyped'
  BY <1>6, <1>8 DEF AgreementInv, ExchangesTyped, Reads, Agreement!Ids
<1>12. \A j \in 1..MaxHandshakes :
         /\ exchanges'[j].state = "established" => Backed(j)'
         /\ exchanges'[j].state = "keysExchanged" \/ exchanges'[j].commitments # {} =>
              BothKeys(j)'
  BY <1>3, <1>6 DEF AgreementInv, BackedInv, Backed, BothIn, BothKeys
<1> QED
  BY <1>7, <1>8, <1>9, <1>10, <1>11, <1>12, ReadKeepsAgreement

\* What one exchange becomes.
IsBacked(exchange) ==
  exchange.keys = Agreement!Roles /\ exchange.commitments = Agreement!Roles /\ exchange.same
Becomes(i, new) == exchanges' = [exchanges EXCEPT ![i] = new] /\ lapsed' = lapsed

\* A call writes the exchange it works on, and goes on or ends.
LEMMA ExchangeKeeps ==
  ASSUME Agreement!HandshakeAssumption, AgreementInv, NEW i \in Agreement!Ids,
         NEW new \in Exchanges,
         Becomes(i, new), exchanges[i].keys \subseteq new.keys,
         exchanges[i].commitments \subseteq new.commitments,
         new.same = exchanges[i].same,
         new.state = "established" => IsBacked(new),
         new.state = "keysExchanged" \/ new.commitments # {} => new.keys = Agreement!Roles,
         NEW c \in Callers, NEW call \in HandCalls \cup AgreementCalls,
         Reads(c, call), call.op # "create",
         call.op \notin {"idle", "create"} => call.id \in Agreement!Ids,
         CallBacked(call)'
  PROVE  AgreementInv'
<1>1. i \in 1..MaxHandshakes
  BY IdsAreBounded DEF AgreementInv
<1>2. exchanges \in [1..MaxHandshakes -> Exchanges]
  BY DEF AgreementInv, ExchangesTyped
<1>3. /\ exchanges'[i] = new
      /\ \A j \in 1..MaxHandshakes : j # i => exchanges'[j] = exchanges[j]
      /\ exchanges' \in [1..MaxHandshakes -> Exchanges]
  BY <1>1, <1>2 DEF Becomes
<1>4. new.keys \subseteq Agreement!Roles /\ new.commitments \subseteq Agreement!Roles
  BY DEF Exchanges
<1>5. Grows
  <2>1. /\ exchanges[i].keys = Agreement!Roles => new.keys = Agreement!Roles
        /\ exchanges[i].commitments = Agreement!Roles => new.commitments = Agreement!Roles
        /\ \A role \in Agreement!Roles : exchanges[i].keys \cup {role} = Agreement!Roles =>
             new.keys \cup {role} = Agreement!Roles
    BY <1>4
  <2> QED
    BY <1>1, <1>3, <2>1 DEF Grows, Backed, BothIn, BothKeys
<1>6. ExchangesTyped'
  BY <1>3 DEF AgreementInv, ExchangesTyped, Reads, Agreement!Ids, Becomes
<1>7. \A j \in 1..MaxHandshakes :
         /\ exchanges'[j].state = "established" => Backed(j)'
         /\ exchanges'[j].state = "keysExchanged" \/ exchanges'[j].commitments # {} =>
              BothKeys(j)'
  BY <1>3 DEF AgreementInv, BackedInv, Backed, BothIn, BothKeys, IsBacked
<1> QED
  BY <1>5, <1>6, <1>7, ReadKeepsAgreement

\* What is known of a call in flight.
LEMMA KnownCall ==
  ASSUME Agreement!HandshakeAssumption, AgreementInv, NEW c \in Callers,
         calls[c].op \notin {"idle", "create"}
  PROVE  /\ calls[c] \in HandCalls \cup AgreementCalls /\ CallBacked(calls[c])
         /\ calls[c].id \in Agreement!Ids /\ calls[c].id \in 1..MaxHandshakes
         /\ calls[c].id \in Nat /\ exchanges[calls[c].id] \in Exchanges
BY IdsAreBounded DEF AgreementInv, HandInv, HandTyped, ExchangesTyped, BackedInv

\* The history of a stored handshake.
LEMMA HistoryTyped ==
  ASSUME AgreementInv, NEW i \in Agreement!Ids
  PROVE  sessions[i].history \in Seq(Agreement!States)
<1>1. sessions[i] \in Handshakes
  BY DEF AgreementInv, HandInv, HandTyped, Agreement!Ids
<1> QED
  BY <1>1 DEF Handshakes, Histories

\* submitPublicKey up to its first await.
LEMMA SubmitKeyKeeps ==
  ASSUME Agreement!HandshakeAssumption, AgreementInv, NEW c \in Callers,
         NEW i \in Agreement!Ids,
         NEW role \in Agreement!Roles, Agreement!SubmitKey(c, i, role)
  PROVE  AgreementInv'
<1> PICK call : call =
      [op |-> "key", id |-> i, role |-> role,
       state |-> IF exchanges[i].keys \cup {role} = Agreement!Roles THEN "keysExchanged"
                 ELSE IF role = "initiator" THEN "awaitingResponderKey"
                 ELSE "awaitingInitiatorKey"]
  OBVIOUS
<1>1. Reads(c, call) /\ UNCHANGED <<exchanges, lapsed>>
  BY DEF Agreement!SubmitKey, Reads
<1>2. i \in Nat
  BY IdsAreBounded DEF AgreementInv
<1>3. call \in AgreementCalls /\ call.op = "key" /\ call.id = i
  BY <1>2 DEF AgreementCalls, Waits
<1>4. call.state = "keysExchanged" => exchanges[i].keys \cup {role} = Agreement!Roles
  OBVIOUS
<1>5. CallBacked(call)
  BY <1>3, <1>4 DEF CallBacked, Compares
<1> QED
  BY <1>1, <1>3, <1>5, ThinkKeepsAgreement

\* The rest of submitPublicKey: the key is stored, the handshake to follow.
LEMMA StoreKeyKeeps ==
  ASSUME Agreement!HandshakeAssumption, AgreementInv, NEW c \in Callers,
         Agreement!StoreKey(c)
  PROVE  AgreementInv'
<1> PICK i, old, new, call :
      /\ i = calls[c].id /\ old = exchanges[i]
      /\ new = [old EXCEPT !.keys = @ \cup {calls[c].role}, !.state = calls[c].state]
      /\ call = Agreement!Syncing(i, IF calls[c].state = "keysExchanged" THEN "deriving"
                                     ELSE "waitingKey", FALSE)
  OBVIOUS
<1>1. calls[c].op = "key" /\ Reads(c, call) /\ Becomes(i, new)
  BY DEF Agreement!StoreKey, Reads, Becomes
<1>2. /\ i \in Agreement!Ids /\ i \in 1..MaxHandshakes /\ i \in Nat /\ old \in Exchanges
      /\ calls[c] \in HandCalls \cup AgreementCalls /\ CallBacked(calls[c])
  BY <1>1, KnownCall
<1>3. calls[c].role \in Agreement!Roles /\ calls[c].state \in Waits
  BY <1>1, <1>2 DEF HandCalls, AgreementCalls, Agreement!Idle
<1>4. /\ new \in Exchanges /\ new.keys = old.keys \cup {calls[c].role}
      /\ new.commitments = old.commitments /\ new.same = old.same
      /\ new.state = calls[c].state
  BY <1>2, <1>3 DEF Exchanges, Waits, Agreement!ExchangeStates
<1>5. calls[c].state = "keysExchanged" => old.keys \cup {calls[c].role} = Agreement!Roles
  BY <1>1, <1>2 DEF CallBacked
<1>6. old.commitments # {} => old.keys = Agreement!Roles
  BY <1>2 DEF AgreementInv, BackedInv, BothKeys
<1>7. old.keys = Agreement!Roles => old.keys \cup {calls[c].role} = Agreement!Roles
  BY <1>3
<1>8. call \in AgreementCalls /\ call.op = "sync" /\ call.id = i
        /\ call.target # "cryptoComplete" /\ ~ call.compare
  BY <1>2 DEF Agreement!Syncing, AgreementCalls, Targets
<1>9. CallBacked(call)'
  BY <1>8 DEF CallBacked, Compares
<1> QED
  BY <1>1, <1>2, <1>3, <1>4, <1>5, <1>6, <1>7, <1>8, <1>9, ExchangeKeeps DEF Waits

\* submitKeyCommitment up to its first await.
LEMMA SubmitCommitmentKeeps ==
  ASSUME Agreement!HandshakeAssumption, AgreementInv, NEW c \in Callers,
         NEW i \in Agreement!Ids,
         NEW role \in Agreement!Roles, Agreement!SubmitCommitment(c, i, role)
  PROVE  AgreementInv'
<1> PICK call : call = [op |-> "commit", id |-> i, role |-> role]
  OBVIOUS
<1>1. Reads(c, call) /\ UNCHANGED <<exchanges, lapsed>>
  BY DEF Agreement!SubmitCommitment, Reads
<1>2. i \in Nat /\ i \in 1..MaxHandshakes
  BY IdsAreBounded DEF AgreementInv
<1>3. call \in AgreementCalls /\ call.op = "commit" /\ call.id = i
  BY <1>2 DEF AgreementCalls
<1>4. BothKeys(i)
  BY <1>2 DEF Agreement!SubmitCommitment, AgreementInv, BackedInv
<1>5. CallBacked(call)
  BY <1>3, <1>4 DEF CallBacked, Compares
<1> QED
  BY <1>1, <1>3, <1>5, ThinkKeepsAgreement

\* The rest of submitKeyCommitment: the second commitment is to be compared.
LEMMA StoreCommitmentKeeps ==
  ASSUME Agreement!HandshakeAssumption, AgreementInv, NEW c \in Callers,
         Agreement!StoreCommitment(c)
  PROVE  AgreementInv'
<1> PICK i, old, new, call :
      /\ i = calls[c].id /\ old = exchanges[i]
      /\ new = [old EXCEPT !.commitments = old.commitments \cup {calls[c].role}]
      /\ call = Agreement!Syncing(i, "established", old.commitments \cup {calls[c].role} = Agreement!Roles)
  OBVIOUS
<1>1. calls[c].op = "commit" /\ Reads(c, call) /\ Becomes(i, new)
  BY DEF Agreement!StoreCommitment, Reads, Becomes
<1>2. /\ i \in Agreement!Ids /\ i \in 1..MaxHandshakes /\ i \in Nat /\ old \in Exchanges
      /\ calls[c] \in HandCalls \cup AgreementCalls /\ CallBacked(calls[c])
  BY <1>1, KnownCall
<1>3. calls[c].role \in Agreement!Roles
  BY <1>1, <1>2 DEF HandCalls, AgreementCalls, Agreement!Idle
<1>4. /\ new \in Exchanges /\ new.keys = old.keys
      /\ new.commitments = old.commitments \cup {calls[c].role}
      /\ new.same = old.same /\ new.state = old.state
  BY <1>2, <1>3 DEF Exchanges
<1>5. old.keys = Agreement!Roles
  BY <1>1, <1>2 DEF CallBacked, BothKeys
<1>6. old.state = "established" => old.commitments = Agreement!Roles /\ IsBacked(new)
  <2>1. old.state = "established" => Backed(i)
    BY <1>2 DEF AgreementInv, BackedInv
  <2>2. Backed(i) => old.commitments = Agreement!Roles /\ old.same
    BY DEF Backed, BothIn
  <2>3. old.commitments = Agreement!Roles => new.commitments = Agreement!Roles
    BY <1>3, <1>4
  <2> QED
    BY <1>4, <1>5, <2>1, <2>2, <2>3, Zenon DEF IsBacked
<1>7. old.commitments = Agreement!Roles => old.commitments \cup {calls[c].role} = Agreement!Roles
  BY <1>3
<1>8. /\ call \in AgreementCalls /\ call.op = "sync" /\ call.id = i
      /\ call.target # "cryptoComplete"
      /\ call.compare => new.commitments = Agreement!Roles
  BY <1>2, <1>4 DEF Agreement!Syncing, AgreementCalls, Targets
<1>9. exchanges'[i] = new
  BY <1>1, <1>2 DEF Becomes, AgreementInv, ExchangesTyped
<1>10. CallBacked(call)'
  <2>1. call.compare => BothIn(call.id)'
    <3>1. exchanges'[call.id] = new
      BY <1>8, <1>9
    <3>2. new.keys = Agreement!Roles /\ (call.compare => new.commitments = Agreement!Roles)
      BY <1>4, <1>5, <1>8
    <3> QED
      BY <3>1, <3>2, Zenon DEF BothIn, BothKeys
  <2>2. /\ call.op = "sync" /\ call.target # "cryptoComplete" /\ call' = call
        /\ call.compare => BothIn(call.id)'
    BY <1>8, <2>1
  <2> QED
    BY <2>2 DEF CallBacked, Compares
<1> QED
  BY <1>1, <1>2, <1>4, <1>5, <1>6, <1>7, <1>8, <1>10, ExchangeKeeps

\* The comparison ends the agreement, or fails it.
LEMMA CompareKeeps ==
  ASSUME Agreement!HandshakeAssumption, AgreementInv, NEW c \in Callers,
         Agreement!Compare(c)
  PROVE  AgreementInv'
<1> PICK i, old, new, call :
      /\ i = calls[c].id /\ old = exchanges[i]
      /\ new = [old EXCEPT !.state = IF old.same THEN "established" ELSE "failed"]
      /\ call = IF old.same THEN Agreement!Syncing(i, "cryptoComplete", FALSE) ELSE Agreement!Failing(i)
  OBVIOUS
<1>1. calls[c].op = "compare" /\ Reads(c, call) /\ Becomes(i, new)
  BY DEF Agreement!Compare, Reads, Becomes
<1>2. /\ i \in Agreement!Ids /\ i \in 1..MaxHandshakes /\ i \in Nat /\ old \in Exchanges
      /\ CallBacked(calls[c])
  BY <1>1, KnownCall
<1>3. old.keys = Agreement!Roles /\ old.commitments = Agreement!Roles
  BY <1>1, <1>2 DEF CallBacked, Compares, BothIn, BothKeys
<1>4. /\ new \in Exchanges /\ new.keys = old.keys /\ new.same = old.same
      /\ new.commitments = old.commitments
      /\ new.state = IF old.same THEN "established" ELSE "failed"
  BY <1>2 DEF Exchanges, Agreement!ExchangeStates
<1>5. exchanges'[i] = new
  BY <1>1, <1>2 DEF Becomes, AgreementInv, ExchangesTyped
<1>6. CASE old.same
  <2>1. call \in AgreementCalls /\ call.op = "sync" /\ call.id = i /\ ~ call.compare
    BY <1>2, <1>6 DEF Agreement!Syncing, AgreementCalls, Targets
  <2>0. exchanges'[i].same
    BY <1>4, <1>5, <1>6, Zenon
  <2>4. BothIn(i)'
    BY <1>3, <1>4, <1>5 DEF BothIn, BothKeys
  <2>5. Backed(i)'
    BY <2>0, <2>4 DEF Backed
  <2>2. CallBacked(call)'
    BY <2>1, <2>5 DEF CallBacked, Compares
  <2>3. /\ new.state = "established" => IsBacked(new)
        /\ new.state = "keysExchanged" \/ new.commitments # {} => new.keys = Agreement!Roles
        /\ exchanges[i].keys \subseteq new.keys
        /\ exchanges[i].commitments \subseteq new.commitments
        /\ new.same = exchanges[i].same
    <3>1. new.same
      BY <1>4, <1>6, Zenon
    <3>2. IsBacked(new)
      BY <1>3, <1>4, <3>1, Zenon DEF IsBacked
    <3> QED
      BY <1>3, <1>4, <3>2
  <2> QED
    BY <1>1, <1>2, <1>4, <2>1, <2>2, <2>3, ExchangeKeeps
<1>7. CASE ~ old.same
  <2>1. call \in AgreementCalls /\ call.op = "fail" /\ call.id = i
    BY <1>2, <1>7 DEF Agreement!Failing, AgreementCalls
  <2>2. CallBacked(call)'
    BY <2>1 DEF CallBacked, Compares
  <2>3. new.state = "failed"
    BY <1>4, <1>7, Zenon
  <2>4. /\ exchanges[i].keys \subseteq new.keys
        /\ exchanges[i].commitments \subseteq new.commitments
        /\ new.same = exchanges[i].same /\ new.keys = Agreement!Roles
    BY <1>3, <1>4
  <2> QED
    BY <1>1, <1>2, <1>4, <2>1, <2>2, <2>3, <2>4, ExchangeKeeps
<1> QED
  BY <1>6, <1>7

\* The handshake is to follow its exchange, along the chain of states.
LEMMA SyncKeeps ==
  ASSUME Agreement!HandshakeAssumption, AgreementInv, NEW c \in Callers, Agreement!Sync(c)
  PROVE  AgreementInv'
<1> PICK i, from, to, call :
      /\ i = calls[c].id /\ from = Agreement!ChainIndex(Agreement!State(i))
      /\ to = Agreement!ChainIndex(calls[c].target)
      /\ call = IF from = 0 \/ to <= from
                  THEN IF calls[c].compare THEN Agreement!Comparing(i) ELSE Agreement!Idle
                ELSE [op |-> "syncWrite", id |-> i, base |-> sessions[i].history,
                      path |-> SubSeq(Agreement!Chain, from + 1, to),
                      compare |-> calls[c].compare]
  OBVIOUS
<1>1. calls[c].op = "sync" /\ Reads(c, call) /\ UNCHANGED <<exchanges, lapsed>>
  BY DEF Agreement!Sync, Reads
<1>2. /\ i \in Agreement!Ids /\ i \in Nat /\ CallBacked(calls[c])
      /\ calls[c] \in HandCalls \cup AgreementCalls
  BY <1>1, KnownCall
<1>3. calls[c].target \in Targets /\ calls[c].compare \in BOOLEAN
  BY <1>1, <1>2 DEF HandCalls, AgreementCalls, Agreement!Idle
<1>4. from \in 0..6 /\ to \in 1..6 /\ Agreement!Chain[to] = calls[c].target
        /\ Agreement!Chain \in Seq(Agreement!States) /\ Len(Agreement!Chain) = 6
  BY <1>3, ChainFacts
<1>5. (calls[c].compare => BothIn(i))
        /\ (calls[c].target = "cryptoComplete" => Backed(i))
  BY <1>1, <1>2 DEF CallBacked, Compares
<1>6. CASE from = 0 \/ to <= from
  <2>1. \/ call \in AgreementCalls /\ call.op = "compare" /\ call.id = i
           /\ calls[c].compare
        \/ call \in HandCalls /\ call.op = "idle"
    BY <1>2, <1>6 DEF Agreement!Comparing, Agreement!Idle, HandCalls, AgreementCalls
  <2>2. CallBacked(call)
    BY <1>5, <2>1 DEF CallBacked, Compares
  <2> QED
    BY <1>1, <1>2, <2>1, <2>2, ThinkKeepsAgreement
<1>7. CASE ~ (from = 0 \/ to <= from)
  <2> PICK path : path = SubSeq(Agreement!Chain, from + 1, to)
    OBVIOUS
  <2>2. path \in Histories /\ Agreement!Last(path) = calls[c].target
    <3>1. from \in 0..6 /\ to \in 1..6 /\ from < to
      BY <1>4, <1>7
    <3> QED
      BY <1>4, <3>1, WayAlong
  <2>3. sessions[i].history \in Seq(Agreement!States)
    BY <1>2, HistoryTyped
  <2>4. call \in AgreementCalls /\ call.op = "syncWrite" /\ call.id = i
          /\ call.path = path /\ call.compare = calls[c].compare
    BY <1>2, <1>3, <1>7, <2>2, <2>3 DEF AgreementCalls
  <2>5. CallBacked(call)
    BY <1>5, <2>2, <2>4 DEF CallBacked, Compares
  <2> QED
    BY <1>1, <1>2, <2>4, <2>5, ThinkKeepsAgreement
<1> QED
  BY <1>6, <1>7

\* The handshake has followed, and the commitments may be compared.
LEMMA SyncWriteKeeps ==
  ASSUME Agreement!HandshakeAssumption, AgreementInv, NEW c \in Callers,
         Agreement!SyncWrite(c)
  PROVE  AgreementInv'
<1> PICK i, h, call :
      /\ i = calls[c].id /\ h = calls[c].base \o calls[c].path
      /\ call = IF calls[c].compare THEN Agreement!Comparing(i) ELSE Agreement!Idle
  OBVIOUS
<1>1. /\ calls[c].op = "syncWrite" /\ Agreement!Busy(c, call) /\ late' = late
      /\ UNCHANGED <<exchanges, lapsed>> /\ WritesHistory(i, h)
  BY DEF Agreement!SyncWrite, WritesHistory
<1>2. /\ i \in Agreement!Ids /\ i \in Nat /\ CallBacked(calls[c])
      /\ calls[c] \in HandCalls \cup AgreementCalls
  BY <1>1, KnownCall
<1>3. calls[c].base \in Seq(Agreement!States) /\ calls[c].path \in Histories
        /\ calls[c].compare \in BOOLEAN
  BY <1>1, <1>2 DEF HandCalls, AgreementCalls, Agreement!Idle
<1>4. h \in Histories /\ Agreement!Last(h) = Agreement!Last(calls[c].path)
  BY <1>3, JoinedHistory DEF Histories
<1>5. (calls[c].compare => BothIn(i)) /\ (Agreement!Last(h) = "cryptoComplete" => Backed(i))
  BY <1>1, <1>2, <1>4 DEF CallBacked, Compares
<1>6. \/ call \in AgreementCalls /\ call.op = "compare" /\ call.id = i
         /\ calls[c].compare
      \/ call \in HandCalls /\ call.op = "idle"
  BY <1>2 DEF Agreement!Comparing, Agreement!Idle, HandCalls, AgreementCalls
<1>7. CallBacked(call)
  BY <1>5, <1>6 DEF CallBacked, Compares
<1> QED
  BY <1>1, <1>2, <1>4, <1>5, <1>6, <1>7, MoveKeepsAgreement

\* A failure of the exchange goes on to the handshake.
LEMMA FailKeeps ==
  ASSUME Agreement!HandshakeAssumption, AgreementInv, NEW c \in Callers, Agreement!Fail(c)
  PROVE  AgreementInv'
<1> PICK i, call :
      /\ i = calls[c].id
      /\ call = IF Agreement!ChainIndex(Agreement!State(i)) # 0 /\ Agreement!canTransition(Agreement!State(i), "failed")
                  THEN Agreement!Moving(i, sessions[i].history, <<"failed">>) ELSE Agreement!Idle
  OBVIOUS
<1>1. calls[c].op = "fail" /\ Reads(c, call) /\ UNCHANGED <<exchanges, lapsed>>
  BY DEF Agreement!Fail, Reads
<1>2. i \in Agreement!Ids /\ i \in Nat
  BY <1>1, KnownCall
<1>3. sessions[i].history \in Seq(Agreement!States)
  BY <1>2, HistoryTyped
<1>4. <<"failed">> \in Histories /\ Agreement!Last(<<"failed">>) = "failed"
  BY DEF Histories, Agreement!Last, Agreement!States, Agreement!TerminalStates,
     Agreement!Failures
<1>5. \/ /\ call \in HandCalls /\ call.op = "move" /\ call.id = i
         /\ Agreement!Last(call.path) = "failed"
      \/ call \in HandCalls /\ call.op = "idle"
  BY <1>2, <1>3, <1>4 DEF Agreement!Moving, Agreement!Idle, HandCalls
<1>6. CallBacked(call)
  BY <1>5 DEF CallBacked, Compares
<1> QED
  BY <1>1, <1>2, <1>5, <1>6, ThinkKeepsAgreement

\* The sweep finds an exchange that has expired.
LEMMA SweepKeeps ==
  ASSUME Agreement!HandshakeAssumption, AgreementInv, NEW c \in Callers,
         NEW i \in Agreement!Ids,
         Agreement!Sweep(c, i)
  PROVE  AgreementInv'
<1> PICK call : call = [op |-> "sweep", id |-> i]
  OBVIOUS
<1>1. Reads(c, call) /\ UNCHANGED <<exchanges, lapsed>>
  BY DEF Agreement!Sweep, Reads
<1>2. call \in AgreementCalls /\ call.op = "sweep" /\ call.id = i
  BY DEF AgreementCalls, Agreement!Ids
<1>3. CallBacked(call)
  BY <1>2 DEF CallBacked, Compares
<1> QED
  BY <1>1, <1>2, <1>3, ThinkKeepsAgreement

\* The sweep marks it.
LEMMA SweepWriteKeeps ==
  ASSUME Agreement!HandshakeAssumption, AgreementInv, NEW c \in Callers,
         Agreement!SweepWrite(c)
  PROVE  AgreementInv'
<1> PICK i, old, new, call :
      /\ i = calls[c].id /\ old = exchanges[i]
      /\ new = [old EXCEPT !.state = "failed"] /\ call = Agreement!Failing(i)
  OBVIOUS
<1>1. calls[c].op = "sweep" /\ Reads(c, call) /\ Becomes(i, new)
  BY DEF Agreement!SweepWrite, Reads, Becomes
<1>2. i \in Agreement!Ids /\ i \in 1..MaxHandshakes /\ i \in Nat /\ old \in Exchanges
  BY <1>1, KnownCall
<1>3. /\ new \in Exchanges /\ new.keys = old.keys /\ new.same = old.same
      /\ new.commitments = old.commitments /\ new.state = "failed"
  BY <1>2 DEF Exchanges, Agreement!ExchangeStates
<1>4. old.commitments # {} => old.keys = Agreement!Roles
  BY <1>2 DEF AgreementInv, BackedInv, BothKeys
<1>5. call \in AgreementCalls /\ call.op = "fail" /\ call.id = i
  BY <1>2 DEF Agreement!Failing, AgreementCalls
<1>6. CallBacked(call)'
  BY <1>5 DEF CallBacked, Compares
<1> QED
  BY <1>1, <1>2, <1>3, <1>4, <1>5, <1>6, ExchangeKeeps

\* Every step of the key agreement keeps its invariant.
LEMMA AgreementStep ==
  ASSUME Agreement!HandshakeAssumption, AgreementInv,
         [Agreement!AgreementNext]_Agreement!agreementVars
  PROVE  AgreementInv'
<1>1. ASSUME NEW i \in Agreement!Ids, Agreement!Lapse(i) PROVE AgreementInv'
  <2>1. sessions' = sessions /\ calls' = calls /\ exchanges' = exchanges
          /\ lapsed' = lapsed \cup {i} /\ UNCHANGED Agreement!vars
    BY <1>1 DEF Agreement!Lapse, Agreement!vars
  <2>2. HandInv' /\ Agreement!Ids' = Agreement!Ids
    BY <2>1, HandStep DEF AgreementInv, Agreement!Ids
  <2> QED
    BY <2>1, <2>2 DEF AgreementInv, ExchangesTyped, BackedInv, CallBacked, Compares,
       Backed, BothIn, BothKeys, Agreement!State
<1>2. CASE UNCHANGED Agreement!agreementVars
  <2>1. sessions' = sessions /\ calls' = calls /\ exchanges' = exchanges
          /\ lapsed' = lapsed /\ UNCHANGED Agreement!vars
    BY <1>2 DEF Agreement!agreementVars, Agreement!vars
  <2>2. HandInv' /\ Agreement!Ids' = Agreement!Ids
    BY <2>1, HandStep DEF AgreementInv, Agreement!Ids
  <2> QED
    BY <2>1, <2>2 DEF AgreementInv, ExchangesTyped, BackedInv, CallBacked, Compares,
       Backed, BothIn, BothKeys, Agreement!State
<1> QED
  BY <1>1, <1>2, HandshakeKeepsAgreement, NegotiateKeeps, SubmitKeyKeeps, StoreKeyKeeps,
     SubmitCommitmentKeeps, StoreCommitmentKeeps, CompareKeeps, SyncKeeps,
     SyncWriteKeeps, FailKeeps, SweepKeeps, SweepWriteKeeps DEF Agreement!AgreementNext

\* What the invariant says of the properties of the run.
LEMMA AgreementMeans ==
  ASSUME Agreement!HandshakeAssumption, AgreementInv
  PROVE  Agreement!CompleteIsBacked /\ Agreement!AgreementTypeOK
<1>1. Agreement!Ids \subseteq 1..MaxHandshakes
  BY IdsAreBounded DEF AgreementInv
<1>2. Agreement!CompleteIsBacked
  BY <1>1 DEF AgreementInv, BackedInv, Agreement!CompleteIsBacked, Backed, BothIn,
     BothKeys
<1>3. Agreement!AgreementTypeOK
  BY <1>1, HandMeans DEF AgreementInv, ExchangesTyped, Exchanges,
     Agreement!AgreementTypeOK
<1> QED
  BY <1>2, <1>3

\* A handshake whose key agreement is complete has the keys and the equal
\* commitments of both participants (CompleteIsBacked).
THEOREM CompleteStaysBacked ==
  ASSUME Agreement!HandshakeAssumption
  PROVE  Agreement!AgreementSpec => []Agreement!CompleteIsBacked
BY InitAgreement, AgreementStep, AgreementMeans, PTL DEF Agreement!AgreementSpec

-----------------------------------------------------------------------------
\* Calls of a session that was started: none starts or deletes it.
GenerationRecords == [started : BOOLEAN, gen : Nat, live : SUBSET Nat]
GenerationCalls ==
  [op : {"idle"}, ok : BOOLEAN]
    \cup [op : {"evolve", "destroy"}, copy : GenerationRecords]
    \cup [op : {"write"}, copy : [gen : Nat, live : SUBSET Nat]]

\* The store is at the generation of the record, or one further while a single
\* call is to write it there, or for good when that write failed; then no call
\* evolves any more.
GenerationsInv ==
  /\ store \in [gen : Nat \cup {-1}, held : SUBSET Nat]
  /\ record \in GenerationRecords /\ calls \in [Callers -> GenerationCalls]
  /\ store.gen \in {-1, record.gen, record.gen + 1}
  /\ \A c \in Callers :
       /\ calls[c].op = "write" =>
            calls[c].copy.gen = record.gen + 1 /\ store.gen \in {-1, record.gen + 1}
       /\ calls[c].op = "evolve" => calls[c].copy.gen <= record.gen
  /\ \A c, d \in Callers : calls[c].op = "write" /\ calls[d].op = "write" => c = d

\* A step of one caller's call.
Calling(c) ==
  \/ Rekey!Evolve(c) \/ Rekey!Destroy(c) \/ Rekey!Proceed(c)
  \/ Rekey!Busy(c, Rekey!Ended(FALSE)) /\ UNCHANGED <<store, record>>

\* What a step of one caller's call does to the others and to the record.
Advances(c) ==
  /\ \A d \in Callers \ {c} : calls'[d] = calls[d]
  /\ record'.gen \in {record.gen, record.gen + 1}
  /\ calls'[c].op = "idle" /\ calls'[c].ok =>
       calls[c].op = "destroy" \/ record'.gen = record.gen + 1
  /\ calls[c].op \in {"evolve", "write"} => calls'[c].op \in {"idle", "write"}

LEMMA CallTyped ==
  ASSUME NEW r \in GenerationCalls
  PROVE  /\ r.op \in {"idle", "evolve", "destroy", "write"}
         /\ r.op = "idle" => r.ok \in BOOLEAN
         /\ r.op \in {"evolve", "destroy"} => r.copy \in GenerationRecords
         /\ r.op = "write" => r.copy \in [gen : Nat, live : SUBSET Nat]
BY DEF GenerationCalls

LEMMA EndedTyped ==
  ASSUME NEW ok \in BOOLEAN
  PROVE Rekey!Ended(ok) \in GenerationCalls /\ Rekey!Ended(ok).op = "idle" /\ Rekey!Ended(ok).ok = ok
BY DEF Rekey!Ended, GenerationCalls

LEMMA WithTyped ==
  ASSUME NEW op \in {"evolve", "destroy"}, NEW copy \in GenerationRecords
  PROVE  Rekey!With(op, copy) \in GenerationCalls /\ Rekey!With(op, copy).op = op /\ Rekey!With(op, copy).copy = copy
BY DEF Rekey!With, GenerationCalls

LEMMA WriteTyped ==
  ASSUME NEW copy \in [gen : Nat, live : SUBSET Nat]
  PROVE  Rekey!With("write", copy) \in GenerationCalls /\ Rekey!With("write", copy).op = "write" /\ Rekey!With("write", copy).copy = copy
BY DEF Rekey!With, GenerationCalls

\* A call that neither writes nor evolves takes another's place.
LEMMA Rests ==
  ASSUME GenerationsInv, NEW c \in Callers, NEW r \in GenerationCalls, Rekey!Busy(c, r),
         r.op # "write", r.op = "evolve" => r.copy.gen <= record.gen,
         store' \in {store, Rekey!Gone}, record' \in GenerationRecords,
         record'.gen = record.gen
  PROVE  GenerationsInv'
<1>1. calls' \in [Callers -> GenerationCalls] /\ calls'[c] = r
      /\ \A d \in Callers \ {c} : calls'[d] = calls[d]
  BY DEF GenerationsInv, Rekey!Busy
<1>2. store' \in [gen : Nat \cup {-1}, held : SUBSET Nat] /\ store'.gen \in {store.gen, -1}
  BY DEF GenerationsInv, Rekey!Gone
<1> QED
  BY <1>1, <1>2 DEF GenerationsInv

\* The record and the store move by one generation, or not at all, in each step.
LEMMA CallingKeeps ==
  ASSUME Rekey!ForwardSecrecyAssumption, GenerationsInv, NEW c \in Callers, Calling(c)
  PROVE  GenerationsInv' /\ Advances(c)
<1>0. /\ calls \in [Callers -> GenerationCalls] /\ calls[c] \in GenerationCalls
      /\ record \in GenerationRecords /\ record.gen \in Nat
  BY DEF GenerationsInv, GenerationRecords
<1>1. record # Rekey!NoRecord
  BY <1>0 DEF Rekey!NoRecord, GenerationRecords
<1>2. /\ calls[c].op \in {"idle", "evolve", "destroy", "write"}
      /\ calls[c].op = "idle" => calls[c].ok \in BOOLEAN
      /\ calls[c].op \in {"evolve", "destroy"} => calls[c].copy \in GenerationRecords
      /\ calls[c].op = "write" => calls[c].copy \in [gen : Nat, live : SUBSET Nat]
  BY <1>0, CallTyped
<1>3. CASE Rekey!Evolve(c)
  <2>1. Rekey!With("evolve", record) \in GenerationCalls /\ Rekey!With("evolve", record).op = "evolve"
        /\ Rekey!With("evolve", record).copy = record
    BY <1>0, WithTyped
  <2>2. GenerationsInv'
    BY <1>0, <1>3, <2>1, Rests DEF Rekey!Evolve
  <2>3. Advances(c)
    BY <1>0, <1>3, <2>1 DEF Rekey!Evolve, Rekey!Busy, Advances, Rekey!Free
  <2> QED
    BY <2>2, <2>3
<1>4. CASE Rekey!Destroy(c)
  <2>1. Rekey!With("destroy", record) \in GenerationCalls /\ Rekey!With("destroy", record).op = "destroy"
    BY <1>0, WithTyped
  <2>2. GenerationsInv'
    BY <1>0, <1>4, <2>1, Rests DEF Rekey!Destroy
  <2>3. Advances(c)
    BY <1>0, <1>4, <2>1 DEF Rekey!Destroy, Rekey!Busy, Advances, Rekey!Free
  <2> QED
    BY <2>2, <2>3
<1>5. CASE Rekey!Busy(c, Rekey!Ended(FALSE)) /\ UNCHANGED <<store, record>>
  <2>1. Rekey!Ended(FALSE) \in GenerationCalls /\ Rekey!Ended(FALSE).op = "idle" /\ Rekey!Ended(FALSE).ok = FALSE
    BY EndedTyped
  <2>2. GenerationsInv'
    BY <1>0, <1>5, <2>1, Rests
  <2>3. Advances(c)
    BY <1>0, <1>5, <2>1 DEF Rekey!Busy, Advances
  <2> QED
    BY <2>2, <2>3
<1>6. CASE Rekey!Commit(c)
  <2> DEFINE copy == calls[c].copy
             after == Rekey!Committed(copy.gen + 1)
             live == (copy.live \ (store.held \ after.held)) \cup {copy.gen + 1}
  <2>1. calls[c].op = "evolve" /\ copy \in GenerationRecords /\ copy.gen \in Nat /\ copy.live \subseteq Nat
        /\ copy.gen <= record.gen /\ store.gen = copy.gen
    BY <1>2, <1>6 DEF Rekey!Commit, GenerationsInv, GenerationRecords
  <2>2. store.gen = record.gen /\ copy.gen = record.gen
    BY <1>0, <2>1 DEF GenerationsInv
  <2>3. \A d \in Callers : calls[d].op # "write"
    BY <1>0, <2>2 DEF GenerationsInv
  <2>4. after.gen = record.gen + 1 /\ after.held \subseteq Nat
        /\ after \in [gen : Nat \cup {-1}, held : SUBSET Nat]
    <3>1. store.held \cup {record.gen + 1} \subseteq Nat
      BY <1>0 DEF GenerationsInv
    <3> QED
      BY <1>0, <2>2, <3>1 DEF Rekey!Committed
  <2>5. live \subseteq Nat
    BY <2>1
  <2> DEFINE r == [gen |-> copy.gen + 1, live |-> live]
  <2>6. r \in [gen : Nat, live : SUBSET Nat] /\ r.gen = record.gen + 1
    BY <1>0, <2>2, <2>5
  <2>7. store' = after /\ Rekey!Busy(c, Rekey!With("write", r)) /\ record' = record
    BY <1>6 DEF Rekey!Commit
  <2> HIDE DEF after, live, r
  <2>8. Rekey!With("write", r) \in GenerationCalls /\ Rekey!With("write", r).op = "write" /\ Rekey!With("write", r).copy = r
    BY <2>6, WriteTyped
  <2>9. calls' \in [Callers -> GenerationCalls] /\ calls'[c] = Rekey!With("write", r)
        /\ \A d \in Callers \ {c} : calls'[d] = calls[d]
    BY <1>0, <2>7, <2>8 DEF Rekey!Busy
  <2>10. GenerationsInv'
    BY <1>0, <2>3, <2>4, <2>6, <2>7, <2>8, <2>9 DEF GenerationsInv
  <2>11. Advances(c)
    BY <1>0, <2>7, <2>8, <2>9 DEF Advances
  <2> QED
    BY <2>10, <2>11
<1>7. CASE Rekey!Write(c)
  <2>1. calls[c].op = "write" /\ calls[c].copy \in [gen : Nat, live : SUBSET Nat]
        /\ calls[c].copy.gen = record.gen + 1 /\ store.gen \in {-1, record.gen + 1}
    BY <1>2, <1>7 DEF Rekey!Write, GenerationsInv
  <2>2. record' \in GenerationRecords /\ record'.gen = record.gen + 1
    BY <1>0, <1>7, <2>1 DEF Rekey!Write, GenerationRecords
  <2>3. Rekey!Ended(TRUE) \in GenerationCalls /\ Rekey!Ended(TRUE).op = "idle"
    BY EndedTyped
  <2>4. calls' \in [Callers -> GenerationCalls] /\ calls'[c] = Rekey!Ended(TRUE)
        /\ (\A d \in Callers \ {c} : calls'[d] = calls[d]) /\ store' = store
    BY <1>0, <1>7, <2>3 DEF Rekey!Write, Rekey!Busy
  <2>5. \A d \in Callers \ {c} : calls[d].op # "write"
    BY <2>1 DEF GenerationsInv
  <2>6. \A d \in Callers : calls[d].op = "evolve" => calls[d].copy.gen \in Nat
    BY <1>0, CallTyped DEF GenerationRecords
  <2>7. GenerationsInv'
    <3>1. \A d \in Callers : calls'[d].op # "write"
      BY <2>3, <2>4, <2>5
    <3>2. \A d \in Callers : calls'[d].op = "evolve" => calls'[d].copy.gen <= record'.gen
      <4> SUFFICES ASSUME NEW d \in Callers, calls'[d].op = "evolve"
                   PROVE  calls'[d].copy.gen <= record'.gen
        OBVIOUS
      <4>1. calls'[d] = calls[d]
        BY <2>3, <2>4
      <4>2. calls[d].copy.gen \in Nat /\ calls[d].copy.gen <= record.gen
        BY <2>6, <4>1 DEF GenerationsInv
      <4> QED
        BY <1>0, <2>2, <4>1, <4>2
    <3>3. store' \in [gen : Nat \cup {-1}, held : SUBSET Nat]
          /\ store'.gen \in {-1, record'.gen, record'.gen + 1}
      BY <2>1, <2>2, <2>4 DEF GenerationsInv
    <3> QED
      BY <2>2, <2>4, <3>1, <3>2, <3>3 DEF GenerationsInv
  <2>8. Advances(c)
    BY <1>0, <2>1, <2>2, <2>3, <2>4 DEF Advances
  <2> QED
    BY <2>7, <2>8
<1>8. CASE Rekey!CommitRefused(c) \/ Rekey!WriteFails(c)
  <2>1. Rekey!Busy(c, Rekey!Ended(FALSE)) /\ UNCHANGED <<store, record>>
    BY <1>8 DEF Rekey!CommitRefused, Rekey!WriteFails
  <2> QED
    BY <1>5, <2>1
<1>9. CASE Rekey!DestroyWrite(c)
  <2>1. Rekey!Ended(TRUE) \in GenerationCalls /\ Rekey!Ended(TRUE).op = "idle"
    BY EndedTyped
  <2>2. record' = [record EXCEPT !.started = FALSE, !.live = {}] /\ Rekey!Busy(c, Rekey!Ended(TRUE))
        /\ store' = store /\ calls[c].op = "destroy"
    BY <1>1, <1>9 DEF Rekey!DestroyWrite
  <2>3. record' \in GenerationRecords /\ record'.gen = record.gen
    BY <1>0, <2>2 DEF GenerationRecords
  <2>4. GenerationsInv'
    BY <2>1, <2>2, <2>3, Rests
  <2>5. Advances(c)
    BY <1>0, <2>1, <2>2, <2>3 DEF Rekey!Busy, Advances
  <2> QED
    BY <2>4, <2>5
<1>10. ~ Rekey!StartWrite(c) /\ ~ Rekey!DeleteWrite(c)
  BY <1>2 DEF Rekey!StartWrite, Rekey!DeleteWrite
<1> QED
  BY <1>3, <1>4, <1>5, <1>6, <1>7, <1>8, <1>9, <1>10 DEF Calling, Rekey!Proceed

TriggerSteps ==
  {"idle", "checked", "expecting", "queued", "begun", "executing", "evolving"}
TriggerRecords ==
  [step : TriggerSteps, expected : Nat \cup {-1}, id : Nat, attempt : Nat]
ExecutionRecords ==
  [state : {"pending", "executing", "completed", "failed", "cancelled"},
   expected : Nat, cancelled : BOOLEAN]
PendingRecords == [id : Nat, state : {"none", "pending", "executing"}]

\* A trigger whose execution was begun and has not ended.
Works(c) == Rekey!Step(c) \in {"begun", "executing", "evolving"}
Expected(c) == triggers[c].expected
Id(c) == triggers[c].id

\* A trigger expects a generation the session was at, and only the one at the
\* head of the lock works.  While it executes no other execution is complete
\* that expected the same; and when its evolution has succeeded the session
\* has moved on.
TriggerFits(c) ==
  /\ Rekey!Step(c) \notin {"idle", "checked"} => Expected(c) \in 0..record.gen
  /\ Rekey!Step(c) \notin {"idle", "evolving"} => Rekey!Free(c)
  /\ Rekey!Step(c) = "evolving" => calls[c].op \in {"idle", "evolve", "write"}
  /\ Rekey!Step(c) = "evolving" /\ Rekey!Free(c) /\ calls[c].ok => Expected(c) < record.gen
  /\ Works(c) => /\ Rekey!Running(c) /\ Id(c) \in DOMAIN executions
                 /\ executions[Id(c)].expected = Expected(c)
  /\ Rekey!Step(c) \in {"executing", "evolving"} =>
             \A j \in DOMAIN executions :
               Rekey!Completed(j) /\ j # Id(c) => executions[j].expected # Expected(c)

ExecutionsTyped ==
  /\ executions \in Seq(ExecutionRecords)
  /\ pending \in PendingRecords
  /\ pending.state # "none" => pending.id \in DOMAIN executions

BurstInv ==
  /\ GenerationsInv
  /\ triggers \in [Callers -> TriggerRecords] /\ queue \in Seq(Callers)
  /\ ExecutionsTyped
  /\ \A c \in Callers : TriggerFits(c)
  /\ \A j \in DOMAIN executions : Rekey!Completed(j) => executions[j].expected < record.gen
  /\ Rekey!BurstRekeysOnce

LEMMA InitBurst == ASSUME Rekey!ForwardSecrecyAssumption, Rekey!RekeyInit PROVE BurstInv
<1>1. GenerationsInv
  <2>1. store \in [gen : Nat \cup {-1}, held : SUBSET Nat] /\ store.gen = 0
    BY DEF Rekey!RekeyInit, Rekey!Fresh
  <2>2. record \in GenerationRecords /\ record.gen = 0
    BY DEF Rekey!RekeyInit, Rekey!NewRecord, GenerationRecords
  <2>3. \A c \in Callers : calls[c] \in GenerationCalls /\ calls[c].op = "idle"
    BY EndedTyped DEF Rekey!RekeyInit
  <2>4. calls \in [Callers -> GenerationCalls]
    BY <2>3 DEF Rekey!RekeyInit
  <2> QED
    BY <2>1, <2>2, <2>3, <2>4 DEF GenerationsInv
<1>2. triggers \in [Callers -> TriggerRecords] /\ \A c \in Callers : Rekey!Step(c) = "idle"
  BY DEF Rekey!RekeyInit, Rekey!NoTrigger, TriggerRecords, TriggerSteps, Rekey!Step
<1>3. \A c \in Callers : TriggerFits(c)
  BY <1>2 DEF TriggerFits, Works
<1>4. executions = <<>> /\ queue = <<>> /\ pending = Rekey!None
  BY DEF Rekey!RekeyInit
<1>5. pending \in PendingRecords /\ pending.state = "none"
  BY <1>4 DEF Rekey!None, PendingRecords
<1>6. DOMAIN executions = {} /\ executions \in Seq(ExecutionRecords) /\ queue \in Seq(Callers)
  BY <1>4
<1> QED
  BY <1>1, <1>2, <1>3, <1>5, <1>6 DEF BurstInv, ExecutionsTyped, Rekey!BurstRekeysOnce

\* One trigger works at a time.
LEMMA OneWorks ==
  ASSUME BurstInv, NEW c \in Callers, NEW d \in Callers, Works(c), Works(d)
  PROVE  c = d
BY DEF BurstInv, TriggerFits, Rekey!Running

\* Who works is in the lock.
LEMMA LockHeld ==
  ASSUME BurstInv PROVE \A d \in Callers : Works(d) => queue # <<>>
BY DEF BurstInv, TriggerFits, Rekey!Running

\* A step of one trigger, beside the calls.
LEMMA TriggerKeeps ==
  ASSUME BurstInv, NEW c \in Callers, UNCHANGED Rekey!vars,
         NEW r \in TriggerRecords, triggers' = [triggers EXCEPT ![c] = r],
         TriggerFits(c)', queue' \in Seq(Callers), ExecutionsTyped',
         \A d \in Callers \ {c} :
           Works(d) => queue' # <<>> /\ Head(queue') = Head(queue),
         DOMAIN executions \subseteq DOMAIN executions',
         \A j \in DOMAIN executions : executions'[j].expected = executions[j].expected,
         \A j \in DOMAIN executions' : Rekey!Completed(j)' =>
           /\ j \in DOMAIN executions
           /\ \/ Rekey!Completed(j)
              \/ Rekey!Step(c) = "evolving" /\ j = Id(c) /\ Expected(c) < record.gen
  PROVE  BurstInv'
<1>1. triggers' \in [Callers -> TriggerRecords]
      /\ \A d \in Callers \ {c} : triggers'[d] = triggers[d]
  BY DEF BurstInv
<1>2. record' = record /\ calls' = calls /\ GenerationsInv'
  BY DEF Rekey!vars, BurstInv, GenerationsInv
<1>3. ASSUME NEW d \in Callers \ {c} PROVE TriggerFits(d)'
  <2>1. /\ Rekey!Step(d)' = Rekey!Step(d) /\ Expected(d)' = Expected(d) /\ Id(d)' = Id(d)
        /\ Rekey!Free(d)' = Rekey!Free(d) /\ calls'[d] = calls[d] /\ (Works(d)' <=> Works(d))
    BY <1>1, <1>2 DEF Rekey!Step, Expected, Id, Rekey!Free, Works
  <2>2. TriggerFits(d)
    BY DEF BurstInv
  <2>3. Works(d) => /\ Rekey!Running(d)' /\ Id(d) \in DOMAIN executions'
                    /\ executions'[Id(d)].expected = Expected(d)
    BY <2>2 DEF TriggerFits, Rekey!Running
  <2>4. ASSUME Rekey!Step(d) \in {"executing", "evolving"}, NEW j \in DOMAIN executions', Rekey!Completed(j)',
               j # Id(d)
        PROVE  executions'[j].expected # Expected(d)
    <3>1. Rekey!Step(c) # "evolving"
      BY <2>4, OneWorks DEF Works
    <3>2. j \in DOMAIN executions /\ Rekey!Completed(j)
      BY <2>4, <3>1
    <3> QED
      BY <2>2, <2>4, <3>2 DEF TriggerFits
  <2> QED
    BY <1>2, <2>1, <2>2, <2>3, <2>4 DEF TriggerFits
<1>4. \A j \in DOMAIN executions' : Rekey!Completed(j)' => executions'[j].expected < record'.gen
  BY <1>2 DEF BurstInv, TriggerFits, Works
<1>5. Rekey!BurstRekeysOnce'
  <2> SUFFICES ASSUME NEW i \in DOMAIN executions', NEW j \in DOMAIN executions',
                      i # j, Rekey!Completed(i)', Rekey!Completed(j)'
               PROVE  executions'[i].expected # executions'[j].expected
    BY DEF Rekey!BurstRekeysOnce
  <2>1. i \in DOMAIN executions /\ j \in DOMAIN executions
        /\ executions'[i].expected = executions[i].expected
        /\ executions'[j].expected = executions[j].expected
    OBVIOUS
  <2>2. CASE Rekey!Completed(i) /\ Rekey!Completed(j)
    BY <2>1, <2>2 DEF BurstInv, Rekey!BurstRekeysOnce
  <2>3. CASE Rekey!Step(c) = "evolving"
    <3>1. /\ executions[Id(c)].expected = Expected(c) /\ Id(c) \in DOMAIN executions
          /\ \A k \in DOMAIN executions :
               Rekey!Completed(k) /\ k # Id(c) => executions[k].expected # Expected(c)
      BY <2>3 DEF BurstInv, TriggerFits, Works
    <3> QED
      BY <2>1, <2>2, <3>1
  <2> QED
    BY <2>2, <2>3
<1> QED
  BY <1>1, <1>2, <1>3, <1>4, <1>5 DEF BurstInv

\* A step of one call: the session may move on by a generation.
LEMMA CallKeeps ==
  ASSUME Rekey!ForwardSecrecyAssumption, BurstInv, NEW c \in Callers, Calling(c),
         UNCHANGED <<queue, pending, executions>>,
         triggers' \in [Callers -> TriggerRecords],
         \A d \in Callers \ {c} : triggers'[d] = triggers[d],
         TriggerFits(c)'
  PROVE  BurstInv'
<1>1. GenerationsInv' /\ Advances(c)
  BY CallingKeeps DEF BurstInv
<1>2. record.gen \in Nat /\ record'.gen \in Nat /\ record.gen <= record'.gen
  BY <1>1 DEF BurstInv, GenerationsInv, GenerationRecords, Advances
<1>3. ASSUME NEW d \in Callers \ {c} PROVE TriggerFits(d)'
  <2>1. /\ Rekey!Step(d)' = Rekey!Step(d) /\ Expected(d)' = Expected(d) /\ Id(d)' = Id(d)
        /\ Rekey!Free(d)' = Rekey!Free(d) /\ calls'[d] = calls[d] /\ (Works(d)' <=> Works(d))
        /\ (Rekey!Running(d)' <=> Rekey!Running(d))
    BY <1>1 DEF Rekey!Step, Expected, Id, Rekey!Free, Works, Advances, Rekey!Running
  <2>2. TriggerFits(d)
    BY DEF BurstInv
  <2>3. Expected(d) \in 0..record.gen => Expected(d) \in 0..record'.gen
    BY <1>2
  <2>4. Expected(d) \in 0..record.gen /\ Expected(d) < record.gen => Expected(d) < record'.gen
    BY <1>2
  <2>5. Rekey!Step(d) = "evolving" => Expected(d) \in 0..record.gen
    BY <2>2 DEF TriggerFits
  <2> QED
    BY <2>1, <2>2, <2>3, <2>4, <2>5 DEF TriggerFits, Rekey!Completed
<1>4. ASSUME NEW j \in DOMAIN executions', Rekey!Completed(j)'
      PROVE  executions'[j].expected < record'.gen
  <2>1. j \in DOMAIN executions /\ Rekey!Completed(j) /\ executions' = executions
    BY <1>4 DEF Rekey!Completed
  <2>2. executions[j].expected < record.gen /\ executions[j].expected \in Nat
    <3>1. executions \in Seq(ExecutionRecords)
      BY DEF BurstInv, ExecutionsTyped
    <3>2. executions[j] \in ExecutionRecords
      BY <2>1, <3>1, ElementOfSeq
    <3> QED
      BY <2>1, <3>2 DEF BurstInv, ExecutionRecords
  <2> QED
    BY <1>2, <2>1, <2>2
<1>5. Rekey!BurstRekeysOnce' /\ ExecutionsTyped' /\ queue' \in Seq(Callers)
  BY DEF BurstInv, Rekey!BurstRekeysOnce, ExecutionsTyped, Rekey!Completed
<1> QED
  BY <1>1, <1>3, <1>4, <1>5 DEF BurstInv

LEMMA TriggerTyped ==
  ASSUME BurstInv, NEW c \in Callers
  PROVE  /\ triggers[c] \in TriggerRecords
         /\ triggers[c] = [step |-> Rekey!Step(c), expected |-> Expected(c), id |-> Id(c),
                           attempt |-> triggers[c].attempt]
         /\ Rekey!Step(c) \in TriggerSteps /\ Expected(c) \in Nat \cup {-1} /\ Id(c) \in Nat
         /\ triggers[c].attempt \in Nat
BY DEF BurstInv, TriggerRecords, Rekey!Step, Expected, Id

\* Only the step, and perhaps the attempt, of a trigger changes.
LEMMA GotoKeeps ==
  ASSUME BurstInv, NEW c \in Callers, NEW step \in TriggerSteps, NEW n \in Nat,
         triggers' = [triggers EXCEPT ![c].step = step]
           \/ triggers' = [triggers EXCEPT ![c].step = step, ![c].attempt = n]
  PROVE  /\ triggers' \in [Callers -> TriggerRecords]
         /\ triggers'[c] \in TriggerRecords
         /\ triggers' = [triggers EXCEPT ![c] = triggers'[c]]
         /\ \A d \in Callers \ {c} : triggers'[d] = triggers[d]
         /\ Rekey!Step(c)' = step /\ Expected(c)' = Expected(c) /\ Id(c)' = Id(c)
<1>1. /\ triggers \in [Callers -> TriggerRecords] /\ triggers[c] \in TriggerRecords
  BY DEF BurstInv
<1>2. PICK new \in TriggerRecords :
        /\ triggers' = [triggers EXCEPT ![c] = new]
        /\ new.step = step /\ new.expected = triggers[c].expected /\ new.id = triggers[c].id
  <2>1. CASE triggers' = [triggers EXCEPT ![c].step = step]
    <3>1. [triggers[c] EXCEPT !.step = step] \in TriggerRecords
      BY <1>1 DEF TriggerRecords
    <3> QED
      BY <1>1, <2>1, <3>1 DEF TriggerRecords
  <2>2. CASE triggers' = [triggers EXCEPT ![c].step = step, ![c].attempt = n]
    <3>1. [triggers[c] EXCEPT !.step = step, !.attempt = n] \in TriggerRecords
      BY <1>1 DEF TriggerRecords
    <3> QED
      BY <1>1, <2>2, <3>1 DEF TriggerRecords
  <2> QED
    BY <2>1, <2>2
<1>3. /\ triggers' \in [Callers -> TriggerRecords] /\ triggers'[c] = new
      /\ \A d \in Callers \ {c} : triggers'[d] = triggers[d]
  BY <1>1, <1>2
<1> QED
  BY <1>2, <1>3 DEF Rekey!Step, Expected, Id

\* The steps of the calls.
LEMMA CallSteps ==
  ASSUME Rekey!ForwardSecrecyAssumption, BurstInv, NEW c \in Callers,
         Rekey!Directly(c) \/ Rekey!CallEvolve(c) \/ (Rekey!Proceed(c) /\ UNCHANGED Rekey!rekey)
  PROVE  BurstInv'
<1>0. TriggerFits(c) /\ GenerationsInv /\ triggers \in [Callers -> TriggerRecords]
      /\ calls[c] \in GenerationCalls
  BY DEF BurstInv, GenerationsInv
<1>1. CASE Rekey!Directly(c)
  <2>1. Calling(c) /\ UNCHANGED Rekey!rekey /\ Rekey!Step(c) = "idle"
    BY <1>1 DEF Rekey!Directly, Calling
  <2>2. TriggerFits(c)'
    BY <2>1 DEF TriggerFits, Rekey!rekey, Rekey!Step, Works
  <2> QED
    BY <1>0, <2>1, <2>2, CallKeeps DEF Rekey!rekey
<1>2. CASE Rekey!CallEvolve(c)
  <2>1. /\ Rekey!Step(c) = "executing" /\ Rekey!Free(c) /\ Works(c)
        /\ triggers' = [triggers EXCEPT ![c].step = "evolving"]
        /\ UNCHANGED <<queue, pending, executions>> /\ Calling(c)
    BY <1>0, <1>2 DEF Rekey!CallEvolve, TriggerFits, Calling, Rekey!Goto, Works
  <2>2. /\ triggers' \in [Callers -> TriggerRecords]
        /\ \A d \in Callers \ {c} : triggers'[d] = triggers[d]
        /\ Rekey!Step(c)' = "evolving" /\ Expected(c)' = Expected(c) /\ Id(c)' = Id(c)
    BY <2>1, GotoKeeps DEF TriggerSteps
  <2>3. calls'[c].op \in {"idle", "evolve"} /\ (calls'[c].op = "idle" => calls'[c].ok = FALSE)
        /\ record' = record
    <3>1. CASE Rekey!Evolve(c)
      <4>1. Rekey!With("evolve", record).op = "evolve"
        BY DEF Rekey!With
      <4> QED
        BY <1>0, <3>1, <4>1 DEF Rekey!Evolve, Rekey!Busy, GenerationsInv
    <3>2. CASE Rekey!Busy(c, Rekey!Ended(FALSE)) /\ UNCHANGED <<store, record>>
      <4>1. Rekey!Ended(FALSE).op = "idle" /\ Rekey!Ended(FALSE).ok = FALSE
        BY EndedTyped
      <4> QED
        BY <1>0, <3>2, <4>1 DEF Rekey!Busy, GenerationsInv
    <3> QED
      BY <1>2, <3>1, <3>2 DEF Rekey!CallEvolve
  <2>4. TriggerFits(c)'
    BY <1>0, <2>1, <2>2, <2>3 DEF TriggerFits, Works, Rekey!Running, Rekey!Free, Rekey!Completed
  <2> QED
    BY <2>1, <2>2, <2>4, CallKeeps
<1>3. CASE Rekey!Proceed(c) /\ UNCHANGED Rekey!rekey
  <2>1. calls[c].op # "idle"
    BY <1>3 DEF Rekey!Proceed, Rekey!StartWrite, Rekey!Commit, Rekey!CommitRefused, Rekey!Write, Rekey!WriteFails, Rekey!DestroyWrite,
       Rekey!DeleteWrite
  <2>2. Rekey!Step(c) \in {"idle", "evolving"}
    BY <1>0, <2>1 DEF TriggerFits, Rekey!Free
  <2>3. Calling(c) /\ GenerationsInv' /\ Advances(c)
    BY <1>3, CallingKeeps DEF Calling, BurstInv
  <2>4. UNCHANGED <<triggers, queue, pending, executions>>
    BY <1>3 DEF Rekey!rekey
  <2>5. record.gen \in Nat /\ record'.gen \in {record.gen, record.gen + 1}
    BY <1>0, <2>3 DEF GenerationsInv, GenerationRecords, Advances
  <2>6. TriggerFits(c)'
    <3>1. CASE Rekey!Step(c) = "idle"
      BY <2>4, <3>1 DEF TriggerFits, Rekey!Step, Works
    <3>2. CASE Rekey!Step(c) = "evolving"
      <4>1. calls[c].op \in {"evolve", "write"} /\ Expected(c) \in 0..record.gen
        BY <1>0, <2>1, <3>2 DEF TriggerFits
      <4>2. calls'[c].op \in {"idle", "write"}
            /\ (calls'[c].op = "idle" /\ calls'[c].ok => record'.gen = record.gen + 1)
        BY <2>3, <4>1 DEF Advances
      <4>3. Expected(c) \in 0..record'.gen
            /\ (record'.gen = record.gen + 1 => Expected(c) < record'.gen)
        BY <2>5, <4>1
      <4> QED
        BY <1>0, <2>4, <3>2, <4>2, <4>3
           DEF TriggerFits, Works, Rekey!Running, Rekey!Free, Rekey!Completed, Rekey!Step, Expected, Id
    <3> QED
      BY <2>2, <3>1, <3>2
  <2> QED
    BY <1>0, <2>3, <2>4, <2>6, CallKeeps
<1> QED
  BY <1>1, <1>2, <1>3

\* Storing the state of an execution.
LEMMA Persisted ==
  ASSUME ExecutionsTyped, NEW id \in DOMAIN executions,
         NEW state \in {"executing", "completed", "failed", "cancelled"}, Rekey!Persist(id, state)
  PROVE  /\ ExecutionsTyped' /\ DOMAIN executions' = DOMAIN executions
         /\ \A j \in DOMAIN executions : executions'[j].expected = executions[j].expected
         /\ \A j \in DOMAIN executions :
              Rekey!Completed(j)' => Rekey!Completed(j) \/ (j = id /\ state = "completed")
<1>1. executions \in Seq(ExecutionRecords) /\ id \in 1..Len(executions)
  BY DEF ExecutionsTyped
<1>2. executions[id] \in ExecutionRecords
  BY <1>1, ElementOfSeq
<1> DEFINE e == [executions[id] EXCEPT !.state = state]
<1>3. e \in ExecutionRecords /\ e.state = state /\ e.expected = executions[id].expected
  BY <1>2 DEF ExecutionRecords
<1>4. executions' = [executions EXCEPT ![id] = e]
  BY DEF Rekey!Persist
<1> HIDE DEF e
<1>5. executions' \in Seq(ExecutionRecords) /\ DOMAIN executions' = DOMAIN executions
  BY <1>1, <1>3, <1>4, ExceptSeq
<1>6. \A j \in DOMAIN executions : executions'[j] = IF j = id THEN e ELSE executions[j]
  BY <1>1, <1>4
<1>7. pending' \in PendingRecords /\ (pending'.state # "none" => pending'.id \in DOMAIN executions')
  BY <1>1, <1>5 DEF Rekey!Persist, Rekey!None, PendingRecords
<1> QED
  BY <1>3, <1>5, <1>6, <1>7 DEF ExecutionsTyped, Rekey!Completed

\* Before the lock: an execution is asked for.
LEMMA AskingSteps ==
  ASSUME BurstInv, NEW c \in Callers, Rekey!Trigger(c) \/ Rekey!Expect(c) \/ Rekey!Submit(c)
  PROVE  BurstInv'
<1>1. UNCHANGED <<Rekey!vars, pending, executions>>
  BY DEF Rekey!Trigger, Rekey!Expect, Rekey!Submit
<1>2. /\ TriggerFits(c) /\ ExecutionsTyped' /\ record.gen \in Nat /\ queue \in Seq(Callers)
      /\ executions' = executions /\ record' = record /\ calls' = calls
  BY <1>1 DEF BurstInv, ExecutionsTyped, GenerationsInv, GenerationRecords, Rekey!vars
<1>3. \A j \in DOMAIN executions' : Rekey!Completed(j)' => Rekey!Completed(j)
  BY <1>2 DEF Rekey!Completed
<1>4. CASE Rekey!Trigger(c)
  <2>1. /\ triggers' \in [Callers -> TriggerRecords] /\ triggers'[c] \in TriggerRecords
        /\ triggers' = [triggers EXCEPT ![c] = triggers'[c]] /\ Rekey!Step(c)' = "checked"
    BY <1>4, GotoKeeps DEF Rekey!Trigger, Rekey!Goto, TriggerSteps
  <2>2. Rekey!Free(c)' /\ queue' = queue
    BY <1>2, <1>4 DEF Rekey!Trigger, Rekey!Free
  <2>3. TriggerFits(c)'
    BY <2>1, <2>2 DEF TriggerFits, Works
  <2> QED
    BY <1>1, <1>2, <1>3, <2>1, <2>2, <2>3, LockHeld, TriggerKeeps
<1>5. CASE Rekey!Expect(c)
  <2>1. /\ triggers' = [triggers EXCEPT ![c].step = "expecting", ![c].expected = record.gen]
        /\ Rekey!Step(c) = "checked" /\ queue' = queue
    BY <1>5 DEF Rekey!Expect
  <2>2. /\ triggers'[c] \in TriggerRecords
        /\ triggers' = [triggers EXCEPT ![c] = triggers'[c]]
        /\ Rekey!Step(c)' = "expecting" /\ Expected(c)' = record.gen
    BY <1>2, <2>1 DEF BurstInv, TriggerRecords, TriggerSteps, Rekey!Step, Expected
  <2>3. Rekey!Free(c)'
    BY <1>2, <2>1 DEF TriggerFits, Rekey!Free
  <2>4. TriggerFits(c)'
    BY <1>2, <2>2, <2>3 DEF TriggerFits, Works
  <2> QED
    BY <1>1, <1>2, <1>3, <2>1, <2>2, <2>4, LockHeld, TriggerKeeps
<1>6. CASE Rekey!Submit(c)
  <2>1. /\ triggers'[c] \in TriggerRecords /\ Rekey!Step(c) = "expecting"
        /\ triggers' = [triggers EXCEPT ![c] = triggers'[c]] /\ Rekey!Step(c)' = "queued"
        /\ Expected(c)' = Expected(c)
    BY <1>6, GotoKeeps DEF Rekey!Submit, Rekey!Goto, TriggerSteps
  <2>2. queue' = Append(queue, c)
    BY <1>6 DEF Rekey!Submit
  <2>3. queue' \in Seq(Callers) /\ (queue # <<>> => queue' # <<>> /\ Head(queue') = Head(queue))
    BY <1>2, <2>2
  <2>4. \A d \in Callers \ {c} : Works(d) => queue # <<>>
    BY DEF BurstInv, TriggerFits, Rekey!Running
  <2>5. TriggerFits(c)'
    BY <1>2, <2>1 DEF TriggerFits, Works, Rekey!Free
  <2> QED
    BY <1>1, <1>2, <1>3, <2>1, <2>3, <2>4, <2>5, TriggerKeeps
<1> QED
  BY <1>4, <1>5, <1>6

LEMMA NoTriggerTyped == Rekey!NoTrigger \in TriggerRecords /\ Rekey!NoTrigger.step = "idle"
BY DEF Rekey!NoTrigger, TriggerRecords, TriggerSteps

\* A trigger leaves the lock: nobody else worked.
LEMMA LeaveKeeps ==
  ASSUME BurstInv, NEW c \in Callers, Works(c), Rekey!Leave(c), UNCHANGED Rekey!vars, ExecutionsTyped',
         DOMAIN executions' = DOMAIN executions,
         \A j \in DOMAIN executions : executions'[j].expected = executions[j].expected,
         \A j \in DOMAIN executions : Rekey!Completed(j)' =>
           Rekey!Completed(j) \/ (Rekey!Step(c) = "evolving" /\ j = Id(c) /\ Expected(c) < record.gen)
  PROVE  BurstInv'
<1>1. queue \in Seq(Callers) /\ queue # <<>>
  BY DEF BurstInv, TriggerFits, Rekey!Running
<1>2. queue' \in Seq(Callers)
  BY <1>1 DEF Rekey!Leave
<1>3. triggers' = [triggers EXCEPT ![c] = Rekey!NoTrigger] /\ Rekey!Step(c)' = "idle"
  BY NoTriggerTyped DEF Rekey!Leave, Rekey!Step, BurstInv
<1>4. TriggerFits(c)'
  BY <1>3 DEF TriggerFits, Works
<1>5. \A d \in Callers \ {c} : ~ Works(d)
  BY OneWorks
<1> QED
  BY <1>2, <1>3, <1>4, <1>5, NoTriggerTyped, TriggerKeeps

\* In the lock: the execution begins, is dropped or executed.
LEMMA StartingSteps ==
  ASSUME BurstInv, NEW c \in Callers, Rekey!Begin(c) \/ Rekey!Coalesce(c) \/ Rekey!Execute(c)
  PROVE  BurstInv'
<1>1. /\ TriggerFits(c) /\ ExecutionsTyped /\ record.gen \in Nat /\ queue \in Seq(Callers)
      /\ UNCHANGED Rekey!vars /\ record' = record /\ calls' = calls /\ Rekey!Running(c)
      /\ executions \in Seq(ExecutionRecords)
  BY DEF BurstInv, ExecutionsTyped, GenerationsInv, GenerationRecords, Rekey!vars, Rekey!Begin, Rekey!Coalesce,
     Rekey!Execute
<1>2. CASE Rekey!Begin(c)
  <2> DEFINE id == Len(executions) + 1
             e == [state |-> "pending", expected |-> Expected(c), cancelled |-> FALSE]
  <2>1. /\ Rekey!Step(c) = "queued" /\ queue' = queue /\ executions' = Append(executions, e)
        /\ pending' = [id |-> id, state |-> "pending"]
        /\ triggers' = [triggers EXCEPT ![c].step = "begun", ![c].id = id]
    BY <1>2 DEF Rekey!Begin, Expected
  <2>2. Expected(c) \in Nat /\ Expected(c) \in 0..record.gen
    BY <1>1, <2>1 DEF TriggerFits
  <2>3. e \in ExecutionRecords /\ e.state = "pending" /\ e.expected = Expected(c)
    BY <2>2 DEF ExecutionRecords
  <2>4. id \in Nat
    BY <1>1, LenProperties
  <2> HIDE DEF e
  <2>5. /\ executions' \in Seq(ExecutionRecords) /\ DOMAIN executions = 1..Len(executions)
        /\ DOMAIN executions' = 1..id /\ executions'[id] = e
        /\ \A j \in DOMAIN executions : executions'[j] = executions[j]
    BY <1>1, <2>1, <2>3, AppendProperties
  <2>6. pending' \in PendingRecords /\ pending'.id \in DOMAIN executions'
    BY <2>1, <2>4, <2>5 DEF PendingRecords
  <2> HIDE DEF id
  <2>7. /\ triggers'[c] \in TriggerRecords
        /\ triggers' = [triggers EXCEPT ![c] = triggers'[c]]
        /\ Rekey!Step(c)' = "begun" /\ Expected(c)' = Expected(c) /\ Id(c)' = id
    BY <2>1, <2>4 DEF BurstInv, TriggerRecords, TriggerSteps, Rekey!Step, Expected, Id
  <2>8. id \in DOMAIN executions'
    BY <2>4, <2>5 DEF id
  <2>9. TriggerFits(c)'
    BY <1>1, <2>1, <2>2, <2>3, <2>5, <2>7, <2>8 DEF TriggerFits, Works, Rekey!Free, Rekey!Running
  <2>10. ASSUME NEW j \in DOMAIN executions', Rekey!Completed(j)'
         PROVE  j \in DOMAIN executions /\ Rekey!Completed(j)
    <3>1. j # id
      BY <2>3, <2>5, <2>10 DEF Rekey!Completed
    <3>2. j \in DOMAIN executions
      BY <2>4, <2>5, <3>1 DEF id
    <3> QED
      BY <2>5, <2>10, <3>2 DEF Rekey!Completed
  <2>11. DOMAIN executions \subseteq DOMAIN executions'
    BY <2>4, <2>5 DEF id
  <2>12. ExecutionsTyped'
    BY <2>5, <2>6 DEF ExecutionsTyped
  <2> QED
    BY <1>1, <2>1, <2>5, <2>7, <2>9, <2>10, <2>11, <2>12, LockHeld, TriggerKeeps
<1>3. CASE Rekey!Coalesce(c)
  <2>1. Rekey!Step(c) = "begun" /\ Works(c) /\ Id(c) \in DOMAIN executions
        /\ Rekey!Persist(Id(c), "cancelled") /\ Rekey!Leave(c)
    BY <1>1, <1>3 DEF Rekey!Coalesce, TriggerFits, Works, Id
  <2> QED
    BY <1>1, <2>1, Persisted, LeaveKeeps
<1>4. CASE Rekey!Execute(c)
  <2>1. /\ Rekey!Step(c) = "begun" /\ Id(c) \in DOMAIN executions /\ record.gen = Expected(c)
        /\ Rekey!Persist(Id(c), "executing") /\ queue' = queue
        /\ triggers' = [triggers EXCEPT ![c].step = "executing", ![c].attempt = 1]
    BY <1>1, <1>4 DEF Rekey!Execute, TriggerFits, Works, Id, Expected
  <2>2. /\ ExecutionsTyped' /\ DOMAIN executions' = DOMAIN executions
        /\ \A j \in DOMAIN executions : executions'[j].expected = executions[j].expected
        /\ \A j \in DOMAIN executions : Rekey!Completed(j)' => Rekey!Completed(j)
    BY <1>1, <2>1, Persisted
  <2>3. /\ triggers'[c] \in TriggerRecords
        /\ triggers' = [triggers EXCEPT ![c] = triggers'[c]]
        /\ Rekey!Step(c)' = "executing" /\ Expected(c)' = Expected(c) /\ Id(c)' = Id(c)
    BY <2>1, GotoKeeps DEF TriggerSteps
  <2>4. \A j \in DOMAIN executions' : Rekey!Completed(j)' => executions'[j].expected # Expected(c)
    <3>1. ASSUME NEW j \in DOMAIN executions, Rekey!Completed(j)
          PROVE  executions[j].expected # Expected(c)
      <4>1. executions[j].expected < record.gen /\ executions[j] \in ExecutionRecords
        BY <1>1, <3>1, ElementOfSeq DEF BurstInv
      <4> QED
        BY <1>1, <2>1, <4>1 DEF ExecutionRecords
    <3> QED
      BY <2>2, <3>1
  <2>5. TriggerFits(c)'
    BY <1>1, <2>1, <2>2, <2>3, <2>4 DEF TriggerFits, Works, Rekey!Free, Rekey!Running
  <2> QED
    BY <1>1, <2>1, <2>2, <2>3, <2>5, LockHeld, TriggerKeeps
<1> QED
  BY <1>2, <1>3, <1>4

\* The evolution has returned or thrown.
LEMMA EndingSteps ==
  ASSUME BurstInv, NEW c \in Callers,
         Rekey!Complete(c) \/ Rekey!Retry(c) \/ Rekey!GiveUp(c) \/ Rekey!Abandon(c)
  PROVE  BurstInv'
<1>1. /\ TriggerFits(c) /\ ExecutionsTyped /\ record.gen \in Nat /\ queue \in Seq(Callers)
      /\ UNCHANGED Rekey!vars /\ record' = record /\ calls' = calls
  BY DEF BurstInv, ExecutionsTyped, GenerationsInv, GenerationRecords, Rekey!vars, Rekey!Complete, Rekey!Retry,
     Rekey!GiveUp, Rekey!Abandon
<1>2. Rekey!Step(c) = "evolving" /\ Works(c) /\ Rekey!Free(c) /\ Id(c) \in DOMAIN executions /\ Rekey!Running(c)
  BY <1>1 DEF Rekey!Complete, Rekey!Retry, Rekey!GiveUp, Rekey!Abandon, Rekey!AttemptFailed, TriggerFits, Works
<1>3. calls[c].ok => Expected(c) < record.gen
  BY <1>1, <1>2 DEF TriggerFits
<1>4. CASE Rekey!Complete(c)
  <2>1. Rekey!Persist(Id(c), "completed") /\ Rekey!Leave(c) /\ calls[c].ok
    BY <1>4 DEF Rekey!Complete, Id
  <2> QED
    BY <1>1, <1>2, <1>3, <2>1, Persisted, LeaveKeeps
<1>5. CASE Rekey!GiveUp(c)
  <2>1. Rekey!Persist(Id(c), "failed") /\ Rekey!Leave(c)
    BY <1>5 DEF Rekey!GiveUp, Id
  <2> QED
    BY <1>1, <1>2, <2>1, Persisted, LeaveKeeps
<1>6. CASE Rekey!Abandon(c)
  <2>1. Rekey!Leave(c) /\ executions' = executions /\ pending' = pending
    BY <1>6 DEF Rekey!Abandon
  <2>2. ExecutionsTyped' /\ \A j \in DOMAIN executions : Rekey!Completed(j)' => Rekey!Completed(j)
    BY <1>1, <2>1 DEF ExecutionsTyped, Rekey!Completed
  <2> QED
    BY <1>1, <1>2, <2>1, <2>2, LeaveKeeps
<1>7. CASE Rekey!Retry(c)
  <2> DEFINE state == IF calls[c].ok THEN "completed" ELSE "executing"
             n == triggers[c].attempt + 1
  <2>1. /\ Rekey!Persist(Id(c), state) /\ queue' = queue
        /\ triggers' = [triggers EXCEPT ![c].step = "executing", ![c].attempt = @ + 1]
    BY <1>7 DEF Rekey!Retry, Id
  <2>2. n \in Nat /\ triggers' = [triggers EXCEPT ![c].step = "executing", ![c].attempt = n]
    <3>1. n \in Nat
      <4>1. triggers[c].attempt \in Nat
        BY TriggerTyped
      <4> QED
        BY <4>1
    <3> QED
      BY <2>1, <3>1, Zenon
  <2>3. state \in {"executing", "completed", "failed", "cancelled"}
        /\ (state = "completed" => Expected(c) < record.gen)
    BY <1>3
  <2> HIDE DEF state, n
  <2>4. /\ ExecutionsTyped' /\ DOMAIN executions' = DOMAIN executions
        /\ \A j \in DOMAIN executions : executions'[j].expected = executions[j].expected
        /\ \A j \in DOMAIN executions :
             Rekey!Completed(j)' => Rekey!Completed(j) \/ (j = Id(c) /\ state = "completed")
    BY <1>1, <1>2, <2>1, <2>3, Persisted
  <2>5. /\ triggers'[c] \in TriggerRecords
        /\ triggers' = [triggers EXCEPT ![c] = triggers'[c]]
        /\ Rekey!Step(c)' = "executing" /\ Expected(c)' = Expected(c) /\ Id(c)' = Id(c)
    BY <2>2, GotoKeeps DEF TriggerSteps
  <2>6. TriggerFits(c)'
    BY <1>1, <1>2, <2>1, <2>4, <2>5 DEF TriggerFits, Works, Rekey!Free, Rekey!Running
  <2> QED
    BY <1>1, <1>2, <2>1, <2>3, <2>4, <2>5, <2>6, LockHeld, TriggerKeeps
<1> QED
  BY <1>4, <1>5, <1>6, <1>7

\* cancelPending touches nothing but the flag of the execution.
LEMMA CancelKeeps == ASSUME BurstInv, Rekey!CancelPending PROVE BurstInv'
<1>1. /\ executions \in Seq(ExecutionRecords) /\ pending.id \in DOMAIN executions
      /\ pending.id \in 1..Len(executions)
  BY DEF Rekey!CancelPending, BurstInv, ExecutionsTyped
<1>2. executions[pending.id] \in ExecutionRecords
  BY <1>1, ElementOfSeq
<1> DEFINE old == executions[pending.id]
           e == [old EXCEPT !.cancelled = TRUE]
<1>3. e \in ExecutionRecords /\ e.state = old.state /\ e.expected = old.expected
  BY <1>2 DEF ExecutionRecords
<1>4. executions' = [executions EXCEPT ![pending.id] = e]
  BY DEF Rekey!CancelPending
<1> HIDE DEF e
<1>5. executions' \in Seq(ExecutionRecords) /\ DOMAIN executions' = DOMAIN executions
  BY <1>1, <1>3, <1>4, ExceptSeq
<1>6. \A j \in DOMAIN executions :
        executions'[j].expected = executions[j].expected /\ (Rekey!Completed(j)' <=> Rekey!Completed(j))
  BY <1>1, <1>3, <1>4 DEF Rekey!Completed
<1>7. ExecutionsTyped'
  BY <1>5 DEF ExecutionsTyped, Rekey!CancelPending, Rekey!None, PendingRecords
<1>8. UNCHANGED <<store, record, calls, triggers, queue>>
  BY DEF Rekey!CancelPending, Rekey!vars
<1>9. GenerationsInv'
  BY <1>8 DEF BurstInv, GenerationsInv
<1>10. ASSUME NEW c \in Callers PROVE TriggerFits(c)'
  <2>1. TriggerFits(c)
    BY DEF BurstInv
  <2> QED
    BY <1>5, <1>6, <1>8, <2>1 DEF TriggerFits, Works, Rekey!Running, Rekey!Free, Rekey!Step, Id, Expected
<1>11. Rekey!BurstRekeysOnce'
  BY <1>5, <1>6 DEF BurstInv, Rekey!BurstRekeysOnce
<1>12. \A j \in DOMAIN executions' : Rekey!Completed(j)' => executions'[j].expected < record'.gen
  BY <1>5, <1>6, <1>8 DEF BurstInv
<1> QED
  BY <1>7, <1>8, <1>9, <1>10, <1>11, <1>12 DEF BurstInv

\* The process ends: no trigger is under way any more.
LEMMA RestartKeeps == ASSUME BurstInv, Rekey!RekeyRestart PROVE BurstInv'
<1>1. /\ store' = Rekey!Gone /\ record' = record /\ executions' = executions /\ pending' = pending
      /\ queue' = <<>> /\ calls' = [c \in Callers |-> Rekey!Ended(FALSE)]
      /\ triggers' = [c \in Callers |-> Rekey!NoTrigger]
  BY DEF Rekey!RekeyRestart, Rekey!Restart
<1>2. GenerationsInv'
  <2>1. Rekey!Ended(FALSE) \in GenerationCalls /\ Rekey!Ended(FALSE).op = "idle"
    BY EndedTyped
  <2>2. store' \in [gen : Nat \cup {-1}, held : SUBSET Nat] /\ store'.gen = -1
    BY <1>1 DEF Rekey!Gone
  <2> QED
    BY <1>1, <2>1, <2>2 DEF BurstInv, GenerationsInv
<1>3. triggers' \in [Callers -> TriggerRecords] /\ \A c \in Callers : Rekey!Step(c)' = "idle"
  BY <1>1, NoTriggerTyped DEF Rekey!Step
<1>4. \A c \in Callers : TriggerFits(c)'
  BY <1>3 DEF TriggerFits, Works
<1>5. ExecutionsTyped' /\ Rekey!BurstRekeysOnce' /\ queue' \in Seq(Callers)
  BY <1>1 DEF BurstInv, ExecutionsTyped, Rekey!BurstRekeysOnce, Rekey!Completed
<1>6. \A j \in DOMAIN executions' : Rekey!Completed(j)' => executions'[j].expected < record'.gen
  BY <1>1 DEF BurstInv, Rekey!Completed
<1> QED
  BY <1>2, <1>3, <1>4, <1>5, <1>6 DEF BurstInv

LEMMA RekeyStep ==
  ASSUME Rekey!ForwardSecrecyAssumption, BurstInv, [Rekey!RekeyNext]_Rekey!rekeyVars PROVE BurstInv'
<1>1. CASE UNCHANGED Rekey!rekeyVars
  BY <1>1 DEF Rekey!rekeyVars, Rekey!rekey, Rekey!vars, BurstInv, GenerationsInv, ExecutionsTyped, TriggerFits,
     Works, Rekey!Running, Rekey!Free, Rekey!Step, Id, Expected, Rekey!Completed, Rekey!BurstRekeysOnce
<1>2. ASSUME NEW c \in Callers, Rekey!Trigger(c) \/ Rekey!Directly(c) \/ Rekey!Engine(c) PROVE BurstInv'
  BY <1>2, CallSteps, AskingSteps, StartingSteps, EndingSteps DEF Rekey!Engine
<1> QED
  BY <1>1, <1>2, CancelKeeps, RestartKeeps DEF Rekey!RekeyNext

LEMMA BurstMeans == BurstInv => Rekey!BurstRekeysOnce
BY DEF BurstInv

\* A burst of triggers rekeys once (BurstRekeysOnce).
THEOREM BurstsRekeyOnce ==
  ASSUME Rekey!ForwardSecrecyAssumption PROVE Rekey!RekeySpec => []Rekey!BurstRekeysOnce
BY BurstMeans, InitBurst, RekeyStep, PTL DEF Rekey!RekeySpec

\* Whoever has submitted an execution is in the lock until it has ended.
LockSteps == {"queued", "begun", "executing", "evolving"}
InLock(c) == Rekey!Step(c) \in LockSteps

LockFits ==
  /\ \A i \in 1..Len(queue) : InLock(queue[i])
  /\ \A i, j \in 1..Len(queue) : queue[i] = queue[j] => i = j

RekeyBounds ==
  /\ LockFits
  /\ \A c \in Callers : triggers[c].attempt \in 0..MaxAttempts
  /\ Len(executions) <= MaxExecutions
  /\ pending.state = "none" => pending.id = 0

\* One trigger moves, and the lock with it.
LEMMA LockKeeps ==
  ASSUME BurstInv, LockFits, NEW c \in Callers,
         \A d \in Callers \ {c} : triggers'[d] = triggers[d],
         \/ queue' = queue /\ (InLock(c) => InLock(c)')
         \/ queue' = Append(queue, c) /\ ~ InLock(c) /\ InLock(c)'
         \/ queue' = Tail(queue) /\ Rekey!Running(c)
  PROVE  LockFits'
<1>1. queue \in Seq(Callers) /\ \A i \in 1..Len(queue) : queue[i] \in Callers
  BY DEF BurstInv
<1>2. \A d \in Callers \ {c} : InLock(d)' <=> InLock(d)
  BY DEF InLock, Rekey!Step
<1>3. CASE queue' = queue /\ (InLock(c) => InLock(c)')
  BY <1>1, <1>2, <1>3 DEF LockFits
<1>4. CASE queue' = Append(queue, c) /\ ~ InLock(c) /\ InLock(c)'
  <2>1. /\ Len(queue') = Len(queue) + 1 /\ queue'[Len(queue) + 1] = c
        /\ \A i \in 1..Len(queue) : queue'[i] = queue[i]
    BY <1>1, <1>4
  <2>2. \A i \in 1..Len(queue) : queue[i] # c
    BY <1>4 DEF LockFits
  <2>3. \A i \in 1..Len(queue') : i \in 1..Len(queue) \/ i = Len(queue) + 1
    BY <1>1, <2>1
  <2>4. \A i \in 1..Len(queue') : triggers'[queue'[i]].step \in LockSteps
    BY <1>1, <1>2, <1>4, <2>1, <2>2, <2>3 DEF LockFits, InLock, Rekey!Step
  <2>5. \A i, j \in 1..Len(queue') : queue'[i] = queue'[j] => i = j
    BY <2>1, <2>2, <2>3 DEF LockFits
  <2> QED
    BY <2>4, <2>5 DEF LockFits, InLock, Rekey!Step
<1>5. CASE queue' = Tail(queue) /\ Rekey!Running(c)
  <2>1. /\ queue # <<>> /\ queue[1] = c /\ Len(queue) \in Nat /\ Len(queue') = Len(queue) - 1
        /\ Len(queue) >= 1 /\ \A i \in 1..Len(queue') : queue'[i] = queue[i + 1]
    BY <1>1, <1>5, HeadTailProperties DEF Rekey!Running
  <2>2. \A i \in 1..Len(queue') : i + 1 \in 1..Len(queue) /\ i + 1 # 1
    BY <2>1
  <2>3. 1 \in 1..Len(queue)
    BY <2>1
  <2>4. \A i \in 1..Len(queue') : queue[i + 1] # c
    BY <2>1, <2>2, <2>3 DEF LockFits
  <2>5. \A i \in 1..Len(queue') : triggers'[queue'[i]].step \in LockSteps
    BY <1>1, <1>2, <2>1, <2>2, <2>4 DEF LockFits, InLock, Rekey!Step
  <2>6. \A i, j \in 1..Len(queue') : queue'[i] = queue'[j] => i = j
    BY <2>1, <2>2 DEF LockFits
  <2> QED
    BY <2>5, <2>6 DEF LockFits, InLock, Rekey!Step
<1> QED
  BY <1>3, <1>4, <1>5

\* The last step that may raise the number of executions is Begin.
LEMMA PersistKeeps ==
  ASSUME BurstInv, NEW id, NEW state \in {"executing", "completed", "failed", "cancelled"},
         id \in DOMAIN executions, Rekey!Persist(id, state)
  PROVE  Len(executions') = Len(executions) /\ (pending'.state = "none" => pending'.id = 0)
<1>1. executions \in Seq(ExecutionRecords)
  BY DEF BurstInv, ExecutionsTyped
<1>2. Len([executions EXCEPT ![id].state = state]) = Len(executions)
  BY <1>1
<1> QED
  BY <1>2 DEF Rekey!Persist, Rekey!None

LEMMA BoundsTyped ==
  ASSUME BurstInv PROVE executions \in Seq(ExecutionRecords) /\ Len(executions) \in Nat
BY DEF BurstInv, ExecutionsTyped

\* A step of one trigger or call.
LEMMA BoundsStepOf ==
  ASSUME Rekey!AutomaticRekeyAssumption, BurstInv, RekeyBounds, NEW c \in Callers,
         Rekey!Trigger(c) \/ Rekey!Directly(c) \/ Rekey!Engine(c)
  PROVE  RekeyBounds'
<1>1. /\ MaxAttempts \in Nat \ {0} /\ triggers[c].attempt \in 0..MaxAttempts
      /\ triggers \in [Callers -> TriggerRecords] /\ LockFits
      /\ queue \in Seq(Callers) /\ TriggerFits(c)
  BY DEF Rekey!AutomaticRekeyAssumption, BurstInv, RekeyBounds
<1>2. ASSUME \A d \in Callers \ {c} : triggers'[d] = triggers[d],
             triggers'[c].attempt \in 0..MaxAttempts, LockFits',
             Len(executions') <= MaxExecutions, pending'.state = "none" => pending'.id = 0
      PROVE  RekeyBounds'
  BY <1>2 DEF RekeyBounds
<1>3. CASE (Rekey!Directly(c) \/ Rekey!Proceed(c)) /\ UNCHANGED Rekey!rekey
  BY <1>3 DEF Rekey!rekey, RekeyBounds, LockFits, InLock, Rekey!Step
<1>4. CASE Rekey!Trigger(c) \/ Rekey!Expect(c) \/ Rekey!Submit(c) \/ Rekey!CallEvolve(c)
  <2>1. UNCHANGED <<pending, executions>>
    BY <1>4 DEF Rekey!Trigger, Rekey!Expect, Rekey!Submit, Rekey!CallEvolve
  <2>2. /\ \A d \in Callers \ {c} : triggers'[d] = triggers[d]
        /\ triggers'[c].attempt = triggers[c].attempt
    <3>1. ASSUME NEW f, triggers' = [triggers EXCEPT ![c] = f],
                 f.attempt = triggers[c].attempt
          PROVE  /\ \A d \in Callers \ {c} : triggers'[d] = triggers[d]
                 /\ triggers'[c].attempt = triggers[c].attempt
      BY <1>1, <3>1
    <3>2. triggers[c] \in TriggerRecords
      BY <1>1
    <3>3. CASE Rekey!Trigger(c)
      BY <3>1, <3>2, <3>3 DEF Rekey!Trigger, Rekey!Goto, TriggerRecords
    <3>4. CASE Rekey!Expect(c)
      BY <3>1, <3>2, <3>4 DEF Rekey!Expect, Rekey!Goto, TriggerRecords
    <3>5. CASE Rekey!Submit(c)
      BY <3>1, <3>2, <3>5 DEF Rekey!Submit, Rekey!Goto, TriggerRecords
    <3>6. CASE Rekey!CallEvolve(c)
      BY <3>1, <3>2, <3>6 DEF Rekey!CallEvolve, Rekey!Goto, TriggerRecords
    <3> QED
      BY <1>4, <3>3, <3>4, <3>5, <3>6
  <2>3. CASE Rekey!Trigger(c) \/ Rekey!Expect(c)
    <3>1. queue' = queue /\ ~ InLock(c)
      BY <2>3 DEF Rekey!Trigger, Rekey!Expect, InLock, LockSteps
    <3> QED
      BY <1>1, <1>2, <2>1, <2>2, <3>1, LockKeeps DEF RekeyBounds
  <2>4. CASE Rekey!Submit(c)
    <3>1. queue' = Append(queue, c) /\ ~ InLock(c) /\ InLock(c)'
      BY <1>1, <2>4 DEF Rekey!Submit, Rekey!Goto, InLock, LockSteps, Rekey!Step, TriggerRecords
    <3> QED
      BY <1>1, <1>2, <2>1, <2>2, <3>1, LockKeeps DEF RekeyBounds
  <2>5. CASE Rekey!CallEvolve(c)
    <3>1. queue' = queue /\ InLock(c)'
      BY <1>1, <2>5 DEF Rekey!CallEvolve, Rekey!Goto, InLock, LockSteps, Rekey!Step, TriggerRecords
    <3> QED
      BY <1>1, <1>2, <2>1, <2>2, <3>1, LockKeeps DEF RekeyBounds
  <2> QED
    BY <1>4, <2>3, <2>4, <2>5
<1>5. CASE Rekey!Begin(c)
  <2>1. /\ queue' = queue /\ Len(executions) + 1 <= MaxExecutions
        /\ pending' = [id |-> Len(executions) + 1, state |-> "pending"]
    BY <1>5 DEF Rekey!Begin
  <2>2. \E e : executions' = Append(executions, e)
    BY <1>5 DEF Rekey!Begin
  <2>3. Len(executions') = Len(executions) + 1
    BY <2>2, BoundsTyped
  <2>4. /\ \A d \in Callers \ {c} : triggers'[d] = triggers[d]
        /\ triggers'[c].attempt = triggers[c].attempt /\ Rekey!Step(c)' = "begun"
    BY <1>1, <1>5 DEF Rekey!Begin, TriggerRecords, Rekey!Step
  <2>5. LockFits'
    BY <1>1, <2>1, <2>4, LockKeeps DEF InLock, LockSteps
  <2>6. pending'.state # "none"
    BY <2>1
  <2> QED
    BY <1>1, <1>2, <2>1, <2>3, <2>4, <2>5, <2>6
<1>6. ASSUME Works(c) PROVE Rekey!Running(c) /\ Id(c) \in DOMAIN executions
  BY <1>1, <1>6 DEF TriggerFits
<1>7. CASE Rekey!Execute(c) \/ Rekey!Retry(c)
  <2>1. Works(c) /\ queue' = queue
    BY <1>7 DEF Works, Rekey!Execute, Rekey!Retry, Rekey!AttemptFailed
  <2>2. PICK state \in {"executing", "completed", "failed", "cancelled"} : Rekey!Persist(Id(c), state)
    BY <1>7 DEF Rekey!Execute, Rekey!Retry, Id
  <2>3. Len(executions') = Len(executions) /\ (pending'.state = "none" => pending'.id = 0)
    BY <1>6, <2>1, <2>2, PersistKeeps
  <2>4. /\ \A d \in Callers \ {c} : triggers'[d] = triggers[d]
        /\ Rekey!Step(c)' = "executing" /\ triggers'[c].attempt \in {1, triggers[c].attempt + 1}
        /\ triggers'[c].attempt = triggers[c].attempt + 1 =>
             triggers[c].attempt < MaxAttempts \/ triggers'[c].attempt = 1
    BY <1>1, <1>7 DEF Rekey!Execute, Rekey!Retry, TriggerRecords, Rekey!Step
  <2>5. LockFits'
    BY <1>1, <2>1, <2>4, LockKeeps DEF InLock, LockSteps
  <2> QED
    BY <1>1, <1>2, <2>3, <2>4, <2>5 DEF RekeyBounds
<1>8. CASE Rekey!Coalesce(c) \/ Rekey!Complete(c) \/ Rekey!GiveUp(c) \/ Rekey!Abandon(c)
  <2>1. Works(c) /\ Rekey!Leave(c)
    BY <1>8 DEF Works, Rekey!Coalesce, Rekey!Complete, Rekey!GiveUp, Rekey!Abandon, Rekey!AttemptFailed
  <2>2. Len(executions') = Len(executions) /\ (pending'.state = "none" => pending'.id = 0)
    <3>1. CASE Rekey!Abandon(c)
      BY <3>1 DEF Rekey!Abandon, RekeyBounds
    <3>2. CASE ~ Rekey!Abandon(c)
      <4>1. PICK state \in {"executing", "completed", "failed", "cancelled"} :
              Rekey!Persist(Id(c), state)
        BY <1>8, <3>2 DEF Rekey!Coalesce, Rekey!Complete, Rekey!GiveUp, Id
      <4> QED
        BY <1>6, <2>1, <4>1, PersistKeeps
    <3> QED
      BY <3>1, <3>2
  <2>3. /\ \A d \in Callers \ {c} : triggers'[d] = triggers[d]
        /\ triggers'[c].attempt = 0 /\ queue' = Tail(queue)
    BY <1>1, <2>1 DEF Rekey!Leave, Rekey!NoTrigger
  <2>4. LockFits'
    BY <1>1, <1>6, <2>1, <2>3, LockKeeps
  <2> QED
    BY <1>1, <1>2, <2>2, <2>3, <2>4 DEF RekeyBounds
<1> QED
  BY <1>3, <1>4, <1>5, <1>7, <1>8 DEF Rekey!Engine, Rekey!Directly

LEMMA BoundsStep ==
  ASSUME Rekey!AutomaticRekeyAssumption, BurstInv, RekeyBounds, [Rekey!RekeyNext]_Rekey!rekeyVars
  PROVE  RekeyBounds'
<1>1. CASE UNCHANGED Rekey!rekeyVars
  BY <1>1 DEF Rekey!rekeyVars, Rekey!rekey, RekeyBounds, LockFits, InLock, Rekey!Step
<1>2. CASE Rekey!RekeyRestart
  <2>1. /\ triggers' = [c \in Callers |-> Rekey!NoTrigger] /\ queue' = <<>>
        /\ UNCHANGED <<pending, executions>>
    BY <1>2 DEF Rekey!RekeyRestart
  <2>2. LockFits'
    BY <2>1 DEF LockFits
  <2> QED
    BY <2>1, <2>2 DEF RekeyBounds, Rekey!NoTrigger, Rekey!AutomaticRekeyAssumption
<1>3. CASE Rekey!CancelPending
  <2>1. UNCHANGED <<triggers, queue>> /\ pending' = Rekey!None
        /\ pending.id \in DOMAIN executions
        /\ executions' = [executions EXCEPT ![pending.id].cancelled = TRUE]
    BY <1>3 DEF Rekey!CancelPending, BurstInv, ExecutionsTyped
  <2>2. executions \in Seq(ExecutionRecords)
    BY BoundsTyped
  <2>3. Len(executions') = Len(executions)
    BY <2>1, <2>2
  <2>4. LockFits'
    BY <2>1 DEF RekeyBounds, LockFits, InLock, Rekey!Step
  <2> QED
    BY <2>1, <2>3, <2>4 DEF RekeyBounds, Rekey!None
<1> QED
  BY <1>1, <1>2, <1>3, BoundsStepOf DEF Rekey!RekeyNext

LEMMA InitBounds ==
  ASSUME Rekey!AutomaticRekeyAssumption, Rekey!RekeyInit PROVE RekeyBounds
BY DEF Rekey!AutomaticRekeyAssumption, Rekey!RekeyInit, RekeyBounds, LockFits, Rekey!NoTrigger, Rekey!None

LEMMA RekeyTypes == ASSUME Rekey!AutomaticRekeyAssumption, BurstInv, RekeyBounds PROVE Rekey!RekeyTypeOK
<1>1. Rekey!TypeOK
  <2>1. \A c \in Callers : calls[c].op \in {"idle", "start", "evolve", "write", "destroy", "delete"}
    BY CallTyped DEF BurstInv, GenerationsInv
  <2> QED
    BY <2>1 DEF BurstInv, GenerationsInv, GenerationRecords, Rekey!TypeOK
<1>2. pending.id \in 0..MaxExecutions
  <2>1. MaxExecutions \in Nat /\ Len(executions) \in Nat
        /\ DOMAIN executions = 1..Len(executions) /\ pending.state \in {"none", "pending", "executing"}
    BY BoundsTyped DEF Rekey!AutomaticRekeyAssumption, BurstInv, ExecutionsTyped, PendingRecords
  <2> QED
    BY <2>1 DEF BurstInv, ExecutionsTyped, RekeyBounds
<1> QED
  BY <1>1, <1>2 DEF Rekey!RekeyTypeOK, RekeyBounds, LockFits

\* The execution's record, the trigger and the lock are what they should be: a
\* caller is in the lock once, and tries as often as it may.
THEOREM RekeysTyped ==
  ASSUME Rekey!ForwardSecrecyAssumption, Rekey!AutomaticRekeyAssumption PROVE Rekey!RekeySpec => []Rekey!RekeyTypeOK
<1>1. Rekey!RekeyInit => BurstInv /\ RekeyBounds
  BY InitBurst, InitBounds
<1>2. BurstInv /\ RekeyBounds /\ [Rekey!RekeyNext]_Rekey!rekeyVars => (BurstInv /\ RekeyBounds)'
  BY RekeyStep, BoundsStep
<1>3. BurstInv /\ RekeyBounds => Rekey!RekeyTypeOK
  BY RekeyTypes
<1> QED
  BY <1>1, <1>2, <1>3, PTL DEF Rekey!RekeySpec
================================================================================
