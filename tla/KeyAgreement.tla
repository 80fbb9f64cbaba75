---------------------------- MODULE KeyAgreement ----------------------------
(***************************************************************************)
(* Key agreement within a handshake                                        *)
(* (server/shs/key-agreement/manager/keyAgreementManager.js): the parties  *)
(* negotiate, submit one ephemeral key each and then commit to the secret  *)
(* they derived.  The server keeps an exchange record per handshake and    *)
(* moves the handshake along; each call reads and writes the two records in *)
(* separate steps.                                                         *)
(***************************************************************************)
EXTENDS Handshake

VARIABLES
  exchanges, \* the exchange record of each handshake
  lapsed     \* exchanges whose expiresAt has passed

agreementVars == <<vars, exchanges, lapsed>>

Roles == {"initiator", "responder"}
ExchangeStates == {"awaitingInitiatorKey", "awaitingResponderKey",
                   "keysExchanged", "established", "failed"}
NoExchange == [state |-> "none", keys |-> {}, commitments |-> {}, same |-> FALSE]

\* KA_CHAIN
Chain == <<"negotiating", "generating", "waitingKey", "deriving",
           "established", "cryptoComplete">>
ChainIndex(s) == IF Contains(Chain, s) THEN CHOOSE n \in DOMAIN Chain : Chain[n] = s
                 ELSE 0

\* A call that will next bring the handshake to "target"; a commitment call
\* then compares the commitments.
Syncing(i, target, compare) ==
  [op |-> "sync", id |-> i, target |-> target, compare |-> compare]
Comparing(i) == [op |-> "compare", id |-> i]
Failing(i) == [op |-> "fail", id |-> i]

AgreementInit ==
  /\ Init
  /\ exchanges = [i \in 1..MaxHandshakes |-> NoExchange]
  /\ lapsed = {}

\* negotiate: one exchange per handshake, whatever state that is in.  "same":
\* whether the two devices will derive the same secret.
Negotiate(c, i) ==
  /\ Free(c)
  /\ exchanges[i] = NoExchange
  /\ \E same \in BOOLEAN :
       exchanges' = [exchanges EXCEPT ![i] =
         [NoExchange EXCEPT !.state = "awaitingInitiatorKey", !.same = same]]
  /\ Busy(c, Syncing(i, "generating", FALSE))
  /\ UNCHANGED <<sessions, late, lapsed>>

\* submitEphemeralKey reads the exchange: fresh, and the role's key missing.
SubmitKey(c, i, role) ==
  LET keys == exchanges[i].keys \cup {role}
  IN /\ Free(c)
     /\ exchanges[i] # NoExchange /\ i \notin lapsed
     /\ role \notin exchanges[i].keys
     /\ Busy(c, [op |-> "key", id |-> i, role |-> role,
                 state |-> IF keys = Roles THEN "keysExchanged"
                           ELSE IF role = "initiator" THEN "awaitingResponderKey"
                           ELSE "awaitingInitiatorKey"])
     /\ UNCHANGED <<sessions, late, exchanges, lapsed>>

StoreKey(c) ==
  LET call == calls[c]
  IN /\ call.op = "key"
     /\ exchanges' = [exchanges EXCEPT
          ![call.id].keys = @ \cup {call.role}, ![call.id].state = call.state]
     /\ Busy(c, Syncing(call.id, IF call.state = "keysExchanged" THEN "deriving"
                                 ELSE "waitingKey", FALSE))
     /\ UNCHANGED <<sessions, late, lapsed>>

\* Mutation: committing does not wait for both keys.
SubmitCommitmentEarly(c, i, role) ==
  /\ Free(c)
  /\ exchanges[i] # NoExchange /\ i \notin lapsed
  /\ Busy(c, [op |-> "commit", id |-> i, role |-> role])
  /\ UNCHANGED <<sessions, late, exchanges, lapsed>>

\* submitCommitment reads the exchange: both keys, or one commitment already.
SubmitCommitment(c, i, role) ==
  /\ Free(c)
  /\ exchanges[i] # NoExchange /\ i \notin lapsed
  /\ exchanges[i].state = "keysExchanged" \/ exchanges[i].commitments # {}
  /\ Busy(c, [op |-> "commit", id |-> i, role |-> role])
  /\ UNCHANGED <<sessions, late, exchanges, lapsed>>

\* The update returns the record as it is then: the later of two commitments
\* sees both.
StoreCommitment(c) ==
  LET call == calls[c]
      commitments == exchanges[call.id].commitments \cup {call.role}
  IN /\ call.op = "commit"
     /\ exchanges' = [exchanges EXCEPT ![call.id].commitments = commitments]
     /\ Busy(c, Syncing(call.id, "established", commitments = Roles))
     /\ UNCHANGED <<sessions, late, lapsed>>

\* Mutation: differing commitments are accepted.
CompareNothing(c) ==
  LET i == calls[c].id
  IN /\ calls[c].op = "compare"
     /\ exchanges' = [exchanges EXCEPT ![i].state = "established"]
     /\ Busy(c, Syncing(i, "cryptoComplete", FALSE))
     /\ UNCHANGED <<sessions, late, lapsed>>

Compare(c) ==
  LET i == calls[c].id
      same == exchanges[i].same
  IN /\ calls[c].op = "compare"
     /\ exchanges' = [exchanges EXCEPT ![i].state =
                        IF same THEN "established" ELSE "failed"]
     /\ Busy(c, IF same THEN Syncing(i, "cryptoComplete", FALSE) ELSE Failing(i))
     /\ UNCHANGED <<sessions, late, lapsed>>

\* _syncHandshakeState reads the session: nothing to do when it is not in the
\* chain or already there, else it will go all the way to the target.
Sync(c) ==
  LET call == calls[c]
      current == ChainIndex(State(call.id))
      target == ChainIndex(call.target)
  IN /\ call.op = "sync"
     /\ Busy(c, IF current = 0 \/ target <= current
                  THEN IF call.compare THEN Comparing(call.id) ELSE Idle
                ELSE [op |-> "syncWrite", id |-> call.id,
                      base |-> sessions[call.id].history,
                      path |-> SubSeq(Chain, current + 1, target),
                      compare |-> call.compare])
     /\ UNCHANGED <<sessions, late, exchanges, lapsed>>

SyncWrite(c) ==
  LET call == calls[c]
  IN /\ call.op = "syncWrite"
     /\ sessions' = [sessions EXCEPT ![call.id].history = call.base \o call.path]
     /\ Busy(c, IF call.compare THEN Comparing(call.id) ELSE Idle)
     /\ UNCHANGED <<late, exchanges, lapsed>>

\* _failHandshake reads the session and fails it where that is legal.
Fail(c) ==
  LET i == calls[c].id
  IN /\ calls[c].op = "fail"
     /\ Busy(c, IF /\ ChainIndex(State(i)) # 0
                   /\ canTransition(State(i), "failed")
                  THEN Moving(i, sessions[i].history, <<"failed">>) ELSE Idle)
     /\ UNCHANGED <<sessions, late, exchanges, lapsed>>

\* sweepExpired lists the exchanges, then fails those that were still open.
Sweep(c, i) ==
  /\ Free(c)
  /\ i \in lapsed
  /\ exchanges[i].state \notin {"none", "established", "failed"}
  /\ Busy(c, [op |-> "sweep", id |-> i])
  /\ UNCHANGED <<sessions, late, exchanges, lapsed>>

SweepWrite(c) ==
  LET i == calls[c].id
  IN /\ calls[c].op = "sweep"
     /\ exchanges' = [exchanges EXCEPT ![i].state = "failed"]
     /\ Busy(c, Failing(i))
     /\ UNCHANGED <<sessions, late, lapsed>>

Lapse(i) ==
  /\ exchanges[i] # NoExchange /\ i \notin lapsed
  /\ lapsed' = lapsed \cup {i}
  /\ UNCHANGED <<vars, exchanges>>

AgreementNext ==
  \/ Next /\ UNCHANGED <<exchanges, lapsed>>
  \/ \E c \in Callers :
       \/ StoreKey(c) \/ StoreCommitment(c) \/ Compare(c)
       \/ Sync(c) \/ SyncWrite(c) \/ Fail(c) \/ SweepWrite(c)
  \/ \E c \in Callers, i \in Ids :
       \/ Negotiate(c, i) \/ Sweep(c, i)
       \/ \E role \in Roles : SubmitKey(c, i, role) \/ SubmitCommitment(c, i, role)
  \/ \E i \in Ids : Lapse(i)

AgreementSpec == AgreementInit /\ [][AgreementNext]_agreementVars

-----------------------------------------------------------------------------

AgreementTypeOK ==
  /\ TypeOK
  /\ \A i \in Ids : exchanges[i] \in
       [state : ExchangeStates \cup {"none"}, keys : SUBSET Roles,
        commitments : SUBSET Roles, same : BOOLEAN]
  /\ lapsed \subseteq Ids

\* A handshake that is cryptographically complete, and an exchange that is
\* established, stand on two keys, two commitments and one secret, whatever
\* else was going on between the calls (submitCommitment).
CompleteIsBacked ==
  \A i \in Ids :
    State(i) = "cryptoComplete" \/ exchanges[i].state = "established" =>
      exchanges[i].keys = Roles /\ exchanges[i].commitments = Roles
        /\ exchanges[i].same

\* Once both parties submitted their key the exchange is past waiting for one
\* (submitEphemeralKey).  Two submissions that overlap leave it waiting.
BothKeysMeanExchanged ==
  \A i \in Ids :
    exchanges[i].keys = Roles =>
      exchanges[i].state \in {"keysExchanged", "established", "failed"}

=============================================================================
