----------------------------- MODULE Handshake -----------------------------
(***************************************************************************)
(* Secure handshakes between one initiator and one responder               *)
(* (server/shs/manager/handshakeManager.js with its state machine, its     *)
(* sessions and its repository).                                           *)
(*                                                                         *)
(* Every operation reads the stored session, decides on its copy and writes *)
(* state and history back without comparing, so two operations on the same *)
(* handshake may overlap.  A call in flight occupies one of the Callers and *)
(* remembers what it read.                                                 *)
(***************************************************************************)
EXTENDS Naturals, Sequences, SequencesExt

CONSTANTS
  Callers,        \* requests that may be in flight at the same time
  MaxHandshakes,  \* bound: handshakes ever created
  MaxRetries,     \* RetryPolicy.maxRetries
  Tried           \* bound: the states that callers ask for

HandshakeAssumption ==
  /\ MaxHandshakes \in Nat
  /\ MaxRetries \in Nat

VARIABLES
  sessions, \* the stored handshakes, oldest first
  late,     \* handshakes whose expiresAt has passed
  calls     \* the call each caller is in

vars == <<sessions, late, calls>>

CryptoStates == {"generating", "waitingKey", "deriving", "established"}
ActiveStates == {"created", "initialized", "waiting", "negotiating"} \cup CryptoStates
Failures == {"failed", "cancelled", "timedOut", "expired", "aborted"}
TerminalStates == Failures \cup {"completed", "cryptoComplete", "rejected"}
States == ActiveStates \cup TerminalStates

\* ALLOWED_TRANSITIONS: the way forward, the responder's refusal and the
\* failures; a handshake that is only created cannot fail or expire yet.
Forward ==
  {<<"created", "initialized">>, <<"initialized", "waiting">>,
   <<"initialized", "negotiating">>, <<"waiting", "negotiating">>,
   <<"negotiating", "completed">>, <<"negotiating", "generating">>,
   <<"generating", "waitingKey">>, <<"waitingKey", "deriving">>,
   <<"deriving", "established">>, <<"established", "cryptoComplete">>}
Refusals == {"waiting", "negotiating", "waitingKey"} \X {"rejected"}
Ends == (ActiveStates \ {"created"}) \X Failures
        \cup {"created"} \X {"cancelled", "aborted"}

canTransition(from, to) == <<from, to>> \in Forward \cup Refusals \cup Ends

Ids == DOMAIN sessions
State(i) == Last(sessions[i].history)
isTerminal(i) == State(i) \in TerminalStates

\* Mutation: the new handshake starts with all its retries.
createSessionAnew(retryCount, previous) ==
  [history |-> <<"created">>, agreed |-> FALSE, retryCount |-> 0,
   previous |-> previous]

\* createSession.  "agreed": version and capabilities were negotiated.
createSession(retryCount, previous) ==
  [history |-> <<"created">>, agreed |-> FALSE, retryCount |-> retryCount,
   previous |-> previous]

\* A caller between reading and writing: "create" has not stored anything yet,
\* "move" will append "path" to the history it read.
Idle == [op |-> "idle"]
Creating(retryCount, previous) ==
  [op |-> "create", retryCount |-> retryCount, previous |-> previous]
Moving(i, base, path) == [op |-> "move", id |-> i, base |-> base, path |-> path]

Free(c) == calls[c] = Idle
Busy(c, call) == calls' = [calls EXCEPT ![c] = call]

Init ==
  /\ sessions = <<>>
  /\ late = {}
  /\ calls = [c \in Callers |-> Idle]

\* startHandshake: only while no handshake of the pair is active.
StartHandshake(c) ==
  /\ Free(c)
  /\ \A i \in Ids : isTerminal(i)
  /\ Busy(c, Creating(0, 0))
  /\ UNCHANGED <<sessions, late>>

\* Mutation: the first attempt is not counted.
canRetryOnceMore(attemptsMade) == attemptsMade <= MaxRetries

canRetry(attemptsMade) == attemptsMade < MaxRetries

\* restartHandshake: a new handshake that names the one it replaces.
RestartHandshake(c, i) ==
  /\ Free(c)
  /\ isTerminal(i)
  /\ canRetry(sessions[i].retryCount)
  /\ Busy(c, Creating(sessions[i].retryCount + 1, i))
  /\ UNCHANGED <<sessions, late>>

\* The session is stored as created; it then becomes initialized and waiting.
Create(c) ==
  /\ calls[c].op = "create"
  /\ Len(sessions) < MaxHandshakes
  /\ sessions' = Append(sessions,
                        createSession(calls[c].retryCount, calls[c].previous))
  /\ Busy(c, Moving(Len(sessions) + 1, <<"created">>, <<"initialized">>))
  /\ UNCHANGED late

\* An operation reads handshake i and will move it to "to".
Decide(c, i, to) ==
  /\ Free(c) /\ to \in Tried
  /\ canTransition(State(i), to)
  /\ Busy(c, Moving(i, sessions[i].history, <<to>>))
  /\ UNCHANGED <<sessions, late>>

\* _refreshExpiry: the operation expires the handshake and fails.
RefreshExpiry(c, i) == i \in late /\ Decide(c, i, "expired")

\* acceptHandshake: agree on version and capabilities, or fail.
AcceptHandshake(c, i) ==
  \/ RefreshExpiry(c, i)
  \/ /\ i \notin late
     /\ \/ Decide(c, i, "negotiating")
        \/ Decide(c, i, "failed")

CompleteHandshake(c, i) ==
  RefreshExpiry(c, i) \/ (i \notin late /\ Decide(c, i, "completed"))

\* getHandshake; sweepExpired does the same to every handshake in turn.
GetHandshake(c, i) == RefreshExpiry(c, i)

RejectHandshake(c, i) == Decide(c, i, "rejected")

\* cancelHandshake, failHandshake, abortHandshake, timeoutHandshake,
\* expireHandshake: none of them looks at the deadline.
EndHandshake(c, i) == \E to \in Failures : Decide(c, i, to)

\* _advance, _terminate: state and history go back in one update; accepting
\* also stores what was agreed.
Write(c) ==
  LET call == calls[c]
      history == call.base \o call.path
  IN /\ call.op = "move"
     /\ sessions' = [sessions EXCEPT
          ![call.id].history = history,
          ![call.id].agreed = @ \/ call.path = <<"negotiating">>]
     /\ Busy(c, IF call.path = <<"initialized">>
                  THEN Moving(call.id, history, <<"waiting">>) ELSE Idle)
     /\ UNCHANGED late

Expire(i) ==
  /\ i \notin late
  /\ late' = late \cup {i}
  /\ UNCHANGED <<sessions, calls>>

Next ==
  \/ \E c \in Callers : StartHandshake(c) \/ Create(c) \/ Write(c)
  \/ \E c \in Callers, i \in Ids :
       \/ RestartHandshake(c, i) \/ AcceptHandshake(c, i)
       \/ CompleteHandshake(c, i) \/ GetHandshake(c, i)
       \/ RejectHandshake(c, i) \/ EndHandshake(c, i)
  \/ \E i \in Ids : Expire(i)

Spec == Init /\ [][Next]_vars

-----------------------------------------------------------------------------

TypeOK ==
  /\ \A i \in Ids : sessions[i] \in
       [history : Seq(States), agreed : BOOLEAN, retryCount : Nat,
        previous : 0..(i - 1)]
  /\ late \subseteq Ids
  /\ \A c \in Callers : calls[c].op = "move" => calls[c].id \in Ids

\* No handshake is restarted, its restart restarted and so on, more often than
\* the retries allow, whichever requests overlap: the count that a restart reads
\* from the handshake it replaces is that of the whole chain (restartHandshake,
\* RetryPolicy).
ChainWithinBudget ==
  ~ \E chain \in [0..(MaxRetries + 1) -> Ids] :
      \A k \in 0..MaxRetries : sessions[chain[k + 1]].previous = chain[k]

\* "Terminal states are truly terminal; a "restart" produces a NEW session":
\* what an ended handshake went through is never written again.
TerminalIsTerminal ==
  [][\A i \in Ids : isTerminal(i) => sessions'[i].history = sessions[i].history]_vars

=============================================================================
