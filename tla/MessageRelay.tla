----------------------------- MODULE MessageRelay -----------------------------
(***************************************************************************)
(* The way a message takes without a connection between the devices        *)
(* (server/data-plane/api/relayService.js over the database, and           *)
(* client/src/lib/messaging.js): the sender leaves it at the relay, the    *)
(* receiver polls its inbox, shows what it finds and acknowledges it.  A   *)
(* poll does not wait for the poll before it, at the relay or on the       *)
(* device.                                                                 *)
(***************************************************************************)
EXTENDS Naturals, Sequences, SequencesExt

CONSTANTS
  MaxSeq,     \* bound: messages of the sender
  Polls,      \* polls of the receiver that may be in progress at the same time
  MayFail,    \* requests may fail, or their responses get lost
  MaxReloads  \* bound: times the page is loaded again

MessageRelayAssumption ==
  MaxSeq \in Nat \ {0} /\ MayFail \in BOOLEAN /\ MaxReloads \in Nat

\* By the number nextSequence gave them.
Messages == 1..MaxSeq

VARIABLES
  state,   \* of the message's record at the relay, "none" before it is there
  polls,   \* what each poll is at
  seen,    \* _seen: messages the device has dealt with
  shown,   \* how often each message came to the application
  reloads  \* how often the page was loaded again

vars == <<state, polls, seen, shown, reloads>>

\* "todo" is what the poll works through, "out" what the relay answers with;
\* nobody waits any more for the answer to a poll that is "gone".
Idle == [at |-> "idle", todo |-> <<>>, out |-> <<>>, gone |-> FALSE]
At(p) == polls[p].at
Set(p, poll) == polls' = [polls EXCEPT ![p] = poll]
Todo(p) == polls[p].todo
Current(p) == Head(Todo(p))

Init ==
  /\ state = [m \in Messages |-> "none"]
  /\ polls = [p \in Polls |-> Idle]
  /\ seen = {}
  /\ shown = [m \in Messages |-> 0]
  /\ reloads = 0

-----------------------------------------------------------------------------
(* The relay. *)

\* relay: numbers are drawn one by one, the records may come in any order.
Relay(m) ==
  /\ state[m] = "none"
  /\ state' = [state EXCEPT ![m] = "sent"]
  /\ UNCHANGED <<polls, seen, shown, reloads>>

\* inbox lists the conversation, oldest first, and picks the messages not yet
\* delivered.
List(p) ==
  /\ At(p) = "idle"
  /\ \E todo \in SetToSeqs({m \in Messages : state[m] = "sent"}) :
       /\ \A i, j \in DOMAIN todo : i < j => todo[i] < todo[j]
       /\ Set(p, [Idle EXCEPT !.at = "inbox", !.todo = todo])
  /\ UNCHANGED <<state, seen, shown, reloads>>

\* Each becomes DELIVERED: the transition is checked on the listed copy, the
\* write goes over whatever the record is by then.
Deliver(p) ==
  /\ At(p) = "inbox" /\ Todo(p) # <<>>
  /\ state' = [state EXCEPT ![Current(p)] = "delivered"]
  /\ Set(p, [polls[p] EXCEPT !.todo = Tail(@), !.out = Append(@, Current(p))])
  /\ UNCHANGED <<seen, shown, reloads>>

\* acknowledge reads the record, and writes unless it is ACKNOWLEDGED.
ReadForAck(p) ==
  /\ At(p) = "ack"
  /\ Set(p, [polls[p] EXCEPT
               !.at = IF state[Current(p)] = "acknowledged" THEN "answered" ELSE "mark"])
  /\ UNCHANGED <<state, seen, shown, reloads>>
MarkAcknowledged(p) ==
  /\ At(p) = "mark"
  /\ state' = [state EXCEPT ![Current(p)] = "acknowledged"]
  /\ Set(p, [polls[p] EXCEPT !.at = "answered"])
  /\ UNCHANGED <<seen, shown, reloads>>

-----------------------------------------------------------------------------
(* The receiver: pullInbox. *)

\* The response to the poll has arrived.
Receive(p) ==
  /\ At(p) = "inbox" /\ Todo(p) = <<>>
  /\ Set(p, IF polls[p].out = <<>> \/ polls[p].gone THEN Idle
            ELSE [Idle EXCEPT !.at = "loop", !.todo = polls[p].out])
  /\ UNCHANGED <<state, seen, shown, reloads>>

\* On to the next message of the response.
Rest(p) ==
  IF Tail(Todo(p)) = <<>> \/ polls[p].gone THEN Idle
  ELSE [Idle EXCEPT !.at = "loop", !.todo = Tail(Todo(p))]

\* Mutation: a message counts as seen only when it is acknowledged.
LookedAt(m) == seen' = {s \in Messages : state[s] = "acknowledged"}
\* A message is marked as seen before it is decrypted.
Marked(m) == seen' = seen \cup {m}

Take(p) ==
  /\ At(p) = "loop"
  /\ IF Current(p) \in seen
     THEN Set(p, Rest(p)) /\ UNCHANGED seen
     ELSE Set(p, [polls[p] EXCEPT !.at = "decrypt"]) /\ Marked(Current(p))
  /\ UNCHANGED <<state, shown, reloads>>

\* The message is decrypted and given to the handlers; then it is acknowledged.
Show(p) ==
  /\ At(p) = "decrypt"
  /\ shown' = [shown EXCEPT ![Current(p)] = @ + 1]
  /\ Set(p, [polls[p] EXCEPT !.at = "ack"])
  /\ UNCHANGED <<state, seen, reloads>>

Acknowledged(p) ==
  /\ At(p) = "answered"
  /\ Set(p, Rest(p))
  /\ UNCHANGED <<state, seen, shown, reloads>>

AtRelay(p) == At(p) \in {"inbox", "ack", "mark", "answered"}

\* A request fails at the relay: pullInbox throws, and what it had in hand is
\* gone.
Fail(p) ==
  /\ MayFail /\ AtRelay(p)
  /\ Set(p, Idle)
  /\ UNCHANGED <<state, seen, shown, reloads>>

\* The same for a request whose response is lost: the relay goes on with it.
Lose(p) ==
  /\ MayFail /\ AtRelay(p)
  /\ Set(p, [polls[p] EXCEPT !.gone = TRUE])
  /\ UNCHANGED <<state, seen, shown, reloads>>

\* The page is loaded again: what the device held in memory is gone.
Reload ==
  /\ reloads < MaxReloads
  /\ reloads' = reloads + 1
  /\ polls' = [p \in Polls |-> IF AtRelay(p) THEN [polls[p] EXCEPT !.gone = TRUE]
                              ELSE Idle]
  /\ seen' = {}
  /\ UNCHANGED <<state, shown>>

Work(p) ==
  \/ Deliver(p) \/ ReadForAck(p) \/ MarkAcknowledged(p)
  \/ Receive(p) \/ Take(p) \/ Show(p) \/ Acknowledged(p)

Next ==
  \/ \E m \in Messages : Relay(m)
  \/ \E p \in Polls : List(p) \/ Work(p) \/ Fail(p) \/ Lose(p)
  \/ Reload

\* The relay answers, and the timer of startInboxPolling goes off again.
Fairness == \A p \in Polls : WF_vars(Work(p)) /\ WF_vars(List(p))

Spec == Init /\ [][Next]_vars /\ Fairness

-----------------------------------------------------------------------------
Steps == {"idle", "inbox", "loop", "decrypt", "ack", "mark", "answered"}

TypeOK ==
  /\ state \in [Messages -> {"none", "sent", "delivered", "acknowledged"}]
  /\ \A p \in Polls : At(p) \in Steps /\ ToSet(Todo(p)) \subseteq Messages
  /\ seen \subseteq Messages /\ reloads \in 0..MaxReloads
  /\ shown \in [Messages -> Nat]

\* A message comes to the application once, although polls that overlap are
\* both given it and the page may be loaded again.
ShownOnce == \A m \in Messages : shown[m] <= 1

\* What the sender sees as acknowledged, the application has.
AcknowledgedIsShown ==
  \A m \in Messages : state[m] = "acknowledged" => shown[m] > 0

\* A message left at the relay comes to the application in the end.  Only
\* without failures: a message counts as delivered when the relay puts it into
\* a response, and no poll lists it again when that response is lost.
ShownInTheEnd == \A m \in Messages : state[m] # "none" ~> shown[m] > 0
=============================================================================
