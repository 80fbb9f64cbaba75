------------------------------ MODULE DirectChat ------------------------------
(***************************************************************************)
(* Direct messages from one user to another (server/controllers/           *)
(* messageController.js, the socket handlers of server/server.js, the      *)
(* socket directory of server/lib/redis.js) as the receiver's client shows *)
(* them (client/context/ChatContext.jsx).  Requests, socket events and     *)
(* database updates are separate steps; the receiver opens and leaves the  *)
(* conversation and loses its connection at will.                          *)
(***************************************************************************)
EXTENDS Naturals, Sequences, SequencesExt

CONSTANTS
  Messages,   \* messages sent into the conversation
  Fetches,    \* getMessages requests that may be in flight at the same time
  MaxSockets  \* bound: connections of the receiver

DirectChatAssumption == MaxSockets \in Nat

VARIABLES
  status,     \* of each message in the database
  sending,    \* where the sendMessage request of each message stands
  connected,  \* the receiver's socket, 0 while it has none
  closing,    \* closed sockets whose disconnect handler has not run
  directory,  \* the receiver's socket in Redis, or 0
  inbox,      \* newMessage events on their way to the receiver's client
  open,       \* whether the receiver has the conversation open
  list,       \* the messages it shows and the status it shows them with
  fetches,    \* getMessages requests: what they listed, and how far they are
  marking     \* whether a request to mark messages as seen is on its way

db == <<status, sending>>
sockets == <<connected, closing, directory>>
client == <<open, list>>
vars == <<db, sockets, inbox, client, fetches, marking>>

Nothing == [m \in Messages |-> "none"]
NoFetch == [step |-> "idle", found |-> Nothing]

Init ==
  /\ status = Nothing
  /\ sending = [m \in Messages |-> "idle"]
  /\ connected = 0 /\ closing = {} /\ directory = 0
  /\ inbox = <<>>
  /\ open = FALSE /\ list = Nothing
  /\ fetches = [f \in Fetches |-> NoFetch]
  /\ marking = FALSE

\* A client connects: its socket is entered under the user's one key.
Connect ==
  /\ connected = 0
  /\ \E s \in 1..MaxSockets :
       /\ \A r \in 1..(s - 1) : r \in closing \* a number is used once it is free
       /\ s \notin closing
       /\ connected' = s /\ directory' = s
  /\ UNCHANGED <<db, closing, inbox, client, fetches, marking>>

\* The connection breaks; the server notices later.
Lose ==
  /\ connected # 0
  /\ connected' = 0
  /\ closing' = closing \cup {connected}
  /\ inbox' = <<>>
  /\ UNCHANGED <<db, directory, client, fetches, marking>>

\* The disconnect handler removes the user's key, whatever socket it holds.
Disconnected(s) ==
  /\ s \in closing
  /\ closing' = closing \ {s}
  /\ directory' = 0
  /\ UNCHANGED <<db, connected, inbox, client, fetches, marking>>

\* sendMessage: the message is created.
Send(m) ==
  /\ sending[m] = "idle"
  /\ status' = [status EXCEPT ![m] = "sent"]
  /\ sending' = [sending EXCEPT ![m] = "created"]
  /\ UNCHANGED <<sockets, inbox, client, fetches, marking>>

\* It goes to the socket of the directory; the status is to be saved.
Emit(m) ==
  /\ sending[m] = "created"
  /\ IF directory = 0
       THEN sending' = [sending EXCEPT ![m] = "done"] /\ UNCHANGED inbox
       ELSE /\ sending' = [sending EXCEPT ![m] = "emitted"]
            /\ inbox' = IF directory = connected THEN Append(inbox, m) ELSE inbox
  /\ UNCHANGED <<status, sockets, client, fetches, marking>>

\* The request saves the status it set, over whatever is there by now.
SaveDelivered(m) ==
  /\ sending[m] = "emitted"
  /\ status' = [status EXCEPT ![m] = "delivered"]
  /\ sending' = [sending EXCEPT ![m] = "done"]
  /\ UNCHANGED <<sockets, inbox, client, fetches, marking>>

\* updateMany: every message that is not read is read now.
Read == [m \in Messages |-> IF status[m] = "none" THEN "none" ELSE "read"]

\* The receiver opens the conversation: its messages are asked for.
Open(f) ==
  /\ fetches[f].step = "idle"
  /\ open' = TRUE
  /\ fetches' = [fetches EXCEPT ![f].step = "asked"]
  /\ UNCHANGED <<db, sockets, inbox, list, marking>>

\* It turns to another one, whose messages replace the list.
Leave ==
  /\ open
  /\ open' = FALSE /\ list' = Nothing
  /\ UNCHANGED <<db, sockets, inbox, fetches, marking>>

\* getAllMessages: first the messages are listed,
List(f) ==
  /\ fetches[f].step = "asked"
  /\ fetches' = [fetches EXCEPT ![f] = [step |-> "listed", found |-> status]]
  /\ UNCHANGED <<db, sockets, inbox, client, marking>>

\* Mutation: only delivered messages are marked.
MarkDelivered(f) ==
  /\ fetches[f].step = "listed"
  /\ status' = [m \in Messages |-> IF status[m] = "delivered" THEN "read" ELSE status[m]]
  /\ fetches' = [fetches EXCEPT ![f].step = "marked"]
  /\ UNCHANGED <<sending, sockets, inbox, client, marking>>

\* then the incoming ones are marked as read,
Mark(f) ==
  /\ fetches[f].step = "listed"
  /\ status' = Read
  /\ fetches' = [fetches EXCEPT ![f].step = "marked"]
  /\ UNCHANGED <<sending, sockets, inbox, client, marking>>

\* Mutation: an answer is dropped while another request is under way.
ShowWhenAlone(f) ==
  /\ fetches[f].step = "marked"
  /\ list' = IF \A g \in Fetches \ {f} : fetches[g] = NoFetch
                THEN fetches[f].found ELSE list
  /\ fetches' = [fetches EXCEPT ![f] = NoFetch]
  /\ UNCHANGED <<db, sockets, inbox, open, marking>>

\* and the answer replaces the client's list.
Show(f) ==
  /\ fetches[f].step = "marked"
  /\ list' = fetches[f].found
  /\ fetches' = [fetches EXCEPT ![f] = NoFetch]
  /\ UNCHANGED <<db, sockets, inbox, open, marking>>

\* A newMessage event: in the open conversation it is shown as read and the
\* server is told; otherwise only the unseen counter goes up.
NewMessage ==
  /\ inbox # <<>>
  /\ inbox' = Tail(inbox)
  /\ list' = IF open THEN [list EXCEPT ![Head(inbox)] = "read"] ELSE list
  /\ marking' = (marking \/ open)
  /\ UNCHANGED <<db, sockets, open, fetches>>

\* markMessageAsSeen
MarkSeen ==
  /\ marking
  /\ marking' = FALSE
  /\ status' = Read
  /\ UNCHANGED <<sending, sockets, inbox, client, fetches>>

Next ==
  \/ Connect \/ Lose \/ \E s \in closing : Disconnected(s)
  \/ \E m \in Messages : Send(m) \/ Emit(m) \/ SaveDelivered(m)
  \/ \E f \in Fetches : Open(f) \/ List(f) \/ Mark(f) \/ Show(f)
  \/ Leave \/ NewMessage \/ MarkSeen

Spec == Init /\ [][Next]_vars

\* What goes on by itself once it was begun.
Serve(m) == Emit(m) \/ SaveDelivered(m)
Fetch(f) == List(f) \/ Mark(f) \/ Show(f)

-----------------------------------------------------------------------------

Statuses == {"none", "sent", "delivered", "read"}

TypeOK ==
  /\ status \in [Messages -> Statuses] /\ list \in [Messages -> Statuses]
  /\ sending \in [Messages -> {"idle", "created", "emitted", "done"}]
  /\ connected \in 0..MaxSockets /\ directory \in 0..MaxSockets
  /\ closing \subseteq 1..MaxSockets
  /\ inbox \in Seq(Messages)
  /\ \A f \in Fetches : fetches[f].step \in {"idle", "asked", "listed", "marked"}

Asked == \E f \in Fetches : fetches[f].step = "asked"
IsSent(m) == status[m] # "none"
OpenAgainAndAgain == []<>Asked

\* A receiver who keeps coming back to the conversation has read every message
\* in the end, however statuses were overwritten on the way (getAllMessages).
ReadInTheEnd ==
  OpenAgainAndAgain => \A m \in Messages : <>[](IsSent(m) => status[m] = "read")

\* It also gets to see every message, although lists are replaced by answers
\* that are older and events are lost with the connection (getMessages).
ShownInTheEnd ==
  OpenAgainAndAgain => \A m \in Messages : IsSent(m) ~> list[m] # "none"

Quiet ==
  /\ \A m \in Messages : sending[m] \in {"idle", "done"}
  /\ \A f \in Fetches : fetches[f] = NoFetch
  /\ inbox = <<>> /\ ~ marking

\* When nothing is under way, a message shown as read in the open conversation
\* is read in the database.
ShownIsRead ==
  Quiet => \A m \in Messages : list[m] = "read" => status[m] = "read"

=============================================================================
