------------------------------ MODULE ChunkRelay ------------------------------
(***************************************************************************)
(* The way a large payload takes without a connection between the devices  *)
(* (server/transport-engine/api/relayService.js over the database, and     *)
(* client/src/lib/transport.js): the sender opens a transfer and leaves    *)
(* its chunks at the relay one by one; the receiver polls, acknowledges    *)
(* what it collects, and hands over the payload when it has all of it.     *)
(* Each step is what relay or device do between two awaits.                *)
(***************************************************************************)
EXTENDS TransferStates

CONSTANTS
  Controls,  \* states a participant tries to give a transfer
  MayFail    \* requests of the receiver may fail

ChunkRelayAssumption ==
  Controls \subseteq {"paused", "active", "cancelled"} /\ MayFail \in BOOLEAN

VARIABLES
  state,      \* of each transfer's record, "none" before openTransfer
  stored,     \* the chunk record with each chunkId
  sender,     \* what sendPayload is at, for each transfer
  receiver,   \* what receiveTransfer is at, for each transfer
  control,    \* a call to pause, resume or cancel, between read and write
  relayed,    \* chunks of each transfer the sender was told are relayed
  handedOver  \* transfers whose payload came to the application

vars == <<state, stored, sender, receiver, control, relayed, handedOver>>

\* The chunkId of the client is the index of the chunk, in every transfer.
NoChunk == [of |-> "nobody", state |-> "none"]
Chunk(t, i) == stored[i].of = t
AckedChunks(t) == {i \in Chunks : Chunk(t, i) /\ stored[i].state = "acked"}

NotReceiving == [at |-> "idle", collected |-> {}, todo |-> {}]
SetSender(t, s) == sender' = [sender EXCEPT ![t] = s]
SetReceiver(t, r) == receiver' = [receiver EXCEPT ![t] = r]
Collected(t) == receiver[t].collected

Init ==
  /\ state = [t \in Transfers |-> "none"]
  /\ stored = [i \in Chunks |-> NoChunk]
  /\ sender = [t \in Transfers |-> [at |-> "open", chunk |-> 1]]
  /\ receiver = [t \in Transfers |-> NotReceiving]
  /\ control = NoChunk
  /\ relayed = [t \in Transfers |-> {}]
  /\ handedOver = {}

-----------------------------------------------------------------------------
(* The sender: sendPayload, and the relay's openTransfer and relayChunk. *)

Open(t) ==
  /\ sender[t].at = "open"
  /\ state' = [state EXCEPT ![t] = "active"]
  /\ SetSender(t, [at |-> "relay", chunk |-> 1])
  /\ UNCHANGED <<stored, receiver, control, relayed, handedOver>>

\* relayChunk refuses a transfer that has ended; sendPayload throws then.
Relay(t) ==
  /\ sender[t].at = "relay"
  /\ SetSender(t, [sender[t] EXCEPT
                     !.at = IF state[t] \in Transferring THEN "store" ELSE "stopped"])
  /\ UNCHANGED <<state, stored, receiver, control, relayed, handedOver>>

\* upsert finds the record by its chunkId alone.
Store(t) ==
  /\ sender[t].at = "store"
  /\ stored' = [stored EXCEPT ![sender[t].chunk] = [of |-> t, state |-> "received"]]
  /\ SetSender(t, [sender[t] EXCEPT !.at = "answered"])
  /\ UNCHANGED <<state, receiver, control, relayed, handedOver>>

Relayed(t) ==
  /\ sender[t].at = "answered"
  /\ LET i == sender[t].chunk
     IN  /\ relayed' = [relayed EXCEPT ![t] = @ \cup {i}]
         /\ SetSender(t, IF i = ChunkCount THEN [at |-> "stopped", chunk |-> i]
                         ELSE [at |-> "relay", chunk |-> i + 1])
  /\ UNCHANGED <<state, stored, receiver, control, handedOver>>

Send(t) == Open(t) \/ Relay(t) \/ Store(t) \/ Relayed(t)

-----------------------------------------------------------------------------
(* The receiver: receiveTransfer, and the relay's pullChunks and ackChunks. *)

Receive(t) ==
  /\ receiver[t].at = "idle" /\ state[t] # "none" /\ t \notin handedOver
  /\ SetReceiver(t, [NotReceiving EXCEPT !.at = "pull"])
  /\ UNCHANGED <<state, stored, sender, control, relayed, handedOver>>

\* pullChunks: the chunks of the transfer that are RECEIVED.
Pull(t) ==
  /\ receiver[t].at = "pull"
  /\ SetReceiver(t, [receiver[t] EXCEPT
       !.at = "collect",
       !.todo = {i \in Chunks : stored[i] = [of |-> t, state |-> "received"]}])
  /\ UNCHANGED <<state, stored, sender, control, relayed, handedOver>>

\* What the response brought is collected, and then acknowledged.
Collect(t) ==
  /\ receiver[t].at = "collect"
  /\ SetReceiver(t, [receiver[t] EXCEPT
       !.collected = @ \cup receiver[t].todo,
       !.at = IF receiver[t].todo = {} THEN "loop" ELSE "ack"])
  /\ UNCHANGED <<state, stored, sender, control, relayed, handedOver>>

\* ackChunks, for each chunk: look it up, write it unless it is ACKED.
FindForAck(t) ==
  /\ receiver[t].at = "ack" /\ receiver[t].todo # {}
  /\ LET i == Min(receiver[t].todo)
     IN  SetReceiver(t, IF Chunk(t, i) /\ stored[i].state # "acked"
                        THEN [receiver[t] EXCEPT !.at = "mark"]
                        ELSE [receiver[t] EXCEPT !.todo = @ \ {i}])
  /\ UNCHANGED <<state, stored, sender, control, relayed, handedOver>>

MarkAcked(t) ==
  /\ receiver[t].at = "mark"
  /\ LET i == Min(receiver[t].todo)
     IN  /\ stored' = [stored EXCEPT ![i].state = "acked"]
         /\ SetReceiver(t, [receiver[t] EXCEPT !.at = "ack", !.todo = @ \ {i}])
  /\ UNCHANGED <<state, sender, control, relayed, handedOver>>

\* Mutation: chunks that were only relayed count, too.
CountedLoosely(t) == Cardinality({i \in Chunks : Chunk(t, i)})
\* countByState, after which the transfer gets the count and is read with it.
Counted(t) == Cardinality(AckedChunks(t))

Count(t) ==
  /\ receiver[t].at = "ack" /\ receiver[t].todo = {}
  /\ SetReceiver(t, [receiver[t] EXCEPT
                       !.at = IF Counted(t) >= ChunkCount THEN "update" ELSE "loop"])
  /\ UNCHANGED <<state, stored, sender, control, relayed, handedOver>>

\* With all chunks acknowledged the transfer becomes COMPLETED, unless it has
\* ended; from PAUSED it may not, the relay refuses and receiveTransfer throws.
Update(t) ==
  /\ receiver[t].at = "update"
  /\ SetReceiver(t, IF state[t] \in Ended THEN [receiver[t] EXCEPT !.at = "loop"]
                    ELSE IF CanMove(state[t], "completed")
                    THEN [receiver[t] EXCEPT !.at = "complete"]
                    ELSE NotReceiving)
  /\ UNCHANGED <<state, stored, sender, control, relayed, handedOver>>

Complete(t) ==
  /\ receiver[t].at = "complete"
  /\ state' = [state EXCEPT ![t] = "completed"]
  /\ SetReceiver(t, [receiver[t] EXCEPT !.at = "loop"])
  /\ UNCHANGED <<stored, sender, control, relayed, handedOver>>

\* The payload is complete, or the receiver polls again after a while.
Loop(t) ==
  /\ receiver[t].at = "loop"
  /\ IF Collected(t) = Chunks
     THEN /\ handedOver' = handedOver \cup {t}
          /\ SetReceiver(t, NotReceiving)
     ELSE /\ SetReceiver(t, [receiver[t] EXCEPT !.at = "pull"])
          /\ UNCHANGED handedOver
  /\ UNCHANGED <<state, stored, sender, control, relayed>>

\* A request fails or is aborted: receiveTransfer throws, and what it has
\* collected is gone.
Fail(t) ==
  /\ MayFail /\ receiver[t].at \in {"pull", "ack", "loop"}
  /\ SetReceiver(t, NotReceiving)
  /\ UNCHANGED <<state, stored, sender, control, relayed, handedOver>>

Take(t) ==
  \/ Receive(t) \/ Pull(t) \/ Collect(t) \/ FindForAck(t) \/ MarkAcked(t)
  \/ Count(t) \/ Update(t) \/ Complete(t) \/ Loop(t)

-----------------------------------------------------------------------------
(* pauseTransfer, resumeTransfer, cancelTransfer of a participant. *)

\* _setState reads the transfer and checks the transition ...
Ask(t, to) ==
  /\ control = NoChunk
  /\ state[t] \in Transferring /\ CanMove(state[t], to)
  /\ control' = [of |-> t, state |-> to]
  /\ UNCHANGED <<state, stored, sender, receiver, relayed, handedOver>>

\* ... and writes over whatever the record says by then.
Answer ==
  /\ control # NoChunk
  /\ state' = [state EXCEPT ![control.of] = control.state]
  /\ control' = NoChunk
  /\ UNCHANGED <<stored, sender, receiver, relayed, handedOver>>

Next ==
  \/ \E t \in Transfers : Send(t) \/ Take(t) \/ Fail(t)
  \/ \E t \in Transfers, to \in Controls : Ask(t, to)
  \/ Answer

\* The relay answers, the sender goes on, the receiver polls again.
Fairness == \A t \in Transfers : WF_vars(Send(t)) /\ WF_vars(Take(t))

Spec == Init /\ [][Next]_vars /\ Fairness

-----------------------------------------------------------------------------
TypeOK ==
  /\ state \in [Transfers -> TransferState \cup {"none"}]
  /\ \A i \in Chunks :
       /\ stored[i].of \in Transfers \cup {"nobody"}
       /\ stored[i].state \in {"none", "received", "acked"}
  /\ \A t \in Transfers :
       /\ sender[t].at \in {"open", "relay", "store", "answered", "stopped"}
       /\ receiver[t].at \in {"idle", "pull", "collect", "ack", "mark", "update",
                              "complete", "loop"}
       /\ receiver[t].todo \cup Collected(t) \cup relayed[t] \subseteq Chunks
  /\ handedOver \subseteq Transfers

\* A transfer is COMPLETED only when the receiver has collected all of it,
\* whatever pauses and cancellations come in between.  A receiver that keeps
\* nothing of a call that failed is another matter (MayFail).
CompletedIsCollected ==
  \A t \in Transfers :
    state[t] = "completed" => t \in handedOver \/ Collected(t) = Chunks

\* A chunk the relay has accepted can be pulled until the receiver has it.
RelayedIsKept ==
  \A t \in Transfers : \A i \in relayed[t] :
    \/ i \in Collected(t) \/ t \in handedOver
    \/ stored[i] = [of |-> t, state |-> "received"]

\* The payload of a transfer comes to the application in the end.
ArrivesInTheEnd == \A t \in Transfers : state[t] # "none" ~> t \in handedOver
=============================================================================
