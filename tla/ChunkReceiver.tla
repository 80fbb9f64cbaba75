--------------------------- MODULE ChunkReceiver ---------------------------
(***************************************************************************)
(* The receiving side of the large payload transport engine                *)
(* (server/transport-engine/manager/transportEngine.js, _handleChunk with  *)
(* reassembly/reassembler.js): the first chunk that arrives opens an       *)
(* inbound transfer, every chunk is collected, recorded and acknowledged,  *)
(* and the complete payload is handed to the application.                  *)
(*                                                                         *)
(* An action runs from one await to the next.  A chunk that fails its      *)
(* checksum is dropped without an ACK, like one that never arrives.        *)
(***************************************************************************)
EXTENDS TransferStates

CONSTANTS
  UniqueRecords, \* whether transfers.create refuses a known transferId (the
                 \* unique index of Mongo) or replaces it (in memory)
  StoreMayFail,  \* whether recording a chunk may throw
  InboundEnds,   \* which of cancel and expire may happen on this side
  MaxContexts    \* bound: reassembly contexts per transfer

VARIABLES
  contexts,  \* the reassembly contexts ever made, by transfer
  current,   \* the one registered in _inbound; 0 for none
  record,    \* state of the inbound transfer in the repository
  creating,  \* chunk handlers waiting for transfers.create
  receiving, \* chunk handlers that have put their chunk in a context
  payloads,  \* payloads handed to the application
  confirmed  \* chunks a chunk ACK went out for

vars == <<contexts, current, record, creating, receiving, payloads, confirmed>>

Context == [chunks : SUBSET Chunks, state : TransferState]

\* complete: this chunk was the last one its context waited for.
Receiving == [t : Transfers, x : 1..MaxContexts, c : Chunks,
              complete : BOOLEAN, step : {"record", "deliver", "close"}]

TypeOK ==
  /\ contexts \in [Transfers -> Seq(Context)]
  /\ \A t \in Transfers :
       Len(contexts[t]) <= MaxContexts /\ current[t] \in 0..Len(contexts[t])
  /\ record \in [Transfers -> TransferState \cup {"none"}]
  /\ creating \subseteq [t : Transfers, c : Chunks]
  /\ receiving \subseteq Receiving
  /\ payloads \in [Transfers -> 0..MaxContexts]
  /\ confirmed \in [Transfers -> SUBSET Chunks]

Init ==
  /\ contexts = [t \in Transfers |-> <<>>]
  /\ current = [t \in Transfers |-> 0] /\ payloads = current
  /\ record = [t \in Transfers |-> "none"]
  /\ creating = {} /\ receiving = {}
  /\ confirmed = [t \in Transfers |-> {}]

Here(t) == contexts[t][current[t]]

Handler(t, x, c, got) ==
  [t |-> t, x |-> x, c |-> c, complete |-> got = Chunks, step |-> "record"]

Confirm(t, c) == confirmed' = [confirmed EXCEPT ![t] = @ \cup {c}]

\* A chunk of a transfer that is not registered: an inbound transfer is to be
\* created first.
ChunkOpens(t, c) ==
  /\ current[t] = 0
  /\ [t |-> t, c |-> c] \notin creating
  /\ creating' = creating \cup {[t |-> t, c |-> c]}
  /\ UNCHANGED <<contexts, current, record, receiving, payloads, confirmed>>

\* The repository refuses: the handler throws and the chunk is not
\* acknowledged.
CreateRefused(n) ==
  /\ n \in creating
  /\ UniqueRecords /\ record[n.t] # "none"
  /\ creating' = creating \ {n}
  /\ UNCHANGED <<contexts, current, record, receiving, payloads, confirmed>>

\* Mutation: a record that exists does not keep a second one out.
CreatedAnyway(n) ==
  /\ n \in creating
  /\ Len(contexts[n.t]) < MaxContexts
  /\ LET x == Len(contexts[n.t]) + 1 IN
       /\ contexts' = [contexts EXCEPT ![n.t] =
            Append(@, [chunks |-> {n.c}, state |-> "reassembling"])]
       /\ current' = [current EXCEPT ![n.t] = x]
       /\ receiving' = receiving \cup {Handler(n.t, x, n.c, {n.c})}
  /\ record' = [record EXCEPT ![n.t] = "reassembling"]
  /\ creating' = creating \ {n}
  /\ UNCHANGED <<payloads, confirmed>>

\* The record is there: a new context is registered, in the place of any
\* other, and takes the chunk.
Created(n) ==
  /\ n \in creating
  /\ UniqueRecords => record[n.t] = "none"
  /\ Len(contexts[n.t]) < MaxContexts
  /\ LET x == Len(contexts[n.t]) + 1 IN
       /\ contexts' = [contexts EXCEPT ![n.t] =
            Append(@, [chunks |-> {n.c}, state |-> "reassembling"])]
       /\ current' = [current EXCEPT ![n.t] = x]
       /\ receiving' = receiving \cup {Handler(n.t, x, n.c, {n.c})}
  /\ record' = [record EXCEPT ![n.t] = "reassembling"]
  /\ creating' = creating \ {n}
  /\ UNCHANGED <<payloads, confirmed>>

\* Mutation: the context takes a chunk it has once more.
AcceptChunkAgain(t, c) ==
  /\ current[t] # 0
  /\ contexts' = [contexts EXCEPT ![t][current[t]].chunks = @ \cup {c}]
  /\ receiving' = receiving \cup
       {Handler(t, current[t], c, Here(t).chunks \cup {c})}
  /\ UNCHANGED <<current, record, creating, payloads, confirmed>>

\* Reassembler.accept of a chunk the context does not have.
AcceptChunk(t, c) ==
  /\ current[t] # 0 /\ c \notin Here(t).chunks
  /\ contexts' = [contexts EXCEPT ![t][current[t]].chunks = @ \cup {c}]
  /\ receiving' = receiving \cup
       {Handler(t, current[t], c, Here(t).chunks \cup {c})}
  /\ UNCHANGED <<current, record, creating, payloads, confirmed>>

\* A chunk it has is acknowledged again.
RepeatChunk(t, c) ==
  /\ current[t] # 0 /\ c \in Here(t).chunks
  /\ Confirm(t, c)
  /\ UNCHANGED <<contexts, current, record, creating, receiving, payloads>>

ReceiveChunk(t, c) == ChunkOpens(t, c) \/ AcceptChunk(t, c) \/ RepeatChunk(t, c)

\* Mutation: the last chunk of a payload does not lead to its delivery.
RecordedForgets(h) ==
  /\ h \in receiving /\ h.step = "record"
  /\ record' = [record EXCEPT ![h.t] = "reassembling"]
  /\ contexts' = [contexts EXCEPT ![h.t][h.x].state = "reassembling"]
  /\ Confirm(h.t, h.c)
  /\ receiving' = receiving \ {h}
  /\ UNCHANGED <<current, creating, payloads>>

\* Chunk and progress are recorded, and the ACK goes out; the transfer is
\* reassembling again, whatever it was.
Recorded(h) ==
  /\ h \in receiving /\ h.step = "record"
  /\ record' = [record EXCEPT ![h.t] = "reassembling"]
  /\ contexts' = [contexts EXCEPT ![h.t][h.x].state = "reassembling"]
  /\ Confirm(h.t, h.c)
  /\ receiving' = (receiving \ {h}) \cup
       (IF h.complete THEN {[h EXCEPT !.step = "deliver"]} ELSE {})
  /\ UNCHANGED <<current, creating, payloads>>

\* The repository throws: the chunk stays in the context, nobody hears of it.
RecordFails(h) ==
  /\ StoreMayFail
  /\ h \in receiving /\ h.step = "record"
  /\ receiving' = receiving \ {h}
  /\ UNCHANGED <<contexts, current, record, creating, payloads, confirmed>>

\* The payload is reconstructed and handed over.  A context that may not be
\* completed makes the handler throw after that.
HandOver(h) ==
  /\ h \in receiving /\ h.step = "deliver"
  /\ payloads' = [payloads EXCEPT ![h.t] = @ + 1]
  /\ receiving' = (receiving \ {h}) \cup
       (IF CanMove(contexts[h.t][h.x].state, "completed")
          THEN {[h EXCEPT !.step = "close"]} ELSE {})
  /\ UNCHANGED <<contexts, current, record, creating, confirmed>>

\* _completeTransfer and the end of the context, whichever is registered.
CloseInbound(h) ==
  /\ h \in receiving /\ h.step = "close"
  /\ record' = [record EXCEPT ![h.t] = "completed"]
  /\ current' = [current EXCEPT ![h.t] = 0]
  /\ receiving' = receiving \ {h}
  /\ UNCHANGED <<contexts, creating, payloads, confirmed>>

\* A CANCEL envelope of the sender, or a call on this side.
CancelInbound(t) ==
  /\ current[t] # 0 /\ Here(t).state \notin Ended
  /\ record' = [record EXCEPT ![t] = "cancelled"]
  /\ contexts' = [contexts EXCEPT ![t][current[t]].state = "cancelled"]
  /\ current' = [current EXCEPT ![t] = 0]
  /\ UNCHANGED <<creating, receiving, payloads, confirmed>>

\* sweepTimeouts: the context keeps its copy of the state.
ExpireInbound(t) ==
  /\ current[t] # 0 /\ Here(t).state \notin Ended
  /\ record' = [record EXCEPT ![t] = "expired"]
  /\ current' = [current EXCEPT ![t] = 0]
  /\ UNCHANGED <<contexts, creating, receiving, payloads, confirmed>>

Work(h) == Recorded(h) \/ RecordFails(h) \/ HandOver(h) \/ CloseInbound(h)

LocalNext ==
  \/ \E n \in creating : Created(n) \/ CreateRefused(n)
  \/ \E h \in receiving : Work(h)
  \/ \E t \in Transfers :
       \/ "cancel" \in InboundEnds /\ CancelInbound(t)
       \/ "expire" \in InboundEnds /\ ExpireInbound(t)

\* By itself the engine faces a transport that may bring any chunk at any
\* time, any number of times or never.
Next == LocalNext \/ \E t \in Transfers, c \in Chunks : ReceiveChunk(t, c)

Spec == Init /\ [][Next]_vars

(***************************************************************************)
(* Properties.                                                             *)
(***************************************************************************)

\* The application gets a payload at most once, however often its chunks
\* come, also after the transfer was completed, cancelled or expired.
PayloadOnce == \A t \in Transfers : payloads[t] <= 1

\* The payload is with the application or a handler is about to bring it.
Delivering(t) ==
  payloads[t] > 0 \/ \E h \in receiving : h.t = t /\ h.complete

\* A chunk that was acknowledged will not be sent again: the context that
\* goes on collecting has it, or the payload is complete already.
ConfirmedIsHeld ==
  \A t \in Transfers : \A c \in confirmed[t] :
    current[t] # 0 => c \in Here(t).chunks \/ Delivering(t)
=============================================================================
