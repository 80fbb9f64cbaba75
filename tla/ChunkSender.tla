---------------------------- MODULE ChunkSender ----------------------------
(***************************************************************************)
(* The sending side of the large payload transport engine                  *)
(* (server/transport-engine/manager/transportEngine.js): transfers are     *)
(* pumped out chunk by chunk under a sliding window and a memory guard,     *)
(* chunk ACKs free the window, a sweep retransmits what was not             *)
(* acknowledged in time, and transfers are paused, resumed, cancelled and  *)
(* expire.                                                                 *)
(*                                                                         *)
(* An action runs from one await to the next.  Pumps, ACK handlers, the    *)
(* sweep and the control calls interleave at the awaits; they share the    *)
(* transfer's context, whose state is a copy of the stored record.         *)
(***************************************************************************)
EXTENDS TransferStates

CONSTANTS
  Window,          \* FlowController.windowSize, and the receiver's at first
  MaxInFlight,     \* SenderResourceGuard.maxInFlightBytes, in chunks
  MaxChunkRetries, \* TransportEngine.maxChunkRetries
  MaxPumps,        \* bound: pumps that wait for the transport at once
  Allowed,         \* which of pause, cancel and expire may happen
  LateSends,       \* whether a send may fail after the chunk went out, or
                   \* take longer than the ACK timeout
  MaxRequeued      \* bound: chunks of a transfer queued again after their ACK

SenderAssumption ==
  /\ Window \in Nat \ {0} /\ MaxInFlight \in Nat \ {0}
  /\ MaxChunkRetries \in Nat /\ MaxPumps \in Nat \ {0}
  /\ Allowed \subseteq {"pause", "cancel", "expire"}
  /\ LateSends \in BOOLEAN /\ MaxRequeued \in Nat

VARIABLES
  open,       \* transfers registered in _outbound
  local,      \* ctx.transfer.state: the copy the handlers look at
  stored,     \* the state in the repository
  paused,     \* ctx.paused, with the flow controller's flag
  pending,    \* ctx.pending
  sent,       \* ctx.sent, with the flow controller's outstanding set
  ackedCount, \* ctx.ackedCount
  peerWindow, \* the receiver's window as last heard of
  inFlight,   \* bytes the guard counts, over all transfers
  timer,      \* chunk.nextRetryAt: off, running or due
  retries,    \* chunk.retryCount
  sending,    \* pumps waiting for transport.send and the chunk's record
  acking,     \* ACK handlers at an await
  sweep,      \* the sweep over one transfer's unacknowledged chunks
  controls,   \* pause, resume and cancel calls waiting for the repository
  carried,    \* chunks the transport took, so that they may arrive
  cancelSent, \* transfers whose CANCEL envelope went out
  acked,      \* chunks that were acknowledged (kept for the properties)
  everPaused, \* transfers that were paused once (kept for the properties)
  requeued    \* how often a transfer's chunk was queued again that had been
              \* acknowledged before (kept for the properties)

context == <<local, paused, pending, sent, ackedCount, peerWindow, inFlight>>
clocks  == <<timer, retries>>
history == <<acked, everPaused, requeued>>
vars    == <<open, stored, context, clocks, sending, acking, sweep, controls,
             carried, cancelSent, history>>

Idle == [t |-> "none", todo |-> {}, failing |-> FALSE]

Sending == [t : Transfers, c : Chunks, took : BOOLEAN]
Acking  == [t : Transfers, c : Chunks,
            step : {"store", "complete", "close"}]
Control == [t : Transfers, op : {"pause", "resume", "cancel"}]

TypeOK ==
  /\ open \subseteq Transfers
  /\ local \in [Transfers -> TransferState \cup {"none"}]
  /\ stored \in [Transfers -> TransferState \cup {"none"}]
  /\ paused \in [Transfers -> BOOLEAN]
  /\ pending \in [Transfers -> Seq(Chunks)]
  /\ sent \in [Transfers -> SUBSET Chunks]
  /\ ackedCount \in [Transfers -> 0..ChunkCount + MaxRequeued]
  /\ peerWindow \in [Transfers -> 1..Window]
  /\ inFlight \in 0..MaxInFlight
  /\ timer \in [Transfers -> [Chunks -> {"off", "running", "due"}]]
  /\ retries \in [Transfers -> [Chunks -> 0..MaxChunkRetries]]
  /\ sending \subseteq Sending /\ acking \subseteq Acking
  /\ sweep \in {Idle} \cup [t : Transfers, todo : SUBSET Chunks,
                            failing : BOOLEAN]
  /\ controls \subseteq Control
  /\ carried \in [Transfers -> SUBSET Chunks]
  /\ cancelSent \subseteq Transfers
  /\ acked \in [Transfers -> SUBSET Chunks] /\ everPaused \subseteq Transfers
  /\ requeued \in [Transfers -> 0..MaxRequeued]

Init ==
  /\ open = {} /\ cancelSent = {} /\ everPaused = {}
  /\ local = [t \in Transfers |-> "none"] /\ stored = local
  /\ paused = [t \in Transfers |-> FALSE]
  /\ pending = [t \in Transfers |-> <<>>]
  /\ sent = [t \in Transfers |-> {}] /\ carried = sent /\ acked = sent
  /\ ackedCount = [t \in Transfers |-> 0] /\ requeued = ackedCount
  /\ peerWindow = [t \in Transfers |-> Window]
  /\ inFlight = 0
  /\ timer = [t \in Transfers |-> [c \in Chunks |-> "off"]]
  /\ retries = [t \in Transfers |-> [c \in Chunks |-> 0]]
  /\ sending = {} /\ acking = {} /\ controls = {} /\ sweep = Idle

\* _transitionTransfer: validated on the copy, written whatever is stored.
Store(t, state) == stored' = [stored EXCEPT ![t] = state]

StoreAndCopy(t, state) ==
  /\ Store(t, state)
  /\ local' = [local EXCEPT ![t] = state]

Forget(t) == open' = open \ {t}

(***************************************************************************)
(* Starting and pumping.                                                   *)
(***************************************************************************)

\* startTransfer: nobody looks at the transfer before it is registered.
Start(t) ==
  /\ stored[t] = "none"
  /\ StoreAndCopy(t, "active")
  /\ pending' = [pending EXCEPT ![t] = [i \in Chunks |-> i]]
  /\ open' = open \cup {t}
  /\ UNCHANGED <<paused, sent, ackedCount, peerWindow, inFlight, clocks,
                 sending, acking, sweep, controls, carried, cancelSent, history>>

\* What pump and the flow controller ask before a chunk may go.  The pumps'
\* choice among the candidates (priority and age) is left open.
CanSend(t) ==
  /\ t \in open /\ ~ paused[t] /\ local[t] = "active"
  /\ pending[t] # <<>>
  /\ Cardinality(sent[t]) < Min({Window, peerWindow[t]})
  /\ inFlight + 1 <= MaxInFlight

\* pump and _sendChunk up to transport.send: the chunk counts as sent.  Its
\* envelope gets on its way (took) or is never seen again.
PumpChunk(t) ==
  /\ CanSend(t)
  /\ Cardinality(sending) < MaxPumps
  /\ LET c == Head(pending[t]) IN
       /\ pending' = [pending EXCEPT ![t] = Tail(@)]
       /\ sent' = [sent EXCEPT ![t] = @ \cup {c}]
       /\ timer' = [timer EXCEPT ![t][c] = "running"]
       /\ inFlight' = inFlight + 1
       /\ \E took \in BOOLEAN :
            /\ sending' = sending \cup {[t |-> t, c |-> c, took |-> took]}
            /\ carried' = IF took THEN [carried EXCEPT ![t] = @ \cup {c}]
                          ELSE carried
  /\ UNCHANGED <<open, stored, local, paused, ackedCount, peerWindow, retries,
                 acking, sweep, controls, cancelSent, history>>

\* transport.send resolves; a lost envelope looks the same.
SendDone(s) ==
  /\ s \in sending
  /\ sending' = sending \ {s}
  /\ UNCHANGED <<open, stored, context, clocks, acking, sweep, controls,
                 carried, cancelSent, history>>

\* Mutation: the chunk is not queued again.
SendFailsDrops(s) ==
  /\ s \in sending
  /\ s.took => LateSends
  /\ sending' = sending \ {s}
  /\ sent' = [sent EXCEPT ![s.t] = @ \ {s.c}]
  /\ inFlight' = Max({0, inFlight - 1})
  /\ timer' = [timer EXCEPT ![s.t][s.c] = "off"]
  /\ UNCHANGED <<open, stored, local, paused, pending, ackedCount, peerWindow,
                 retries, acking, sweep, controls, carried, cancelSent, history>>

\* transport.send (or the update of the chunk's record) throws: the chunk is
\* first in the queue again, and its bytes are released, even if its ACK has
\* come in the meantime and did so.
SendFails(s) ==
  /\ s \in sending
  /\ s.took => LateSends
  /\ IF s.c \in sent[s.t] THEN UNCHANGED requeued
     ELSE requeued[s.t] < MaxRequeued /\ requeued' = [requeued EXCEPT ![s.t] = @ + 1]
  /\ sending' = sending \ {s}
  /\ sent' = [sent EXCEPT ![s.t] = @ \ {s.c}]
  /\ inFlight' = Max({0, inFlight - 1})
  /\ timer' = [timer EXCEPT ![s.t][s.c] = "off"]
  /\ pending' = [pending EXCEPT ![s.t] = <<s.c>> \o @]
  /\ UNCHANGED <<open, stored, local, paused, ackedCount, peerWindow, retries,
                 acking, sweep, controls, carried, cancelSent, acked, everPaused>>

(***************************************************************************)
(* ACKs.                                                                   *)
(***************************************************************************)

\* _completeTransfer up to its write: an illegal transition throws, and the
\* transfer stays registered.
BeginComplete(t, c, state) ==
  IF CanMove(state, "completed")
    THEN {[t |-> t, c |-> c, step |-> "complete"]}
    ELSE {}

TakesAck(t, c, w) ==
  /\ t \in open /\ c \in carried[t]
  /\ peerWindow' = [peerWindow EXCEPT ![t] = w]

\* _handleChunkAck for a chunk in flight: it counts, and its record is
\* updated.  The retry time of the chunk stays as it is.
AckChunk(t, c, w) ==
  /\ TakesAck(t, c, w)
  /\ c \in sent[t]
  /\ sent' = [sent EXCEPT ![t] = @ \ {c}]
  /\ inFlight' = Max({0, inFlight - 1})
  /\ ackedCount' = [ackedCount EXCEPT ![t] = @ + 1]
  /\ acked' = [acked EXCEPT ![t] = @ \cup {c}]
  /\ acking' = acking \cup {[t |-> t, c |-> c, step |-> "store"]}
  /\ UNCHANGED <<open, stored, local, paused, pending, clocks, sending, sweep,
                 controls, carried, cancelSent, everPaused, requeued>>

\* Mutation: an ACK for a chunk that is not in flight counts as well.
AckAgainCounts(t, c, w) ==
  /\ TakesAck(t, c, w)
  /\ c \notin sent[t]
  /\ ackedCount[t] < ChunkCount
  /\ ackedCount' = [ackedCount EXCEPT ![t] = @ + 1]
  /\ acking' = acking \cup {[t |-> t, c |-> c, step |-> "store"]}
  /\ UNCHANGED <<open, stored, local, paused, pending, sent, inFlight, clocks,
                 sending, sweep, controls, carried, cancelSent, history>>

\* Mutation: an ACK for a chunk that is not in flight releases its bytes.
AckAgainReleases(t, c, w) ==
  /\ TakesAck(t, c, w)
  /\ c \notin sent[t]
  /\ inFlight' = Max({0, inFlight - 1})
  /\ acking' = IF ackedCount[t] >= ChunkCount
                 THEN acking \cup BeginComplete(t, c, local[t])
                 ELSE acking
  /\ UNCHANGED <<open, stored, local, paused, pending, sent, ackedCount,
                 clocks, sending, sweep, controls, carried, cancelSent, history>>

\* _handleChunkAck for a chunk that is not: only the check for completion is
\* left.
AckAgain(t, c, w) ==
  /\ TakesAck(t, c, w)
  /\ c \notin sent[t]
  /\ acking' = IF ackedCount[t] >= ChunkCount
                 THEN acking \cup BeginComplete(t, c, local[t])
                 ELSE acking
  /\ UNCHANGED <<open, stored, local, paused, pending, sent, ackedCount,
                 inFlight, clocks, sending, sweep, controls, carried,
                 cancelSent, history>>

\* Mutation: the last ACK is not recognised.
AckStoredWaits(a) ==
  /\ a \in acking /\ a.step = "store"
  /\ local' = [local EXCEPT ![a.t] = stored[a.t]]
  /\ acking' = (acking \ {a}) \cup
                 (IF ackedCount[a.t] > ChunkCount
                    THEN BeginComplete(a.t, a.c, stored[a.t]) ELSE {})
  /\ UNCHANGED <<open, stored, paused, pending, sent, ackedCount, peerWindow,
                 inFlight, clocks, sending, sweep, controls, carried,
                 cancelSent, history>>

\* The records are updated, and the context takes over the stored transfer.
\* With every chunk acknowledged the handler completes the transfer.
AckStored(a) ==
  /\ a \in acking /\ a.step = "store"
  /\ local' = [local EXCEPT ![a.t] = stored[a.t]]
  /\ acking' = (acking \ {a}) \cup
                 (IF ackedCount[a.t] >= ChunkCount
                    THEN BeginComplete(a.t, a.c, stored[a.t]) ELSE {})
  /\ UNCHANGED <<open, stored, paused, pending, sent, ackedCount, peerWindow,
                 inFlight, clocks, sending, sweep, controls, carried,
                 cancelSent, history>>

\* _completeTransfer writes; history and progress are saved after it.
Complete(a) ==
  /\ a \in acking /\ a.step = "complete"
  /\ Store(a.t, "completed")
  /\ acking' = (acking \ {a}) \cup {[a EXCEPT !.step = "close"]}
  /\ UNCHANGED <<open, context, clocks, sending, sweep, controls, carried,
                 cancelSent, history>>

Close(a) ==
  /\ a \in acking /\ a.step = "close"
  /\ Forget(a.t)
  /\ acking' = acking \ {a}
  /\ UNCHANGED <<stored, context, clocks, sending, sweep, controls, carried,
                 cancelSent, history>>

(***************************************************************************)
(* The sweep.                                                              *)
(***************************************************************************)

\* Time passes.  A sweep compares with the time it began at.
TimerLapses(t, c) ==
  /\ timer[t][c] = "running"
  /\ sweep.t # t
  /\ LateSends \/ ~ \E s \in sending : s.t = t /\ s.c = c
  /\ timer' = [timer EXCEPT ![t][c] = "due"]
  /\ UNCHANGED <<open, stored, context, retries, sending, acking, sweep,
                 controls, carried, cancelSent, history>>

\* sweepTimeouts comes to an active transfer: it goes through the chunks
\* that are in flight now.  Bound: one sweep at a time.
SweepTransfer(t) ==
  /\ sweep = Idle
  /\ t \in open /\ local[t] = "active"
  /\ sweep' = [t |-> t, todo |-> sent[t], failing |-> FALSE]
  /\ UNCHANGED <<open, stored, context, clocks, sending, acking, controls,
                 carried, cancelSent, history>>

SweepSkips(c) ==
  /\ c \in sweep.todo /\ timer[sweep.t][c] # "due"
  /\ sweep' = [sweep EXCEPT !.todo = @ \ {c}]
  /\ UNCHANGED <<open, stored, context, clocks, sending, acking, controls,
                 carried, cancelSent, history>>

\* Mutation: one retry more than the limit.
SweepRetriesTooOften(c) ==
  /\ c \in sweep.todo /\ timer[sweep.t][c] = "due"
  /\ retries[sweep.t][c] <= MaxChunkRetries
  /\ retries' = [retries EXCEPT ![sweep.t][c] = @ + 1]
  /\ timer' = [timer EXCEPT ![sweep.t][c] = "running"]
  /\ carried' = [carried EXCEPT ![sweep.t] = @ \cup {c}]
  /\ sweep' = [sweep EXCEPT !.todo = @ \ {c}]
  /\ UNCHANGED <<open, stored, context, sending, acking, controls, cancelSent,
                 history>>

\* A chunk of the sweep's list is due, in flight or not: it is sent again.
\* A transport that throws is ignored.
SweepRetries(c) ==
  /\ c \in sweep.todo /\ timer[sweep.t][c] = "due"
  /\ retries[sweep.t][c] < MaxChunkRetries
  /\ retries' = [retries EXCEPT ![sweep.t][c] = @ + 1]
  /\ timer' = [timer EXCEPT ![sweep.t][c] = "running"]
  /\ carried' \in {carried, [carried EXCEPT ![sweep.t] = @ \cup {c}]}
  /\ sweep' = [sweep EXCEPT !.todo = @ \ {c}]
  /\ UNCHANGED <<open, stored, context, sending, acking, controls, cancelSent,
                 history>>

\* It was sent often enough: the transfer will fail, the rest is dropped.
SweepGivesUp(c) ==
  /\ c \in sweep.todo /\ timer[sweep.t][c] = "due"
  /\ retries[sweep.t][c] = MaxChunkRetries
  /\ sweep' = [sweep EXCEPT !.todo = {}, !.failing = TRUE]
  /\ UNCHANGED <<open, stored, context, clocks, sending, acking, controls,
                 carried, cancelSent, history>>

\* _failTransfer, once the chunk's record is updated; it throws where the
\* copy does not permit it.
SweepFails ==
  /\ sweep.failing
  /\ sweep' = Idle
  /\ IF CanMove(local[sweep.t], "failed")
       THEN Store(sweep.t, "failed") /\ Forget(sweep.t)
       ELSE UNCHANGED <<open, stored>>
  /\ UNCHANGED <<context, clocks, sending, acking, controls, carried,
                 cancelSent, history>>

SweepEnds ==
  /\ sweep # Idle /\ sweep.todo = {} /\ ~ sweep.failing
  /\ sweep' = Idle
  /\ UNCHANGED <<open, stored, context, clocks, sending, acking, controls,
                 carried, cancelSent, history>>

Sweep == \/ \E c \in sweep.todo :
              SweepSkips(c) \/ SweepRetries(c) \/ SweepGivesUp(c)
         \/ SweepFails
         \/ SweepEnds

\* sweepTimeouts finds the transfer past its time to live.
Expire(t) ==
  /\ "expire" \in Allowed
  /\ t \in open /\ local[t] \notin Ended
  /\ Store(t, "expired")
  /\ Forget(t)
  /\ UNCHANGED <<context, clocks, sending, acking, sweep, controls, carried,
                 cancelSent, history>>

(***************************************************************************)
(* Pause, resume and cancel.  Bound: one call per transfer at a time.      *)
(***************************************************************************)

Calls(t, op) ==
  /\ op \in Allowed
  /\ t \in open
  /\ \A k \in controls : k.t # t
  /\ controls' = controls \cup {[t |-> t, op |-> op]}

Pause(t) ==
  /\ ~ paused[t] /\ local[t] = "active"
  /\ Calls(t, "pause")
  /\ paused' = [paused EXCEPT ![t] = TRUE]
  /\ everPaused' = everPaused \cup {t}
  /\ UNCHANGED <<open, stored, local, pending, sent, ackedCount, peerWindow,
                 inFlight, clocks, sending, acking, sweep, carried,
                 cancelSent, acked, requeued>>

\* A context that may not go back to active makes the call throw, after the
\* flag was cleared.
Resume(t) ==
  /\ "pause" \in Allowed /\ t \in open /\ paused[t]
  /\ \A k \in controls : k.t # t
  /\ paused' = [paused EXCEPT ![t] = FALSE]
  /\ controls' = IF CanMove(local[t], "active")
                   THEN controls \cup {[t |-> t, op |-> "resume"]}
                   ELSE controls
  /\ UNCHANGED <<open, stored, local, pending, sent, ackedCount, peerWindow,
                 inFlight, clocks, sending, acking, sweep, carried,
                 cancelSent, history>>

Cancel(t) ==
  /\ local[t] \notin Ended
  /\ Calls(t, "cancel")
  /\ UNCHANGED <<open, stored, context, clocks, sending, acking, sweep,
                 carried, cancelSent, history>>

\* The repository answers.  A cancelled transfer is forgotten; the peer is
\* told unless the caller named the acting device or the transfer is gone.
ControlStored(k) ==
  /\ k \in controls
  /\ controls' = controls \ {k}
  /\ CASE k.op = "pause" ->
            StoreAndCopy(k.t, "paused") /\ UNCHANGED <<open, cancelSent>>
       [] k.op = "resume" ->
            StoreAndCopy(k.t, "active") /\ UNCHANGED <<open, cancelSent>>
       [] k.op = "cancel" ->
            /\ StoreAndCopy(k.t, "cancelled")
            /\ Forget(k.t)
            /\ cancelSent' \in {cancelSent, cancelSent \cup ({k.t} \cap open)}
  /\ UNCHANGED <<paused, pending, sent, ackedCount, peerWindow, inFlight,
                 clocks, sending, acking, sweep, carried, history>>

LocalNext ==
  \/ \E t \in Transfers :
       \/ Start(t) \/ PumpChunk(t) \/ SweepTransfer(t) \/ Expire(t)
       \/ Pause(t) \/ Resume(t) \/ Cancel(t)
       \/ \E c \in Chunks : TimerLapses(t, c)
  \/ \E s \in sending : SendDone(s) \/ SendFails(s)
  \/ \E a \in acking : AckStored(a) \/ Complete(a) \/ Close(a)
  \/ Sweep
  \/ \E k \in controls : ControlStored(k)

\* By itself the engine faces a peer that may acknowledge whatever was
\* carried, any number of times, with any window the receiver may advertise.
Ack(t, c, w) == AckChunk(t, c, w) \/ AckAgain(t, c, w)

Next ==
  \/ LocalNext
  \/ \E t \in Transfers, c \in Chunks, w \in 1..Window : Ack(t, c, w)

Spec == Init /\ [][Next]_vars

(***************************************************************************)
(* Properties.                                                             *)
(***************************************************************************)

InQueue(t, c) == \E i \in DOMAIN pending[t] : pending[t][i] = c

\* No chunk of a registered transfer is lost or is in two places: it waits
\* once in the queue, is in flight, or was acknowledged, whatever pumps that
\* fail, late ACKs and sweeps do to it at the same time.  Only a send that fails
\* after the ACK puts a chunk back that is accounted for, and each time one
\* chunk more will be counted, no more than that.
ChunksAccounted ==
  \A t \in open :
    /\ \A c \in Chunks :
         /\ InQueue(t, c) \/ c \in sent[t] \/ c \in acked[t]
         /\ ~ (InQueue(t, c) /\ c \in sent[t])
         /\ requeued[t] = 0 => c \notin acked[t] \/ ~ (InQueue(t, c) \/ c \in sent[t])
    /\ Len(pending[t]) + Cardinality(sent[t]) + ackedCount[t]
         = ChunkCount + requeued[t]

\* The memory guard counts what is in flight and no more: the bytes of a chunk
\* are not reserved for ever by two handlers that both take it for the other's
\* to release.  It counts no less either, so that the cap on in-flight bytes is
\* kept, unless a send failed after its ACK, which releases twice.  The chunks
\* a failed, cancelled or expired transfer had in flight are among them.
GuardBalanced ==
  LET reserved == {p \in Transfers \X Chunks : p[2] \in sent[p[1]]} IN
    /\ inFlight <= Cardinality(reserved)
    /\ (\A t \in Transfers : requeued[t] = 0) => inFlight = Cardinality(reserved)

\* "COMPLETED: all chunks delivered": the receiver acknowledged each one.
CompletedMeansAllAcked ==
  \A t \in Transfers : stored[t] = "completed" => acked[t] = Chunks

\* A transfer does not hang: once its last chunk is acknowledged some handler
\* is at work that will end it, unless the transfer was ever paused.
EndsWhenAcked ==
  \A t \in open \ everPaused :
    acked[t] = Chunks => \E a \in acking : a.t = t
=============================================================================
