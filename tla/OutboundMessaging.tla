------------------------- MODULE OutboundMessaging -------------------------
(***************************************************************************)
(* The sending side of the reliable messaging engine                       *)
(* (server/data-plane/manager/messagingEngine.js, send to sweepExpired).   *)
(* A device hands opaque messages to a transport, arms a retry timer and   *)
(* retransmits until an ACK, a cancellation, the TTL or the retry limit    *)
(* ends the attempt.                                                       *)
(*                                                                         *)
(* The engine is single threaded, but every repository call and every      *)
(* transport call is awaited, so handlers interleave at each await and go  *)
(* on with the copy of the record they read before it.  One step here is   *)
(* the code between two awaits: a task keeps its copy in "cur" and writes  *)
(* are merged into the stored record as `update` merges its patch.         *)
(***************************************************************************)
EXTENDS DataPlane

CONSTANTS
  MaxRetries,   \* retryPolicy.maxRetries
  MaxRestarts,  \* bound: restarts of the sending processes
  Sweepers,     \* retry ticks that may overlap (setInterval does not wait)
  Allowed       \* what callers, clock and transport may do beyond the minimum

OutboundAssumption ==
  /\ MaxRetries \in Nat
  /\ MaxRestarts \in Nat
  /\ Sweepers \cap {"send", "flush", "expiry", "cancel"} = {}
  /\ Allowed \subseteq {"link down", "cancel", "expiry", "flush"}

VARIABLES
  msgs,       \* stored records: state, retry count, retry timer, TTL passed
  queue,      \* ids in the in-memory send queue
  tasks,      \* handlers in progress
  acking,     \* ACKs being handled, each with the state it read
  ackSeen,    \* ackIds in the duplicate cache
  wire,       \* data envelopes the transport has accepted
  attempts,   \* transport.send calls per message, those of a flush aside
              \* (counted for the properties)
  restarts    \* restarts so far

vars == <<msgs, queue, tasks, acking, ackSeen, wire, attempts, restarts>>

\* What the retry, flush, expiry and cancel loops leave alone.
elsewhere == <<acking, ackSeen, wire, attempts, restarts>>

\* Bound: attempts are counted up to one more than the retry limit permits.
AttemptCap == MaxRetries + 2

\* "absent" stands for a record that was not created.
Record == [state : States \cup {"absent"}, retry : 0..MaxRetries,
           timer : {"none", "armed", "due"}, lapsed : BOOLEAN]

\* The copy of a record a handler works with.
Copy == [m : Messages, state : States, retry : 0..MaxRetries,
         lapsed : BOOLEAN]

Workers == Sweepers \cup {"send", "flush", "expiry", "cancel"}

Steps == {"enqueue", "claim", "transmit", "transmitted", "threw", "mark",
          "requeue", "decide", "expire", "cancel"}

Task == [by : Workers, step : Steps, cur : Copy, todo : SUBSET Copy]

Handling == [id : AckIds, state : States]

TypeOK ==
  /\ msgs \in [Messages -> Record]
  /\ queue \subseteq Messages
  /\ tasks \subseteq Task
  /\ acking \subseteq Handling
  /\ ackSeen \subseteq AckIds
  /\ wire \subseteq Messages
  /\ attempts \in [Messages -> 0..AttemptCap]
  /\ restarts \in 0..MaxRestarts

Fresh == [state |-> "absent", retry |-> 0, timer |-> "none", lapsed |-> FALSE]

Init ==
  /\ msgs = [m \in Messages |-> Fresh]
  /\ queue = {} /\ tasks = {} /\ acking = {} /\ ackSeen = {} /\ wire = {}
  /\ attempts = [m \in Messages |-> 0]
  /\ restarts = 0

CopyOf(m) == [m |-> m, state |-> msgs[m].state, retry |-> msgs[m].retry,
              lapsed |-> msgs[m].lapsed]

(***************************************************************************)
(* Sender tasks.                                                           *)
(***************************************************************************)

\* repository.update: the patch is merged into whatever is stored now.
Write(m, state, timer) ==
  msgs' = [msgs EXCEPT ![m].state = state, ![m].timer = timer]

Become(t, step, state) ==
  tasks' = (tasks \ {t}) \cup {[t EXCEPT !.step = step, !.cur.state = state]}

\* The next copy of a listing, in sequence order, or the end of the loop.
Proceed(t, first) ==
  \/ /\ t.todo = {}
     /\ tasks' = tasks \ {t}
  \/ \E c \in t.todo :
       /\ \A d \in t.todo : c.m.seq <= d.m.seq
       /\ tasks' = (tasks \ {t}) \cup
                     {[t EXCEPT !.step = first, !.cur = c, !.todo = @ \ {c}]}

FirstStep(by) == CASE by \in Sweepers -> "decide"
                   [] by = "flush" -> "claim"
                   [] by = "expiry" -> "expire"
                   [] OTHER -> "enqueue"

Advance(t) == Proceed(t, FirstStep(t.by))

\* A sweep starts with the copies it lists, unless the listing is empty.
StartLoop(by, listed) ==
  \E c \in listed :
    /\ \A d \in listed : c.m.seq <= d.m.seq
    /\ tasks' = tasks \cup {[by |-> by, step |-> FirstStep(by), cur |-> c,
                             todo |-> listed \ {c}]}

Running(by, s) == \E t \in tasks : t.by = by /\ t.cur.m.from = s

\* send: nextSequence and create.  The message that takes the next number is
\* stored as CREATED.
Send(m) ==
  /\ msgs[m].state = "absent"
  /\ \A k \in Messages : k.from = m.from /\ k.seq < m.seq
                           => msgs[k].state # "absent"
  /\ msgs' = [msgs EXCEPT ![m].state = "created"]
  /\ tasks' = tasks \cup
       {[by |-> "send", step |-> "enqueue", todo |-> {},
         cur |-> [m |-> m, state |-> "created", retry |-> 0,
                  lapsed |-> FALSE]]}
  /\ UNCHANGED <<queue, elsewhere>>

\* send: CREATED -> QUEUED and queue.enqueue.
Enqueue(t) ==
  /\ t.step = "enqueue"
  /\ Write(t.cur.m, "queued", msgs[t.cur.m].timer)
  /\ queue' = queue \cup {t.cur.m}
  /\ Become(t, "claim", "queued")
  /\ UNCHANGED elsewhere

\* _transmit and _retransmit: the copy must say QUEUED or SENT; SENDING is
\* written over whatever is stored.
Claim(t) ==
  /\ t.step = "claim"
  /\ CanMove(t.cur.state, "sending")
  /\ Write(t.cur.m, "sending", msgs[t.cur.m].timer)
  /\ Become(t, "transmit", "sending")
  /\ UNCHANGED <<queue, elsewhere>>

\* transport.send: the envelope leaves, or the call throws.
Transmit(t) ==
  /\ t.step = "transmit"
  /\ \/ wire' = wire \cup {t.cur.m} /\ Become(t, "transmitted", "sending")
     \/ /\ "link down" \in Allowed
        /\ wire' = wire /\ Become(t, "threw", "sending")
  /\ attempts' = [attempts EXCEPT ![t.cur.m] =
                    IF t.by # "flush" /\ @ < AttemptCap THEN @ + 1 ELSE @]
  /\ UNCHANGED <<msgs, queue, acking, ackSeen, restarts>>

\* findById after the transport call.
Reread(t) ==
  /\ t.step \in {"transmitted", "threw"}
  /\ Become(t, IF t.step = "threw" THEN "requeue" ELSE "mark",
            msgs[t.cur.m].state)
  /\ UNCHANGED <<msgs, queue, elsewhere>>

\* Mutation: the retry timer is not armed when the record goes on.
MarkWithoutTimer(t) ==
  /\ t.step \in {"mark", "requeue"}
  /\ IF t.cur.state = "sending"
       THEN Write(t.cur.m, IF t.step = "mark" THEN "sent" ELSE "queued",
                  "none")
       ELSE UNCHANGED msgs
  /\ queue' = IF t.step = "mark" /\ t.by = "send" THEN queue \ {t.cur.m}
              ELSE queue
  /\ Advance(t)
  /\ UNCHANGED elsewhere

\* The copy just read still says SENDING: SENT (or, after a throw, QUEUED) is
\* written with the retry timer armed; otherwise the record is left alone.
\* Only send takes the message out of the queue here.
Mark(t) ==
  /\ t.step \in {"mark", "requeue"}
  /\ IF t.cur.state = "sending"
       THEN Write(t.cur.m, IF t.step = "mark" THEN "sent" ELSE "queued",
                  "armed")
       ELSE UNCHANGED msgs
  /\ queue' = IF t.step = "mark" /\ t.by = "send" THEN queue \ {t.cur.m}
              ELSE queue
  /\ Advance(t)
  /\ UNCHANGED elsewhere

\* listRetryDue: what a tick of the retry scheduler works through.
RetryDue(s) == {CopyOf(m) : m \in {k \in Messages :
                  /\ k.from = s
                  /\ msgs[k].state \in Retryable
                  /\ msgs[k].timer = "due"}}

\* sweepRetries begins.  A tick does not wait for the one before it.
Tick(w, s) ==
  /\ w \in Sweepers
  /\ ~ Running(w, s)
  /\ StartLoop(w, RetryDue(s))
  /\ UNCHANGED <<msgs, queue, elsewhere>>

\* Mutation: the message that came to its end stays in the queue.
GiveUpKeepsQueue(t, state) ==
  /\ Write(t.cur.m, state, "none")
  /\ queue' = queue
  /\ Advance(t)

\* sweepRetries on one listed copy: past its TTL -> EXPIRED, out of retries
\* -> FAILED, otherwise the retry is counted.  All three are decided on the
\* copy.  The retransmission goes on with the record `update` returned.
GiveUp(t, state) ==
  /\ Write(t.cur.m, state, "none")
  /\ queue' = queue \ {t.cur.m}
  /\ Advance(t)

\* Mutation: the retransmission is not counted.
RetryUncounted(t) ==
  /\ IF msgs[t.cur.m].state \in {"sent", "queued"}
       THEN Become(t, "claim", msgs[t.cur.m].state)
       ELSE Advance(t)
  /\ UNCHANGED <<msgs, queue>>

CountRetry(t) ==
  LET m == t.cur.m
      bumped == [t.cur EXCEPT !.retry = @ + 1, !.state = msgs[m].state]
  IN  /\ msgs' = [msgs EXCEPT ![m].retry = bumped.retry]
      /\ IF bumped.state \in {"sent", "queued"}
           THEN tasks' = (tasks \ {t}) \cup
                           {[t EXCEPT !.step = "claim", !.cur = bumped]}
           ELSE Advance(t)
      /\ UNCHANGED queue

\* Mutation: the last retry is not used.
DecideTooEarly(t) ==
  /\ t.step = "decide"
  /\ \/ t.cur.lapsed /\ GiveUp(t, "expired")
     \/ ~ t.cur.lapsed /\ t.cur.retry + 1 >= MaxRetries /\ GiveUp(t, "failed")
     \/ ~ t.cur.lapsed /\ t.cur.retry + 1 < MaxRetries /\ CountRetry(t)
  /\ UNCHANGED elsewhere

\* Mutation: one retry more than allowed.
DecideTooLate(t) ==
  /\ t.step = "decide"
  /\ \/ t.cur.lapsed /\ GiveUp(t, "expired")
     \/ ~ t.cur.lapsed /\ t.cur.retry > MaxRetries /\ GiveUp(t, "failed")
     \/ ~ t.cur.lapsed /\ t.cur.retry <= MaxRetries /\ CountRetry(t)
  /\ UNCHANGED elsewhere

Decide(t) ==
  /\ t.step = "decide"
  /\ \/ t.cur.lapsed /\ GiveUp(t, "expired")
     \/ ~ t.cur.lapsed /\ t.cur.retry >= MaxRetries /\ GiveUp(t, "failed")
     \/ ~ t.cur.lapsed /\ t.cur.retry < MaxRetries /\ CountRetry(t)
  /\ UNCHANGED elsewhere

\* flushPending: after a reconnect the QUEUED and SENT copies of the listing
\* are retransmitted one after the other; the retry is not counted.
Flush(s) ==
  /\ "flush" \in Allowed
  /\ ~ Running("flush", s)
  /\ StartLoop("flush", {CopyOf(m) : m \in {k \in Messages :
                  k.from = s /\ msgs[k].state \in {"queued", "sent"}}})
  /\ UNCHANGED <<msgs, queue, elsewhere>>

\* sweepExpired: every active message whose TTL passed.
SweepExpired(s) ==
  /\ "expiry" \in Allowed
  /\ ~ Running("expiry", s)
  /\ StartLoop("expiry", {CopyOf(m) : m \in {k \in Messages :
                  /\ k.from = s
                  /\ msgs[k].state \in Active
                  /\ msgs[k].lapsed}})
  /\ UNCHANGED <<msgs, queue, elsewhere>>

Expire(t) ==
  /\ t.step = "expire"
  /\ CanMove(t.cur.state, "expired")
  /\ GiveUp(t, "expired")
  /\ UNCHANGED elsewhere

\* cancel reads the record; from SENDING and SENT the transition is refused.
StartCancel(m) ==
  /\ "cancel" \in Allowed
  /\ msgs[m].state \in Active
  /\ CanMove(msgs[m].state, "cancelled")
  /\ ~ \E t \in tasks : t.by = "cancel" /\ t.cur.m = m
  /\ tasks' = tasks \cup {[by |-> "cancel", step |-> "cancel",
                           cur |-> CopyOf(m), todo |-> {}]}
  /\ UNCHANGED <<msgs, queue, elsewhere>>

Cancel(t) ==
  /\ t.step = "cancel"
  /\ GiveUp(t, "cancelled")
  /\ UNCHANGED elsewhere

Work(t) == \/ Enqueue(t) \/ Claim(t) \/ Transmit(t) \/ Reread(t) \/ Mark(t)
           \/ Decide(t) \/ Expire(t) \/ Cancel(t)

\* _handleAck up to its read of the record.  The ackId is remembered before
\* anything else happens; a known one ends the handler.
AckArrives(a) ==
  /\ a \notin ackSeen
  /\ ackSeen' = ackSeen \cup {a}
  /\ acking' = acking \cup {[id |-> a, state |-> msgs[a.m].state]}
  /\ UNCHANGED <<msgs, queue, tasks, wire, attempts, restarts>>

\* _handleAck on the record it read: a settled message is left alone, from
\* CREATED and QUEUED the transition throws, otherwise ACKNOWLEDGED is
\* written over whatever is stored.
FinishAck(h) ==
  /\ h \in acking
  /\ acking' = acking \ {h}
  /\ IF h.state \in Active /\ CanMove(h.state, "acknowledged")
       THEN /\ Write(h.id.m, "acknowledged", "none")
            /\ queue' = queue \ {h.id.m}
       ELSE UNCHANGED <<msgs, queue>>
  /\ UNCHANGED <<tasks, ackSeen, wire, attempts, restarts>>

\* The clock: a retry timer runs out, a TTL passes.
TimerDue(m) ==
  /\ msgs[m].timer = "armed"
  /\ msgs' = [msgs EXCEPT ![m].timer = "due"]
  /\ UNCHANGED <<queue, tasks, acking, ackSeen, wire, attempts, restarts>>

Lapse(m) ==
  /\ "expiry" \in Allowed
  /\ msgs[m].state \in Active
  /\ ~ msgs[m].lapsed
  /\ msgs' = [msgs EXCEPT ![m].lapsed = TRUE]
  /\ UNCHANGED <<queue, tasks, acking, ackSeen, wire, attempts, restarts>>

\* The process of a sender restarts: the records are stored; queue, handlers
\* and duplicate cache are not.
Restart(s) ==
  /\ restarts < MaxRestarts
  /\ restarts' = restarts + 1
  /\ queue' = {m \in queue : m.from # s}
  /\ tasks' = {t \in tasks : t.cur.m.from # s}
  /\ acking' = {h \in acking : h.id.m.from # s}
  /\ ackSeen' = {a \in ackSeen : a.m.from # s}
  /\ UNCHANGED <<msgs, wire, attempts>>

\* The engine's own steps, all but those that depend on the peer.
LocalNext ==
  \/ \E m \in Messages : Send(m) \/ StartCancel(m) \/ TimerDue(m) \/ Lapse(m)
  \/ \E t \in tasks : Work(t)
  \/ \E s \in Senders : \/ \E w \in Sweepers : Tick(w, s)
                        \/ Flush(s) \/ SweepExpired(s) \/ Restart(s)
  \/ \E h \in acking : FinishAck(h)

\* By itself the engine faces a peer that may answer any envelope the
\* transport took, at any time.
Next == LocalNext \/ \E a \in AckIds : a.m \in wire /\ AckArrives(a)

Spec == Init /\ [][Next]_vars

(***************************************************************************)
(* Fairness: an awaited repository or transport call is answered, timers   *)
(* run out and the retry scheduler keeps ticking.  Nothing is assumed of   *)
(* the peer, of flushes, cancellations and expiry sweeps beginning.        *)
(***************************************************************************)
Fairness ==
  /\ \A m \in Messages :
       /\ WF_vars(TimerDue(m))
       /\ \A w \in {"send", "cancel"} :
            WF_vars(\E t \in tasks : t.by = w /\ t.cur.m = m /\ Work(t))
  /\ \A s \in Senders :
       /\ \A w \in Sweepers : WF_vars(Tick(w, s))
       /\ \A w \in Sweepers \cup {"flush", "expiry"} :
            WF_vars(\E t \in tasks : t.by = w /\ t.cur.m.from = s /\ Work(t))
  /\ \A a \in AckIds : WF_vars(\E h \in acking : h.id = a /\ FinishAck(h))

FairSpec == Spec /\ Fairness

(***************************************************************************)
(* Properties.                                                             *)
(***************************************************************************)

Tended(m) == \E t \in tasks : t.cur.m = m

\* No message is stranded: while it is still active, either a handler is
\* about to write its record again or its retry timer is set, so that a later
\* sweep finds it.  A restart breaks this (see the README): the property is
\* about a process that keeps running.
NotStranded ==
  restarts = 0 =>
    \A m \in Messages : msgs[m].state \in Active =>
      msgs[m].timer # "none" \/ Tended(m)

\* The retry limit bounds the work: with one retry tick at a time, send and
\* retry sweeps hand a message to the transport at most once more than
\* maxRetries, restarts and flushes (which do not count) notwithstanding.
AttemptsBounded == \A m \in Messages : attempts[m] <= MaxRetries + 1

\* A message fails only after all its retries were used.
FailedAfterAllRetries ==
  \A m \in Messages : msgs[m].state = "failed" =>
    msgs[m].retry = MaxRetries

\* ACKNOWLEDGED, FAILED, EXPIRED and CANCELLED are final
\* (types.js: "terminal"; lifecycle.js: "Validates every transition").
TerminalIsFinal ==
  [][\A m \in Messages : msgs[m].state \in Terminal =>
       msgs'[m].state = msgs[m].state]_vars

\* The in-memory queue does not leak: once nothing works on a message that
\* came to its end, the queue has forgotten it.
QueueForgets ==
  \A m \in queue : msgs[m].state \in Active \/ Tended(m)

\* Every message comes to an end, it is acknowledged, fails, expires or is
\* cancelled, as long as the process keeps running.
Settles == \A m \in Messages :
  msgs[m].state # "absent" ~> msgs[m].state \in Terminal \/ restarts > 0
=============================================================================
