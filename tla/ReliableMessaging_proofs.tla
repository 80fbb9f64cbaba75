----------------------- MODULE ReliableMessaging_proofs -----------------------
(***************************************************************************)
(* Proofs about the reliable messaging engine, for every number of         *)
(* messages, retries, ACKs, restarts of the sender and overlapping         *)
(* handlers.  End to end: what the sender holds as acknowledged is not     *)
(* lost at the receiver, and the two ends implement OrderedDelivery.  The  *)
(* sender by itself: no record is stranded, the queue forgets, and the     *)
(* retries are all used and not exceeded.                                  *)
(***************************************************************************)
EXTENDS ReliableMessaging, TLAPS, SequenceTheorems, FiniteSetTheorems

(***************************************************************************)
(* The sender: its types, and that it works on nothing but stored records. *)
(***************************************************************************)
\* Both ends speak of the same messages.
LEMMA SameData ==
  /\ Out!Messages = Messages /\ In!Messages = Messages
  /\ Out!AckIds = AckIds /\ In!AckIds = AckIds
  /\ Out!States = States /\ Out!Active = Active
BY DEF Out!Messages, In!Messages, Messages, Out!Seqs, In!Seqs, Seqs,
       Out!AckIds, In!AckIds, AckIds, Out!States, States, Out!Active, Active,
       Out!Terminal, Terminal

Present(m) == msgs[m].state # "absent"

TasksOK ==
  /\ tasks \subseteq Out!Task
  /\ \A t \in tasks : Present(t.cur.m) /\ \A c \in t.todo : Present(c.m)

SenderInv ==
  /\ msgs \in [Messages -> Out!Record]
  /\ TasksOK
  /\ acking \subseteq Out!Handling
  /\ wire \subseteq Messages
  /\ \A m \in wire : Present(m)
  /\ \A h \in acking : Present(h.id.m)

\* What a step of the sender may do to the records: none is dropped, and only
\* an ACK under way acknowledges one.
Keeps ==
  \A m \in Messages :
    /\ Present(m) => Present(m)'
    /\ msgs'[m].state = "acknowledged" =>
         msgs[m].state = "acknowledged" \/ \E h \in acking : h.id.m = m

NothingNew == \A m \in Messages : Present(m)' => Present(m)

\* A write over a stored record keeps the records well formed and present.
LEMMA WriteKeeps ==
  ASSUME SenderInv, NEW m \in Messages, Present(m),
         NEW state \in States, NEW timer \in {"none", "armed", "due"},
         state = "acknowledged" => \E h \in acking : h.id.m = m,
         Out!Write(m, state, timer)
  PROVE  msgs' \in [Messages -> Out!Record] /\ Keeps /\ NothingNew
<1>1. /\ msgs'[m].state = state
      /\ msgs'[m] \in Out!Record
  BY SameData DEF SenderInv, Out!Write, Out!Record
<1>2. \A k \in Messages : k # m => msgs'[k] = msgs[k]
  BY DEF SenderInv, Out!Write
<1>3. msgs' \in [Messages -> Out!Record]
  BY <1>1, <1>2 DEF SenderInv, Out!Write
<1>4. state # "absent"
  BY DEF States, Active, Terminal
<1> QED
  BY <1>1, <1>2, <1>3, <1>4 DEF Keeps, NothingNew, Present

\* A step that writes no record.
LEMMA Unwritten ==
  SenderInv /\ UNCHANGED msgs =>
    msgs' \in [Messages -> Out!Record] /\ Keeps /\ NothingNew
BY DEF SenderInv, Keeps, NothingNew, Present

\* A handler that goes on with copies of stored records.
LEMMA TaskReplaced ==
  ASSUME SenderInv, Keeps, NEW old,
         NEW t \in Out!Task, Present(t.cur.m)', \A c \in t.todo : Present(c.m)',
         tasks' = (tasks \ old) \cup {t}
  PROVE  TasksOK'
BY SameData DEF SenderInv, TasksOK, Keeps, Out!Task, Out!Copy

\* A handler that goes on with the copy it has.
LEMMA BecomeOK ==
  ASSUME SenderInv, Keeps, NEW t \in tasks, NEW step \in Out!Steps,
         NEW state \in States, Out!Become(t, step, state)
  PROVE  TasksOK'
<1> DEFINE u == [t EXCEPT !.step = step, !.cur.state = state]
<1>1. t \in Out!Task /\ t.cur.m \in Messages
  BY SameData DEF SenderInv, TasksOK, Out!Task, Out!Copy
<1>2. t.cur \in Out!Copy /\ t.todo \subseteq Out!Copy
  BY <1>1 DEF Out!Task
<1>3. [t.cur EXCEPT !.state = state] \in Out!Copy
  BY <1>2, SameData DEF Out!Copy
<1>4. u \in Out!Task /\ u.cur.m = t.cur.m /\ u.todo = t.todo
  BY <1>1, <1>2, <1>3 DEF Out!Task, Out!Copy
<1>5. \A c \in t.todo : c.m \in Messages
  BY <1>2, SameData DEF Out!Copy
<1>6. Present(u.cur.m)' /\ \A c \in u.todo : Present(c.m)'
  BY <1>1, <1>4, <1>5 DEF SenderInv, TasksOK, Keeps
<1>7. tasks' = (tasks \ {t}) \cup {u}
  BY DEF Out!Become
<1> QED
  BY <1>4, <1>6, <1>7, TaskReplaced

\* Every loop begins with a step there is.
LEMMA StepsOfLoops == \A by : Out!FirstStep(by) \in Out!Steps
BY DEF Out!FirstStep, Out!Steps

\* A loop that takes its next copy, or ends.
LEMMA AdvanceOK ==
  ASSUME SenderInv, Keeps, NEW t \in tasks, Out!Advance(t)
  PROVE  TasksOK'
<1>1. t \in Out!Task /\ t.todo \subseteq Out!Copy
  BY DEF SenderInv, TasksOK, Out!Task
<1>2. CASE tasks' = tasks \ {t}
  BY <1>2, SameData DEF SenderInv, TasksOK, Keeps, Out!Task, Out!Copy
<1>3. ASSUME NEW c \in t.todo,
             tasks' = (tasks \ {t}) \cup
               {[t EXCEPT !.step = Out!FirstStep(t.by), !.cur = c, !.todo = @ \ {c}]}
      PROVE  TasksOK'
  <2> DEFINE u == [t EXCEPT !.step = Out!FirstStep(t.by), !.cur = c, !.todo = @ \ {c}]
  <2>1. u \in Out!Task /\ u.cur = c /\ u.todo = t.todo \ {c}
    BY <1>1, StepsOfLoops DEF Out!Task
  <2>2. \A k \in t.todo : k.m \in Messages
    BY <1>1, SameData DEF Out!Copy
  <2>3. Present(u.cur.m)' /\ \A k \in u.todo : Present(k.m)'
    BY <2>1, <2>2 DEF SenderInv, TasksOK, Keeps
  <2> QED
    BY <1>3, <2>1, <2>3, TaskReplaced
<1> QED
  BY <1>2, <1>3 DEF Out!Advance, Out!Proceed

\* What a step leaves alone of the sender is still in order.
LEMMA RestOK ==
  ASSUME SenderInv, Keeps, msgs' \in [Messages -> Out!Record], TasksOK',
         acking' \subseteq acking, wire' \subseteq wire
  PROVE  SenderInv'
BY SameData DEF SenderInv, Keeps, Out!Handling, Out!AckIds

\* What is known of a handler's copy and of the record it stands for.
LEMMA TaskData ==
  ASSUME SenderInv, NEW t \in tasks
  PROVE  /\ t \in Out!Task /\ t.cur \in Out!Copy
         /\ t.cur.m \in Messages /\ Present(t.cur.m)
         /\ msgs[t.cur.m] \in Out!Record /\ msgs[t.cur.m].state \in States
BY SameData DEF SenderInv, TasksOK, Out!Task, Out!Copy, Out!Record, Present

\* The last step of a loop on one message: the record is written, the next copy
\* is taken.
LEMMA WriteAdvance ==
  ASSUME SenderInv, NEW t \in tasks, NEW state \in States \ {"acknowledged"},
         NEW timer \in {"none", "armed", "due"},
         Out!Write(t.cur.m, state, timer), Out!Advance(t),
         UNCHANGED <<acking, wire>>
  PROVE  SenderInv' /\ Keeps /\ NothingNew
<1>1. msgs' \in [Messages -> Out!Record] /\ Keeps /\ NothingNew
  BY TaskData, WriteKeeps
<1>2. TasksOK'
  BY <1>1, AdvanceOK
<1> QED
  BY <1>1, <1>2, RestOK

\* A write of a handler that goes on with the same copy.
LEMMA WriteBecome ==
  ASSUME SenderInv, NEW t \in tasks, NEW state \in States \ {"acknowledged"},
         NEW step \in Out!Steps,
         Out!Write(t.cur.m, state, msgs[t.cur.m].timer), Out!Become(t, step, state),
         UNCHANGED <<acking, wire>>
  PROVE  SenderInv' /\ Keeps /\ NothingNew
<1>1. msgs[t.cur.m].timer \in {"none", "armed", "due"}
  BY TaskData DEF Out!Record
<1>2. msgs' \in [Messages -> Out!Record] /\ Keeps /\ NothingNew
  BY <1>1, TaskData, WriteKeeps
<1>3. TasksOK'
  BY <1>2, BecomeOK
<1> QED
  BY <1>2, <1>3, RestOK

\* A retry is counted, and the retransmission begins or is skipped.
LEMMA CountRetryOK ==
  ASSUME MaxRetries \in Nat, SenderInv, NEW t \in tasks,
         t.cur.retry < MaxRetries, Out!CountRetry(t), UNCHANGED <<acking, wire>>
  PROVE  SenderInv' /\ Keeps /\ NothingNew
<1> DEFINE m == t.cur.m
           bumped == [t.cur EXCEPT !.retry = @ + 1, !.state = msgs[m].state]
           u == [t EXCEPT !.step = "claim", !.cur = bumped]
<1>1. /\ t \in Out!Task /\ t.cur \in Out!Copy /\ m \in Messages
      /\ msgs[m] \in Out!Record /\ msgs[m].state \in States
  BY TaskData
<1>2. /\ bumped \in Out!Copy /\ bumped.m = m
      /\ bumped.retry \in 0..MaxRetries
  <2>1. t.cur.retry \in 0..MaxRetries
    BY <1>1 DEF Out!Copy
  <2>2. t.cur.retry + 1 \in 0..MaxRetries
    BY <2>1
  <2> DEFINE r == t.cur.retry + 1
             s == msgs[m].state
  <2>3. r \in 0..MaxRetries /\ s \in Out!States
    BY <1>1, <2>2, SameData
  <2>4. bumped = [t.cur EXCEPT !.retry = r, !.state = s]
    OBVIOUS
  <2> HIDE DEF r, s, bumped
  <2> QED
    BY <1>1, <2>3, <2>4 DEF Out!Copy
<1>3. /\ msgs' \in [Messages -> Out!Record]
      /\ \A k \in Messages : msgs'[k].state = msgs[k].state
  <2> HIDE DEF bumped
  <2>1. msgs' = [msgs EXCEPT ![m].retry = bumped.retry]
    BY DEF Out!CountRetry, bumped
  <2>2. [msgs[m] EXCEPT !.retry = bumped.retry] \in Out!Record
    BY <1>1, <1>2 DEF Out!Record
  <2>3. msgs' = [msgs EXCEPT ![m] = [msgs[m] EXCEPT !.retry = bumped.retry]]
    BY <2>1
  <2>4. [msgs[m] EXCEPT !.retry = bumped.retry].state = msgs[m].state
    BY <1>1 DEF Out!Record
  <2> QED
    BY <1>1, <2>2, <2>3, <2>4 DEF SenderInv
<1>4. Keeps /\ NothingNew
  BY <1>3 DEF Keeps, NothingNew, Present
<1>5. ASSUME NEW n \in Out!Task, n.cur.m = m, n.todo = t.todo,
             tasks' = (tasks \ {t}) \cup {n}
      PROVE  SenderInv' /\ Keeps /\ NothingNew
  <2>1. m \in Messages /\ \A c \in t.todo : c.m \in Messages
    BY <1>1, SameData DEF Out!Task, Out!Copy
  <2>2. Present(n.cur.m)' /\ \A c \in n.todo : Present(c.m)'
    BY <1>4, <1>5, <2>1 DEF SenderInv, TasksOK, Keeps
  <2>3. TasksOK'
    BY <1>4, <1>5, <2>2, TaskReplaced
  <2> QED
    BY <1>3, <1>4, <2>3, RestOK
<1>6. CASE Out!Advance(t)
  BY <1>3, <1>4, <1>6, AdvanceOK, RestOK
<1>7. u \in Out!Task /\ u.cur.m = m /\ u.todo = t.todo
  <2> HIDE DEF bumped
  <2> QED
    BY <1>1, <1>2 DEF Out!Task, Out!Steps
<1> QED
  BY <1>5, <1>6, <1>7 DEF Out!CountRetry

\* Every step of a handler.
LEMMA WorkOK ==
  ASSUME MaxRetries \in Nat, SenderInv, NEW t \in tasks, Out!Work(t)
  PROVE  SenderInv' /\ Keeps /\ NothingNew
<1> USE DEF Out!elsewhere
<1>0. {"queued", "sending", "sent", "expired", "failed", "cancelled"}
        \subseteq States \ {"acknowledged"}
  BY DEF States, Active, Terminal
<1>s. {"claim", "transmit", "transmitted", "threw", "mark", "requeue"}
        \subseteq Out!Steps
  BY DEF Out!Steps
<1>1. CASE Out!Enqueue(t)
  BY <1>1, <1>0, <1>s, WriteBecome DEF Out!Enqueue
<1>2. CASE Out!Claim(t)
  BY <1>2, <1>0, <1>s, WriteBecome DEF Out!Claim
<1>3. CASE Out!Transmit(t)
  <2>1. msgs' \in [Messages -> Out!Record] /\ Keeps /\ NothingNew
    BY <1>3, Unwritten DEF Out!Transmit
  <2>2. TasksOK'
    BY <1>3, <1>0, <1>s, <2>1, BecomeOK DEF Out!Transmit
  <2>3. wire' \subseteq wire \cup {t.cur.m} /\ acking' = acking
    BY <1>3 DEF Out!Transmit
  <2>4. \A m \in Messages : Present(m) => Present(m)'
    BY <2>1 DEF Keeps
  <2>5. \A h \in acking : h.id.m \in Messages
    BY SameData DEF SenderInv, Out!Handling, AckIds
  <2>6. SenderInv'
    BY <2>1, <2>2, <2>3, <2>4, <2>5, TaskData DEF SenderInv
  <2> QED
    BY <2>1, <2>6
<1>4. CASE Out!Reread(t)
  <2>1. msgs' \in [Messages -> Out!Record] /\ Keeps /\ NothingNew
    BY <1>4, Unwritten DEF Out!Reread
  <2>2. TasksOK'
    BY <1>4, <1>s, <2>1, BecomeOK, TaskData DEF Out!Reread
  <2> QED
    BY <1>4, <2>1, <2>2, RestOK DEF Out!Reread
<1>5. CASE Out!Mark(t)
  <2>1. CASE UNCHANGED msgs
    <3>1. msgs' \in [Messages -> Out!Record] /\ Keeps /\ NothingNew
      BY <2>1, Unwritten
    <3>2. TasksOK'
      BY <1>5, <3>1, AdvanceOK DEF Out!Mark
    <3> QED
      BY <1>5, <3>1, <3>2, RestOK DEF Out!Mark
  <2>2. ASSUME NEW state \in {"sent", "queued"}, Out!Write(t.cur.m, state, "armed")
        PROVE  SenderInv' /\ Keeps /\ NothingNew
    BY <1>5, <1>0, <2>2, WriteAdvance DEF Out!Mark
  <2> QED
    BY <1>5, <2>1, <2>2 DEF Out!Mark
<1>6. CASE Out!Decide(t)
  <2>1. CASE Out!GiveUp(t, "expired") \/ Out!GiveUp(t, "failed")
    BY <1>6, <1>0, <2>1, WriteAdvance DEF Out!Decide, Out!GiveUp
  <2>2. CASE t.cur.retry < MaxRetries /\ Out!CountRetry(t)
    BY <1>6, <2>2, CountRetryOK DEF Out!Decide
  <2> QED
    BY <1>6, <2>1, <2>2 DEF Out!Decide
<1>7. CASE Out!Expire(t)
  BY <1>7, <1>0, WriteAdvance DEF Out!Expire, Out!GiveUp
<1>8. CASE Out!Cancel(t)
  BY <1>8, <1>0, WriteAdvance DEF Out!Cancel, Out!GiveUp
<1> QED
  BY <1>1, <1>2, <1>3, <1>4, <1>5, <1>6, <1>7, <1>8 DEF Out!Work

\* The copy of a stored record.
LEMMA CopyData ==
  ASSUME SenderInv, NEW m \in Messages, Present(m)
  PROVE  Out!CopyOf(m) \in Out!Copy /\ Out!CopyOf(m).m = m
BY SameData DEF SenderInv, Present, Out!CopyOf, Out!Copy, Out!Record

\* A handler that begins with copies of records that are there.
LEMMA TaskAdded ==
  ASSUME SenderInv, NEW t \in Out!Task, Present(t.cur.m),
         \A c \in t.todo : Present(c.m), tasks' = tasks \cup {t},
         UNCHANGED <<msgs, acking, wire>>
  PROVE  SenderInv' /\ Keeps /\ NothingNew
<1>1. msgs' \in [Messages -> Out!Record] /\ Keeps /\ NothingNew
  BY Unwritten
<1>2. Present(t.cur.m)' /\ \A c \in t.todo : Present(c.m)'
  BY DEF Present
<1>3. TasksOK'
  <2>1. tasks' = (tasks \ {}) \cup {t}
    OBVIOUS
  <2> QED
    BY <1>1, <1>2, <2>1, TaskReplaced
<1> QED
  BY <1>1, <1>3, RestOK

\* A sweep that begins with the copies it lists.
LEMMA StartLoopOK ==
  ASSUME SenderInv, NEW by \in Out!Workers, NEW S \in SUBSET Messages,
         \A m \in S : Present(m),
         Out!StartLoop(by, {Out!CopyOf(m) : m \in S}),
         UNCHANGED <<msgs, acking, wire>>
  PROVE  SenderInv' /\ Keeps /\ NothingNew
<1> DEFINE listed == {Out!CopyOf(m) : m \in S}
<1>1. \A c \in listed : c \in Out!Copy /\ Present(c.m)
  BY CopyData
<1>2. ASSUME NEW c \in Out!Copy, NEW todo \in SUBSET Out!Copy, Present(c.m),
             \A d \in todo : Present(d.m),
             tasks' = tasks \cup {[by |-> by, step |-> Out!FirstStep(by),
                                   cur |-> c, todo |-> todo]}
      PROVE  SenderInv' /\ Keeps /\ NothingNew
  <2> DEFINE t == [by |-> by, step |-> Out!FirstStep(by), cur |-> c, todo |-> todo]
  <2>1. t \in Out!Task
    BY StepsOfLoops DEF Out!Task
  <2> QED
    BY <1>2, <2>1, TaskAdded
<1>3. \A c \in listed : listed \ {c} \subseteq Out!Copy
  BY <1>1
<1> QED
  BY <1>1, <1>2, <1>3 DEF Out!StartLoop

Grows == \E m \in Messages :
  ~ Present(m) /\ \A k \in Messages : Present(k)' <=> Present(k) \/ k = m

\* One message more is stored.
LEMMA SendOK ==
  ASSUME MaxRetries \in Nat, SenderInv, NEW m \in Messages, Out!Send(m)
  PROVE  SenderInv' /\ Keeps /\ Grows
<1> DEFINE c == [m |-> m, state |-> "created", retry |-> 0, lapsed |-> FALSE]
           t == [by |-> "send", step |-> "enqueue", todo |-> {}, cur |-> c]
<1>1. /\ ~ Present(m) /\ msgs' = [msgs EXCEPT ![m].state = "created"]
      /\ tasks' = tasks \cup {t} /\ UNCHANGED <<acking, wire>>
  BY DEF Out!Send, Out!elsewhere, Present
<1>2. "created" \in States /\ "created" # "absent"
  BY DEF States, Active
<1>3. msgs'[m].state = "created" /\ msgs'[m] \in Out!Record
  BY <1>1, <1>2, SameData DEF SenderInv, Out!Record
<1>4. \A k \in Messages : k # m => msgs'[k] = msgs[k]
  BY <1>1 DEF SenderInv
<1>5. msgs' \in [Messages -> Out!Record]
  BY <1>1, <1>3, <1>4 DEF SenderInv
<1>6. Keeps /\ Grows
  BY <1>1, <1>2, <1>3, <1>4 DEF Keeps, Grows, Present
<1>7. c \in Out!Copy
  BY <1>2, SameData DEF Out!Copy
<1>8. t \in Out!Task /\ t.cur.m = m /\ t.todo = {}
  BY <1>7 DEF Out!Task, Out!Workers, Out!Steps
<1>9. Present(m)'
  BY <1>2, <1>3 DEF Present
<1>10. TasksOK'
  <2>1. tasks' = (tasks \ {}) \cup {t}
    BY <1>1
  <2>2. Present(t.cur.m)' /\ \A k \in t.todo : Present(k.m)'
    BY <1>8, <1>9
  <2> QED
    BY <1>6, <1>8, <2>1, <2>2, TaskReplaced
<1> QED
  BY <1>1, <1>5, <1>6, <1>10, RestOK

\* The clock changes a field of a record other than its state.
LEMMA FieldKept ==
  ASSUME SenderInv, NEW m \in Messages, NEW r \in Out!Record,
         r.state = msgs[m].state, msgs' = [msgs EXCEPT ![m] = r],
         UNCHANGED <<tasks, acking, wire>>
  PROVE  SenderInv' /\ Keeps /\ NothingNew
<1>1. msgs' \in [Messages -> Out!Record]
  BY DEF SenderInv
<1>2. \A k \in Messages : msgs'[k].state = msgs[k].state
  BY DEF SenderInv
<1>3. Keeps /\ NothingNew
  BY <1>2 DEF Keeps, NothingNew, Present
<1>4. TasksOK'
  BY <1>3, SameData DEF SenderInv, TasksOK, Keeps, Out!Task, Out!Copy
<1> QED
  BY <1>1, <1>3, <1>4, RestOK

\* An ACK settles the message it names.
LEMMA FinishAckOK ==
  ASSUME SenderInv, NEW h \in acking, Out!FinishAck(h)
  PROVE  SenderInv' /\ Keeps /\ NothingNew
<1>1. h.id.m \in Messages /\ Present(h.id.m)
  BY SameData DEF SenderInv, Out!Handling, AckIds
<1>2. msgs' \in [Messages -> Out!Record] /\ Keeps /\ NothingNew
  <2>1. CASE UNCHANGED msgs
    BY <2>1, Unwritten
  <2>2. CASE Out!Write(h.id.m, "acknowledged", "none")
    <3>1. "acknowledged" \in States
      BY DEF States, Terminal
    <3> QED
      BY <1>1, <2>2, <3>1, WriteKeeps
  <2> QED
    BY <2>1, <2>2 DEF Out!FinishAck
<1>3. TasksOK' /\ acking' \subseteq acking /\ wire' \subseteq wire
  BY <1>2, SameData
     DEF Out!FinishAck, SenderInv, TasksOK, Keeps, Out!Task, Out!Copy
<1> QED
  BY <1>2, <1>3, RestOK

\* Every step of the sender that does not depend on the peer.
LEMMA LocalOK ==
  ASSUME MaxRetries \in Nat, SenderInv, restarts \in Nat, Out!LocalNext
  PROVE  SenderInv' /\ Keeps /\ (NothingNew \/ Grows) /\ restarts' \in Nat
<1>1. ASSUME NEW m \in Messages, Out!Send(m)
      PROVE  SenderInv' /\ Keeps /\ Grows /\ UNCHANGED restarts
  BY <1>1, SendOK DEF Out!Send, Out!elsewhere
<1>2. ASSUME NEW m \in Messages, Out!StartCancel(m)
      PROVE  SenderInv' /\ Keeps /\ NothingNew /\ UNCHANGED restarts
  <2> DEFINE t == [by |-> "cancel", step |-> "cancel", cur |-> Out!CopyOf(m),
                   todo |-> {}]
  <2>1. Present(m)
    BY <1>2, SameData DEF Out!StartCancel, Present, Active
  <2>2. /\ tasks' = tasks \cup {t}
        /\ UNCHANGED <<msgs, acking, wire, restarts>>
    BY <1>2 DEF Out!StartCancel, Out!elsewhere
  <2>3. ASSUME NEW c \in Out!Copy, c.m = m,
               tasks' = tasks \cup {[by |-> "cancel", step |-> "cancel",
                                     cur |-> c, todo |-> {}]}
        PROVE  SenderInv' /\ Keeps /\ NothingNew
    <3> DEFINE u == [by |-> "cancel", step |-> "cancel", cur |-> c, todo |-> {}]
    <3>1. u \in Out!Task
      BY DEF Out!Task, Out!Workers, Out!Steps
    <3> QED
      BY <2>1, <2>2, <2>3, <3>1, TaskAdded
  <2> QED
    BY <2>1, <2>2, <2>3, CopyData
<1>3. ASSUME NEW m \in Messages, Out!TimerDue(m)
      PROVE  SenderInv' /\ Keeps /\ NothingNew /\ UNCHANGED restarts
  <2> DEFINE r == [msgs[m] EXCEPT !.timer = "due"]
  <2>1. r \in Out!Record /\ r.state = msgs[m].state
    BY DEF SenderInv, Out!Record
  <2>2. msgs' = [msgs EXCEPT ![m] = r]
    BY <1>3 DEF Out!TimerDue
  <2> QED
    BY <1>3, <2>1, <2>2, FieldKept DEF Out!TimerDue
<1>4. ASSUME NEW m \in Messages, Out!Lapse(m)
      PROVE  SenderInv' /\ Keeps /\ NothingNew /\ UNCHANGED restarts
  <2> DEFINE r == [msgs[m] EXCEPT !.lapsed = TRUE]
  <2>1. r \in Out!Record /\ r.state = msgs[m].state
    BY DEF SenderInv, Out!Record
  <2>2. msgs' = [msgs EXCEPT ![m] = r]
    BY <1>4 DEF Out!Lapse
  <2> QED
    BY <1>4, <2>1, <2>2, FieldKept DEF Out!Lapse
<1>5. ASSUME NEW t \in tasks, Out!Work(t)
      PROVE  SenderInv' /\ Keeps /\ NothingNew /\ UNCHANGED restarts
  <2>1. UNCHANGED restarts
    BY <1>5 DEF Out!Work, Out!Enqueue, Out!Claim, Out!Transmit, Out!Reread,
         Out!Mark, Out!Decide, Out!Expire, Out!Cancel, Out!elsewhere
  <2> QED
    BY <1>5, <2>1, WorkOK
<1>6. ASSUME NEW by \in Out!Workers, NEW S \in SUBSET Messages,
             \A m \in S : Present(m),
             Out!StartLoop(by, {Out!CopyOf(m) : m \in S}),
             UNCHANGED <<msgs, queue, Out!elsewhere>>
      PROVE  SenderInv' /\ Keeps /\ NothingNew /\ UNCHANGED restarts
  BY <1>6, StartLoopOK DEF Out!elsewhere
<1>7. ASSUME NEW w \in Sweepers, NEW s \in Senders, Out!Tick(w, s)
      PROVE  SenderInv' /\ Keeps /\ NothingNew /\ UNCHANGED restarts
  <2> DEFINE S == {k \in Messages : /\ k.from = s
                                    /\ msgs[k].state \in Out!Retryable
                                    /\ msgs[k].timer = "due"}
  <2>1. Out!RetryDue(s) = {Out!CopyOf(m) : m \in S}
    BY SameData DEF Out!RetryDue
  <2>2. \A m \in S : Present(m)
    BY DEF Present, Out!Retryable
  <2>3. w \in Out!Workers
    BY DEF Out!Workers
  <2> QED
    BY <1>6, <1>7, <2>1, <2>2, <2>3 DEF Out!Tick
<1>8. ASSUME NEW s \in Senders, Out!Flush(s)
      PROVE  SenderInv' /\ Keeps /\ NothingNew /\ UNCHANGED restarts
  <2> DEFINE S == {k \in Messages : k.from = s /\ msgs[k].state \in {"queued", "sent"}}
  <2>1. \A m \in S : Present(m)
    BY DEF Present
  <2>2. Out!StartLoop("flush", {Out!CopyOf(m) : m \in S})
    BY <1>8, SameData DEF Out!Flush
  <2>3. "flush" \in Out!Workers
    BY DEF Out!Workers
  <2> QED
    BY <1>6, <1>8, <2>1, <2>2, <2>3 DEF Out!Flush
<1>9. ASSUME NEW s \in Senders, Out!SweepExpired(s)
      PROVE  SenderInv' /\ Keeps /\ NothingNew /\ UNCHANGED restarts
  <2> DEFINE S == {k \in Messages : /\ k.from = s
                                    /\ msgs[k].state \in Active
                                    /\ msgs[k].lapsed}
  <2>1. \A m \in S : Present(m)
    BY DEF Present, Active
  <2>2. Out!StartLoop("expiry", {Out!CopyOf(m) : m \in S})
    BY <1>9, SameData DEF Out!SweepExpired
  <2>3. "expiry" \in Out!Workers
    BY DEF Out!Workers
  <2> QED
    BY <1>6, <1>9, <2>1, <2>2, <2>3 DEF Out!SweepExpired
<1>10. ASSUME NEW s \in Senders, Out!Restart(s)
       PROVE  SenderInv' /\ Keeps /\ NothingNew /\ restarts' \in Nat
  <2>1. msgs' \in [Messages -> Out!Record] /\ Keeps /\ NothingNew
    BY <1>10, Unwritten DEF Out!Restart
  <2>2. tasks' \subseteq tasks /\ acking' \subseteq acking /\ wire' = wire
    BY <1>10 DEF Out!Restart
  <2>3. TasksOK'
    BY <2>1, <2>2, SameData DEF SenderInv, TasksOK, Keeps, Out!Task, Out!Copy
  <2>4. restarts' \in Nat
    BY <1>10 DEF Out!Restart
  <2> QED
    BY <2>1, <2>2, <2>3, <2>4, RestOK
<1>11. ASSUME NEW h \in acking, Out!FinishAck(h)
       PROVE  SenderInv' /\ Keeps /\ NothingNew /\ UNCHANGED restarts
  BY <1>11, FinishAckOK DEF Out!FinishAck
<1> QED
  BY <1>1, <1>2, <1>3, <1>4, <1>5, <1>7, <1>8, <1>9, <1>10, <1>11, SameData
     DEF Out!LocalNext

(***************************************************************************)
(* The receiver: what one envelope releases, with numbers and without holes. *)
(***************************************************************************)
OneSender == \E s : Senders = {s}

\* A single sender gives each number to one message.
LEMMA OneOfNumber ==
  ASSUME OneSender
  PROVE  \A a, b \in Messages : a.seq = b.seq => a = b
BY DEF OneSender, Messages

\* With a single sender there are no more messages than numbers.
LEMMA FewMessages ==
  ASSUME OneSender, NEW S \in SUBSET Messages
  PROVE  IsFiniteSet(S) /\ Cardinality(S) <= MaxSeq
<1> DEFINE f == [n \in 1..MaxSeq |-> CHOOSE m \in Messages : m.seq = n]
<1>1. \A m \in Messages : m.seq \in 1..MaxSeq /\ f[m.seq] = m
  <2> SUFFICES ASSUME NEW m \in Messages PROVE m.seq \in 1..MaxSeq /\ f[m.seq] = m
    OBVIOUS
  <2>1. m.seq \in 1..MaxSeq
    BY DEF Messages, Seqs
  <2>2. (CHOOSE k \in Messages : k.seq = m.seq) = m
    BY OneOfNumber
  <2> QED
    BY <2>1, <2>2
<1>2. \A n \in 1..MaxSeq : f[n] \in Messages
  <2> SUFFICES ASSUME NEW n \in 1..MaxSeq PROVE f[n] \in Messages
    OBVIOUS
  <2>1. \E m \in Messages : m.seq = n
    <3>1. PICK s : Senders = {s}
      BY DEF OneSender
    <3>2. [from |-> s, seq |-> n] \in Messages
      BY <3>1 DEF Messages, Seqs
    <3> QED
      BY <3>2
  <2> QED
    BY <2>1
<1>3. f \in [1..MaxSeq -> Messages]
  BY <1>2
<1> HIDE DEF f
<1>4. f \in Surjection(1..MaxSeq, Messages)
  BY <1>1, <1>3 DEF Surjection
<1>5. IsFiniteSet(1..MaxSeq) /\ Cardinality(1..MaxSeq) = MaxSeq
  <2>1. 1 \in Int /\ MaxSeq \in Int /\ 1 <= MaxSeq
    BY DataPlaneAssumption
  <2> QED
    BY <2>1, FS_Interval
<1>6. IsFiniteSet(Messages) /\ Cardinality(Messages) <= MaxSeq
  BY <1>4, <1>5, FS_Surjection
<1>7. IsFiniteSet(S) /\ Cardinality(S) <= Cardinality(Messages)
  BY <1>6, FS_Subset
<1> QED
  BY <1>6, <1>7, FS_CardinalityType, DataPlaneAssumption

\* The receiver: its types, and that it has released the numbers from 1 to
\* the expected one.
ReceiverInv ==
  /\ seen \in Seq(Messages)
  /\ released \in Seq(Messages)
  /\ app \in Seq(Messages)
  /\ buffer \subseteq Messages
  /\ delivering \subseteq [run : Seq(Messages) \ {<<>>}, ackFor : Messages]
  /\ acks \subseteq AckIds
  /\ ackCount \in [Messages -> 0..MaxAcks]
  /\ restarts \in Nat
  /\ expected = Len(released) + 1
  /\ \A i \in 1..Len(released) : released[i].seq = i
  /\ \A b \in buffer : b.seq > expected

\* It holds nothing that was not sent.
OnlySent ==
  /\ \A i \in 1..Len(released) : Present(released[i])
  /\ \A b \in buffer : Present(b)
  /\ \A d \in delivering : Present(d.ackFor)
  /\ \A a \in acks : Present(a.m)

\* _sendAck: what it leaves behind.
LEMMA SendAckOK ==
  ASSUME ReceiverInv, NEW m \in Messages, In!SendAck(m)
  PROVE  /\ acks' \subseteq AckIds /\ ackCount' \in [Messages -> 0..MaxAcks]
         /\ \A a \in acks' : a \in acks \/ (a.m = m /\ ackCount'[m] > 0)
         /\ \A k \in Messages : ackCount'[k] > 0 => ackCount[k] > 0 \/ k = m
         /\ \A k \in Messages : ackCount[k] > 0 => ackCount'[k] > 0
<1>1. ackCount[m] \in 0..MaxAcks /\ MaxAcks \in Nat
  BY DataPlaneAssumption DEF ReceiverInv
<1>2. CASE ackCount[m] < MaxAcks
  <2> DEFINE n == ackCount[m] + 1
             a == [m |-> m, n |-> n]
  <2>1. n \in 1..MaxAcks
    BY <1>1, <1>2
  <2>2. a \in AckIds /\ a.m = m
    BY <2>1 DEF AckIds
  <2>3. ackCount' = [ackCount EXCEPT ![m] = n] /\ acks' = acks \cup {a}
    BY <1>2 DEF In!SendAck
  <2>4. n \in 0..MaxAcks /\ n > 0
    BY <2>1
  <2> HIDE DEF n, a
  <2> QED
    BY <2>2, <2>3, <2>4 DEF ReceiverInv
<1>3. CASE ~ (ackCount[m] < MaxAcks)
  BY <1>3 DEF In!SendAck, ReceiverInv
<1> QED
  BY <1>2, <1>3

\* The duplicate cache holds what it held, and the new message.
LEMMA RememberOK ==
  ASSUME ReceiverInv, NEW m \in Messages, In!Remember(m)
  PROVE  /\ seen' \in Seq(Messages)
         /\ \A i \in DOMAIN seen' : seen'[i] = m \/ \E j \in DOMAIN seen : seen'[i] = seen[j]
<1> DEFINE s == Append(seen, m)
<1>0. seen \in Seq(Messages)
  BY DEF ReceiverInv
<1>1. s \in Seq(Messages) /\ s # <<>> /\ DOMAIN s = 1..(Len(seen) + 1)
  BY <1>0, AppendProperties
<1>a. \A i \in 1..Len(seen) : s[i] = seen[i]
  BY <1>0, AppendProperties
<1>b. s[Len(seen) + 1] = m
  BY <1>0, AppendProperties
<1>c. Len(seen) \in Nat /\ DOMAIN seen = 1..Len(seen)
  BY <1>0
<1>d. \A i \in DOMAIN s : s[i] = m \/ \E j \in DOMAIN seen : s[i] = seen[j]
  BY <1>1, <1>a, <1>b, <1>c
<1> HIDE DEF s
<1>2. /\ Tail(s) \in Seq(Messages)
      /\ \A i \in DOMAIN Tail(s) : i + 1 \in DOMAIN s /\ Tail(s)[i] = s[i + 1]
  BY <1>1, HeadTailProperties
<1>3. seen' = s \/ seen' = Tail(s)
  BY DEF In!Remember, s
<1> QED
  BY <1>1, <1>d, <1>2, <1>3

\* The run the ordering engine takes out of the buffer: numbered without a
\* hole, all of it from the buffer.
LEMMA RunIsThere ==
  ASSUME NEW b \in SUBSET Messages, NEW first \in Nat, NEW next \in Nat,
         first <= next, In!IsRun(b, first, next)
  PROVE  /\ In!RunOf(b, first, next) \in Seq(Messages)
         /\ Len(In!RunOf(b, first, next)) = next - first
         /\ \A i \in 1..(next - first) :
              /\ In!RunOf(b, first, next)[i] \in b
              /\ In!RunOf(b, first, next)[i].seq = first + i - 1
<1> DEFINE run == In!RunOf(b, first, next)
           pick(i) == CHOOSE k \in b : k.seq = first + i - 1
<1>1. \A i \in 1..(next - first) : pick(i) \in b /\ pick(i).seq = first + i - 1
  <2> TAKE i \in 1..(next - first)
  <2>1. first + i - 1 \in first..(next - 1)
    OBVIOUS
  <2>2. \E k \in b : k.seq = first + i - 1
    BY <2>1 DEF In!IsRun
  <2> QED
    BY <2>2
<1>2. run = [i \in 1..(next - first) |-> pick(i)]
  BY DEF In!RunOf
<1>3. next - first \in Nat
  OBVIOUS
<1>4. run \in [1..(next - first) -> Messages]
  BY <1>1, <1>2
<1>5. run \in Seq(Messages) /\ Len(run) = next - first
  BY <1>3, <1>4, LenProperties
<1> QED
  BY <1>1, <1>2, <1>5

\* What the accept at the expected number releases: m and the run behind it.
LEMMA NextRunIsThere ==
  ASSUME NEW b \in SUBSET Messages, NEW m \in Messages, NEW next \in Nat,
         m.seq < next, In!IsRun(b, m.seq + 1, next)
  PROVE  /\ <<m>> \o In!RunOf(b, m.seq + 1, next) \in Seq(Messages)
         /\ Len(<<m>> \o In!RunOf(b, m.seq + 1, next)) = next - m.seq
         /\ (<<m>> \o In!RunOf(b, m.seq + 1, next))[1] = m
         /\ \A i \in 2..(next - m.seq) :
              /\ (<<m>> \o In!RunOf(b, m.seq + 1, next))[i] \in b
              /\ (<<m>> \o In!RunOf(b, m.seq + 1, next))[i].seq = m.seq + i - 1
<1> DEFINE tail == In!RunOf(b, m.seq + 1, next)
           run == <<m>> \o tail
<1>1. m.seq \in Nat
  BY DEF Messages, Seqs
<1>2. /\ tail \in Seq(Messages)
      /\ Len(tail) = next - (m.seq + 1)
      /\ \A i \in 1..(next - (m.seq + 1)) :
           tail[i] \in b /\ tail[i].seq = m.seq + 1 + i - 1
  <2>1. m.seq + 1 \in Nat /\ m.seq + 1 <= next
    BY <1>1
  <2> QED
    BY <2>1, RunIsThere
<1> HIDE DEF tail
<1>3. run \in Seq(Messages) /\ Len(run) = next - m.seq /\ run[1] = m
  BY <1>1, <1>2
<1>4. \A i \in 2..(next - m.seq) : run[i] \in b /\ run[i].seq = m.seq + i - 1
  <2> HIDE DEF run
  <2> SUFFICES ASSUME NEW i \in 2..(next - m.seq)
               PROVE  run[i] \in b /\ run[i].seq = m.seq + i - 1
    OBVIOUS
  <2>1. i - 1 \in 1..(next - (m.seq + 1)) /\ run[i] = tail[i - 1]
    BY <1>1, <1>2 DEF run
  <2>2. tail[i - 1] \in b /\ tail[i - 1].seq = m.seq + 1 + (i - 1) - 1
    BY <1>2, <2>1
  <2>3. m.seq + 1 + (i - 1) - 1 = m.seq + i - 1
    BY <1>1
  <2> QED
    BY <2>1, <2>2, <2>3
<1> QED
  BY <1>3, <1>4 DEF tail, run

(***************************************************************************)
(* The invariant of both ends, and its preservation by an envelope.        *)
(***************************************************************************)
\* A message the application has, or a handler is about to hand over.
Kept(m) == In!InSequence(m, app) \/ In!HandingOver(m)
Here(m) == Kept(m) \/ m \in buffer

\* The receiver loses nothing that it released, remembers or acknowledged.
HeldInv ==
  /\ \A i \in 1..Len(released) : Kept(released[i])
  /\ \A i \in DOMAIN seen : Here(seen[i])
  /\ \A d \in delivering : Kept(d.ackFor)
  /\ \A m \in Messages : ackCount[m] > 0 => Here(m)

\* Only what the receiver acknowledged is acknowledged at the sender.
AckInv ==
  /\ \A a \in acks : ackCount[a.m] > 0
  /\ \A h \in acking : ackCount[h.id.m] > 0
  /\ \A m \in Messages : msgs[m].state = "acknowledged" => ackCount[m] > 0

Inv == SenderInv /\ ReceiverInv /\ OnlySent /\ HeldInv /\ AckInv

\* A step of the receiver or of the transport, seen by the sender.
LEMMA SenderIdle ==
  ASSUME SenderInv, UNCHANGED sender, wire' \subseteq wire
  PROVE  SenderInv' /\ \A m \in Messages : Present(m)' <=> Present(m)
<1>1. /\ msgs' \in [Messages -> Out!Record] /\ Keeps
      /\ \A m \in Messages : Present(m)' <=> Present(m)
  BY DEF sender, SenderInv, Keeps, Present
<1>2. TasksOK' /\ acking' \subseteq acking
  BY <1>1, SameData DEF sender, SenderInv, TasksOK, Out!Task, Out!Copy
<1> QED
  BY <1>1, <1>2, RestOK

\* What the sender acknowledged stays acknowledged by the receiver.
LEMMA AckInvIdle ==
  ASSUME SenderInv, ReceiverInv, AckInv, UNCHANGED sender,
         \A k \in Messages : ackCount[k] > 0 => ackCount'[k] > 0,
         \A a \in acks' : a \in acks \/ ackCount'[a.m] > 0
  PROVE  AckInv'
BY SameData DEF SenderInv, ReceiverInv, AckInv, sender, AckIds, Out!Handling

\* A known message is acknowledged again.
LEMMA DuplicateOK ==
  ASSUME Inv, NEW m \in wire, wire' \subseteq wire, UNCHANGED sender,
         In!ReceiveDuplicate(m)
  PROVE  Inv' /\ UNCHANGED released
<1>1. m \in Messages /\ Present(m) /\ In!SendAck(m)
  BY DEF Inv, SenderInv, In!ReceiveDuplicate
<1>2. SenderInv' /\ \A k \in Messages : Present(k)' <=> Present(k)
  BY SenderIdle DEF Inv
<1>3. /\ acks' \subseteq AckIds /\ ackCount' \in [Messages -> 0..MaxAcks]
      /\ \A a \in acks' : a \in acks \/ (a.m = m /\ ackCount'[m] > 0)
      /\ \A k \in Messages : ackCount'[k] > 0 => ackCount[k] > 0 \/ k = m
      /\ \A k \in Messages : ackCount[k] > 0 => ackCount'[k] > 0
  BY <1>1, SendAckOK DEF Inv
<1>4. UNCHANGED <<seen, expected, buffer, released, delivering, app, restarts>>
  BY DEF In!ReceiveDuplicate
<1>5. ReceiverInv'
  BY <1>3, <1>4 DEF Inv, ReceiverInv
<1>6. OnlySent'
  <2>1. \A i \in 1..Len(released) : released[i] \in Messages
    BY DEF Inv, ReceiverInv
  <2>2. \A a \in acks : a.m \in Messages
    BY DEF Inv, ReceiverInv, AckIds
  <2> QED
    BY <1>1, <1>2, <1>3, <1>4, <2>1, <2>2 DEF Inv, ReceiverInv, OnlySent
<1>7. \A k \in Messages : Kept(k)' = Kept(k) /\ Here(k)' = Here(k)
  BY <1>4 DEF Kept, Here, In!InSequence, In!HandingOver
<1>8. Here(m)
  BY DEF Inv, HeldInv, In!ReceiveDuplicate, In!InSeen
<1>9. HeldInv'
  <2>1. \A i \in DOMAIN seen : seen[i] \in Messages
    BY DEF Inv, ReceiverInv
  <2>2. \A i \in 1..Len(released) : released[i] \in Messages
    BY DEF Inv, ReceiverInv
  <2> QED
    BY <1>3, <1>4, <1>7, <1>8, <2>1, <2>2 DEF Inv, ReceiverInv, HeldInv
<1>10. AckInv'
  BY <1>3, AckInvIdle DEF Inv
<1> QED
  BY <1>2, <1>4, <1>5, <1>6, <1>9, <1>10 DEF Inv

\* The cases that remember the message and acknowledge it at once: m itself is
\* here, and the buffer may have grown by it.
LEMMA AcknowledgedAtOnce ==
  ASSUME Inv, NEW m \in wire, wire' \subseteq wire, UNCHANGED sender,
         In!Remember(m), In!SendAck(m),
         UNCHANGED <<expected, released, delivering, app, restarts>>,
         buffer \subseteq buffer', buffer' \subseteq buffer \cup {m},
         \A b \in buffer' : b.seq > expected,
         Kept(m) \/ m \in buffer'
  PROVE  Inv'
<1>1. m \in Messages /\ Present(m)
  BY DEF Inv, SenderInv
<1>2. SenderInv' /\ \A k \in Messages : Present(k)' <=> Present(k)
  BY SenderIdle DEF Inv
<1>3. /\ acks' \subseteq AckIds /\ ackCount' \in [Messages -> 0..MaxAcks]
      /\ \A a \in acks' : a \in acks \/ (a.m = m /\ ackCount'[m] > 0)
      /\ \A k \in Messages : ackCount'[k] > 0 => ackCount[k] > 0 \/ k = m
      /\ \A k \in Messages : ackCount[k] > 0 => ackCount'[k] > 0
  BY <1>1, SendAckOK DEF Inv
<1>4. /\ seen' \in Seq(Messages)
      /\ \A i \in DOMAIN seen' : seen'[i] = m \/ \E j \in DOMAIN seen : seen'[i] = seen[j]
  BY <1>1, RememberOK DEF Inv
<1>5. ReceiverInv'
  BY <1>1, <1>3, <1>4 DEF Inv, ReceiverInv
<1>6. OnlySent'
  <2>1. \A i \in 1..Len(released) : released[i] \in Messages
    BY DEF Inv, ReceiverInv
  <2>2. \A a \in acks : a.m \in Messages
    BY DEF Inv, ReceiverInv, AckIds
  <2> QED
    BY <1>1, <1>2, <1>3, <2>1, <2>2 DEF Inv, ReceiverInv, OnlySent
<1>7. \A k \in Messages : Kept(k)' = Kept(k) /\ (Here(k) => Here(k)')
  BY DEF Kept, Here, In!InSequence, In!HandingOver
<1>8. Here(m)'
  BY <1>1, <1>7 DEF Here
<1>9. HeldInv'
  <2>1. \A i \in DOMAIN seen : seen[i] \in Messages
    BY DEF Inv, ReceiverInv
  <2>2. \A i \in 1..Len(released) : released[i] \in Messages
    BY DEF Inv, ReceiverInv
  <2>3. (\A i \in DOMAIN seen : Here(seen[i]))'
    BY <1>4, <1>7, <1>8, <2>1 DEF Inv, HeldInv
  <2>4. \A d \in delivering : d.ackFor \in Messages
    BY DEF Inv, ReceiverInv
  <2>5. \A k \in Messages : ackCount'[k] > 0 => Here(k)'
    BY <1>3, <1>7, <1>8 DEF Inv, HeldInv
  <2>6. (\A i \in 1..Len(released) : Kept(released[i]))'
    BY <1>7, <2>2 DEF Inv, HeldInv
  <2>7. (\A d \in delivering : Kept(d.ackFor))'
    BY <1>7, <2>4 DEF Inv, HeldInv
  <2> QED
    BY <2>3, <2>5, <2>6, <2>7 DEF HeldInv
<1>10. AckInv'
  BY <1>3, AckInvIdle DEF Inv
<1> QED
  BY <1>2, <1>5, <1>6, <1>9, <1>10 DEF Inv

\* A message below the expected number was released before.
LEMMA StaleOK ==
  ASSUME OneSender, Inv, NEW m \in wire, wire' \subseteq wire, UNCHANGED sender,
         In!ReceiveStale(m)
  PROVE  Inv' /\ UNCHANGED released
<1>1. m \in Messages /\ m.seq \in 1..Len(released)
  <2>1. m \in Messages /\ m.seq \in 1..MaxSeq
    BY DEF Inv, SenderInv, Messages, Seqs
  <2>2. m.seq < Len(released) + 1 /\ Len(released) \in Nat
    BY DEF In!ReceiveStale, Inv, ReceiverInv
  <2> QED
    BY <2>1, <2>2, DataPlaneAssumption
<1>2. released[m.seq] \in Messages /\ released[m.seq].seq = m.seq
  BY <1>1 DEF Inv, ReceiverInv
<1>3. released[m.seq] = m
  BY <1>1, <1>2, OneOfNumber
<1>4. Kept(m)
  BY <1>1, <1>3 DEF Inv, HeldInv
<1>5. \A b \in buffer : b.seq > expected
  BY DEF Inv, ReceiverInv
<1> QED
  BY <1>4, <1>5, AcknowledgedAtOnce DEF In!ReceiveStale

\* A message beyond the expected number waits in the buffer.
LEMMA GapOK ==
  ASSUME OneSender, Inv, NEW m \in wire, wire' \subseteq wire, UNCHANGED sender,
         In!ReceiveGap(m)
  PROVE  Inv' /\ UNCHANGED released
<1>1. m \in Messages /\ buffer \subseteq Messages
  BY DEF Inv, SenderInv, ReceiverInv
<1>2. In!Buffered(m.seq) => m \in buffer
  BY <1>1, OneOfNumber DEF In!Buffered
<1>3. /\ buffer \subseteq buffer' /\ buffer' \subseteq buffer \cup {m}
      /\ m \in buffer'
  BY <1>2 DEF In!ReceiveGap, In!Held
<1>4. \A b \in buffer' : b.seq > expected
  BY <1>3 DEF In!ReceiveGap, Inv, ReceiverInv
<1> QED
  BY <1>3, <1>4, AcknowledgedAtOnce DEF In!ReceiveGap

\* Both ends count alike.
LEMMA SameCardinality == \A S : In!Cardinality(S) = Cardinality(S)
BY Zenon DEF In!Cardinality, Cardinality, In!IsFiniteSet, IsFiniteSet

\* The buffer never has to give up a gap.
LEMMA NoOverflow ==
  ASSUME OneSender, BufferLimit \in Nat, MaxSeq <= BufferLimit,
         Inv, NEW m \in wire
  PROVE  ~ In!ReceiveOverflow(m)
<1>1. In!Held(m) \in SUBSET Messages
  BY DEF In!Held, Inv, SenderInv, ReceiverInv
<1>2. IsFiniteSet(In!Held(m)) /\ Cardinality(In!Held(m)) <= MaxSeq
  BY <1>1, FewMessages
<1>3. Cardinality(In!Held(m)) \in Nat /\ MaxSeq \in Nat
  BY <1>2, FS_CardinalityType, DataPlaneAssumption
<1> QED
  BY <1>2, <1>3, SameCardinality DEF In!ReceiveOverflow

\* What a concatenation holds.
LEMMA Concat ==
  ASSUME NEW s \in Seq(Messages), NEW r \in Seq(Messages)
  PROVE  /\ s \o r \in Seq(Messages) /\ Len(s \o r) = Len(s) + Len(r)
         /\ \A i \in 1..Len(s) : (s \o r)[i] = s[i]
         /\ \A i \in (Len(s) + 1)..(Len(s) + Len(r)) :
              (s \o r)[i] = r[i - Len(s)] /\ i - Len(s) \in 1..Len(r)
OBVIOUS

\* The accept at the expected number: what is released next, and that the
\* messages behind m leave the buffer with it.
LEMMA NextStep ==
  ASSUME OneSender, Inv, NEW m \in wire, In!ReceiveNext(m)
  PROVE  \E run \in Seq(Messages) \ {<<>>} :
           /\ released' = released \o run
           /\ delivering' = delivering \cup {[run |-> run, ackFor |-> m]}
           /\ expected' = expected + Len(run)
           /\ \A i \in 1..Len(run) : run[i].seq = expected + i - 1
           /\ \A i \in 1..Len(run) : run[i] \in buffer \cup {m}
           /\ run[1] = m
           /\ buffer' \subseteq buffer
           /\ \A b \in buffer' : b.seq > expected'
           /\ \A b \in buffer : b \in buffer' \/ \E i \in 1..Len(run) : run[i] = b
<1>1. PICK next \in (expected + 1)..(MaxSeq + 1) :
        /\ In!IsRun(buffer, expected + 1, next)
        /\ In!Release(<<m>> \o In!RunOf(buffer, expected + 1, next), m)
        /\ expected' = next
        /\ buffer' = {b \in buffer : b.seq \notin (expected + 1)..(next - 1)}
  BY DEF In!ReceiveNext
<1>2. /\ m.seq = expected /\ expected \in Nat /\ m \in Messages
      /\ buffer \in SUBSET Messages
      /\ \A b \in buffer : b.seq > expected /\ b.seq \in Nat
  BY DEF In!ReceiveNext, Inv, SenderInv, ReceiverInv, Messages, Seqs
<1>3. next \in Nat /\ m.seq < next
  BY <1>1, <1>2, DataPlaneAssumption
<1> DEFINE run == <<m>> \o In!RunOf(buffer, expected + 1, next)
<1>4. /\ run \in Seq(Messages) /\ Len(run) = next - expected /\ run[1] = m
      /\ \A i \in 2..(next - expected) :
           run[i] \in buffer /\ run[i].seq = expected + i - 1
  <2> DEFINE r == <<m>> \o In!RunOf(buffer, m.seq + 1, next)
  <2>1. In!IsRun(buffer, m.seq + 1, next) /\ run = r
    BY <1>1, <1>2
  <2>2. /\ r \in Seq(Messages) /\ Len(r) = next - m.seq /\ r[1] = m
        /\ \A i \in 2..(next - m.seq) : r[i] \in buffer /\ r[i].seq = m.seq + i - 1
    <3>1. /\ buffer \in SUBSET Messages /\ m \in Messages /\ next \in Nat /\ m.seq < next
          /\ In!IsRun(buffer, m.seq + 1, next)
      BY <1>2, <1>3, <2>1
    <3> QED
      BY <3>1, NextRunIsThere, Zenon
  <2> HIDE DEF run, r
  <2> QED
    BY <1>2, <2>1, <2>2
<1>5. In!Release(run, m)
  BY <1>1
<1> HIDE DEF run
<1>6. Len(run) \in Nat \ {0} /\ run # <<>>
  BY <1>2, <1>3, <1>4
<1>7. released' = released \o run
  BY <1>5 DEF In!Release
<1>8. delivering' = delivering \cup {[run |-> run, ackFor |-> m]}
  BY <1>5 DEF In!Release
<1>9. expected' = expected + Len(run)
  BY <1>1, <1>2, <1>3, <1>4
<1>10. \A i \in 1..Len(run) :
         run[i] \in buffer \cup {m} /\ run[i].seq = expected + i - 1
  <2> SUFFICES ASSUME NEW i \in 1..Len(run)
               PROVE  run[i] \in buffer \cup {m} /\ run[i].seq = expected + i - 1
    OBVIOUS
  <2>1. CASE i = 1
    <3>1. run[i] = m /\ expected + i - 1 = expected
      BY <1>2, <1>4, <2>1
    <3> QED
      BY <1>2, <3>1
  <2>2. CASE i # 1
    <3>1. i \in 2..(next - expected)
      BY <1>2, <1>3, <1>4, <2>2
    <3> QED
      BY <1>4, <3>1
  <2> QED
    BY <2>1, <2>2
<1>11. buffer' \subseteq buffer
  BY <1>1
<1>12. \A b \in buffer' : b.seq > expected'
  BY <1>1, <1>2, <1>3 DEF In!IsRun
<1>13. \A b \in buffer : b \in buffer' \/ \E i \in 1..Len(run) : run[i] = b
  <2> SUFFICES ASSUME NEW b \in buffer, b \notin buffer'
               PROVE  \E i \in 1..Len(run) : run[i] = b
    OBVIOUS
  <2>1. b.seq \in (expected + 1)..(next - 1) /\ b.seq \in Nat /\ b \in Messages
    BY <1>1, <1>2
  <2> DEFINE i == b.seq - expected + 1
  <2>a. expected \in Nat /\ next \in Nat /\ Len(run) = next - expected
    BY <1>2, <1>3, <1>4
  <2>2. i \in 1..Len(run) /\ expected + i - 1 = b.seq
    BY <2>1, <2>a
  <2> HIDE DEF i
  <2>3. run[i].seq = b.seq /\ run[i] \in Messages
    BY <1>2, <1>10, <2>2
  <2>4. run[i] = b
    BY <2>1, <2>3, OneOfNumber
  <2> QED
    BY <2>2, <2>4
<1> QED
  BY <1>4, <1>6, <1>7, <1>8, <1>9, <1>10, <1>11, <1>12, <1>13

\* The message at the expected number, and the run behind it, are released.
LEMMA NextOK ==
  ASSUME OneSender, Inv, NEW m \in wire, wire' \subseteq wire, UNCHANGED sender,
         In!ReceiveNext(m)
  PROVE  Inv'
<1>1. m \in Messages /\ Present(m)
  BY DEF Inv, SenderInv
<1>2. SenderInv' /\ \A k \in Messages : Present(k)' <=> Present(k)
  BY SenderIdle DEF Inv
<1>3. PICK run \in Seq(Messages) \ {<<>>} :
        /\ released' = released \o run
        /\ delivering' = delivering \cup {[run |-> run, ackFor |-> m]}
        /\ expected' = expected + Len(run)
        /\ \A i \in 1..Len(run) : run[i].seq = expected + i - 1
        /\ \A i \in 1..Len(run) : run[i] \in buffer \cup {m}
        /\ run[1] = m
        /\ buffer' \subseteq buffer
        /\ \A b \in buffer' : b.seq > expected'
        /\ \A b \in buffer : b \in buffer' \/ \E i \in 1..Len(run) : run[i] = b
  BY NextStep
<1>4. /\ seen' \in Seq(Messages)
      /\ \A i \in DOMAIN seen' : seen'[i] = m \/ \E j \in DOMAIN seen : seen'[i] = seen[j]
  BY <1>1, RememberOK DEF In!ReceiveNext, Inv
<1>5. UNCHANGED <<acks, ackCount, app, restarts>>
  BY DEF In!ReceiveNext
<1>6. released \in Seq(Messages) /\ Len(released) \in Nat /\ Len(run) \in Nat \ {0}
  BY <1>3 DEF Inv, ReceiverInv
<1>7. /\ released' \in Seq(Messages)
      /\ Len(released') = Len(released) + Len(run)
      /\ \A i \in 1..Len(released) : released'[i] = released[i]
      /\ \A i \in (Len(released) + 1)..(Len(released) + Len(run)) :
           released'[i] = run[i - Len(released)] /\ i - Len(released) \in 1..Len(run)
  BY <1>3, <1>6, Concat
<1>8. \A i \in 1..Len(released') :
        \/ i \in 1..Len(released)
        \/ i \in (Len(released) + 1)..(Len(released) + Len(run))
  BY <1>6, <1>7
<1>9. ReceiverInv'
  <2>1. \A i \in 1..Len(released') : released'[i].seq = i
    <3> SUFFICES ASSUME NEW i \in 1..Len(released') PROVE released'[i].seq = i
      OBVIOUS
    <3>1. CASE i \in 1..Len(released)
      BY <1>7, <3>1 DEF Inv, ReceiverInv
    <3>2. CASE i \in (Len(released) + 1)..(Len(released) + Len(run))
      <4>1. released'[i].seq = expected + (i - Len(released)) - 1
        BY <1>3, <1>7, <3>2
      <4>2. expected = Len(released) + 1
        BY DEF Inv, ReceiverInv
      <4> QED
        BY <1>6, <4>1, <4>2
    <3> QED
      BY <1>8, <3>1, <3>2
  <2>2. expected' = Len(released') + 1
    BY <1>3, <1>6, <1>7 DEF Inv, ReceiverInv
  <2>3. delivering' \subseteq [run : Seq(Messages) \ {<<>>}, ackFor : Messages]
    BY <1>1, <1>3 DEF Inv, ReceiverInv
  <2> QED
    BY <1>3, <1>4, <1>5, <1>7, <2>1, <2>2, <2>3 DEF Inv, ReceiverInv
<1>10. \A i \in 1..Len(run) : run[i] \in Messages /\ Present(run[i])
  BY <1>1, <1>3 DEF Inv, ReceiverInv, OnlySent
<1>11. OnlySent'
  <2>1. (\A i \in 1..Len(released) : Present(released[i]))'
    <3> SUFFICES ASSUME NEW i \in 1..Len(released') PROVE Present(released[i])'
      OBVIOUS
    <3>1. CASE i \in 1..Len(released)
      <4>1. released[i] \in Messages /\ Present(released[i]) /\ released'[i] = released[i]
        <5>1. released[i] \in Messages
          BY <1>6, <3>1
        <5>2. Present(released[i])
          BY <3>1 DEF Inv, OnlySent
        <5> QED
          BY <1>7, <3>1, <5>1, <5>2
      <4>2. msgs' = msgs
        BY DEF sender
      <4> QED
        BY <4>1, <4>2 DEF Present
    <3>2. CASE i \in (Len(released) + 1)..(Len(released) + Len(run))
      <4>1. released'[i] \in Messages /\ Present(run[i - Len(released)])
            /\ released'[i] = run[i - Len(released)]
        BY <1>7, <1>10, <3>2
      <4>2. msgs' = msgs
        BY DEF sender
      <4> QED
        BY <4>1, <4>2 DEF Present
    <3> QED
      BY <1>8, <3>1, <3>2
  <2>2. msgs' = msgs /\ acks' = acks
    BY <1>5 DEF sender
  <2>3. (\A b \in buffer : Present(b))' /\ (\A d \in delivering : Present(d.ackFor))'
    BY <1>1, <1>3, <2>2 DEF Inv, OnlySent, Present
  <2>4. (\A a \in acks : Present(a.m))'
    BY <2>2 DEF Inv, OnlySent, Present
  <2> QED
    BY <2>1, <2>3, <2>4 DEF OnlySent
<1>12. \A i \in 1..Len(run) : Kept(run[i])'
  <2> DEFINE d == [run |-> run, ackFor |-> m]
  <2>1. d \in delivering' /\ d.run = run
    BY <1>3
  <2>2. DOMAIN run = 1..Len(run)
    BY <1>3
  <2> HIDE DEF d
  <2> QED
    BY <2>1, <2>2 DEF Kept, In!HandingOver, In!InSequence
<1>13. \A k : Kept(k) => Kept(k)'
  BY <1>3, <1>5 DEF Kept, In!HandingOver, In!InSequence
<1>14. \A k : Here(k) => Here(k)'
  BY <1>3, <1>12, <1>13 DEF Here
<1>15. Kept(m)'
  BY <1>3, <1>6, <1>12
<1>16. HeldInv'
  <2>1. (\A i \in 1..Len(released) : Kept(released[i]))'
    <3> SUFFICES ASSUME NEW i \in 1..Len(released') PROVE Kept(released[i])'
      OBVIOUS
    <3>1. CASE i \in 1..Len(released)
      BY <1>7, <1>13, <3>1 DEF Inv, HeldInv
    <3>2. CASE i \in (Len(released) + 1)..(Len(released) + Len(run))
      BY <1>7, <1>12, <3>2
    <3> QED
      BY <1>8, <3>1, <3>2
  <2>2. (\A i \in DOMAIN seen : Here(seen[i]))'
    BY <1>4, <1>14, <1>15 DEF Inv, HeldInv, Here
  <2>3. (\A d \in delivering : Kept(d.ackFor))'
    BY <1>3, <1>13, <1>15 DEF Inv, HeldInv
  <2>4. \A k \in Messages : ackCount'[k] > 0 => Here(k)'
    BY <1>5, <1>14 DEF Inv, HeldInv
  <2> QED
    BY <2>1, <2>2, <2>3, <2>4 DEF HeldInv
<1>17. AckInv'
  BY <1>5, AckInvIdle DEF Inv
<1> QED
  BY <1>2, <1>9, <1>11, <1>16, <1>17 DEF Inv

(***************************************************************************)
(* The steps of the handlers.                                              *)
(***************************************************************************)
\* One message of a run reaches the application.
LEMMA HandOverOK ==
  ASSUME Inv, NEW d \in delivering, In!HandOver(d), UNCHANGED <<sender, wire>>
  PROVE  Inv' /\ UNCHANGED released
<1>1. /\ d.run \in Seq(Messages) /\ d.run # <<>> /\ d.ackFor \in Messages
      /\ app \in Seq(Messages)
  BY DEF Inv, ReceiverInv
<1>2. Len(d.run) \in Nat \ {0} /\ DOMAIN d.run = 1..Len(d.run)
  BY <1>1, EmptySeq
<1>3. /\ Head(d.run) \in Messages /\ Head(d.run) = d.run[1]
      /\ Tail(d.run) \in Seq(Messages)
      /\ Len(Tail(d.run)) = Len(d.run) - 1
      /\ \A i \in 2..Len(d.run) : Tail(d.run)[i - 1] = d.run[i]
  BY <1>1, <1>2, HeadTailProperties
<1>4. app' = Append(app, Head(d.run))
  BY DEF In!HandOver
<1>5. /\ app' \in Seq(Messages)
      /\ DOMAIN app' = 1..(Len(app) + 1)
      /\ \A i \in DOMAIN app : i \in DOMAIN app' /\ app'[i] = app[i]
      /\ app'[Len(app) + 1] = Head(d.run)
  BY <1>1, <1>3, <1>4
<1>6. \A k : In!InSequence(k, app) => In!InSequence(k, app)'
  BY <1>5 DEF In!InSequence
<1>7. In!InSequence(Head(d.run), app)'
  BY <1>1, <1>5 DEF In!InSequence
<1>8. UNCHANGED <<seen, expected, buffer, released, restarts>>
  BY DEF In!HandOver
<1>9. SenderInv' /\ \A k \in Messages : Present(k)' <=> Present(k)
  BY SenderIdle DEF Inv
<1>10. msgs' = msgs /\ acking' = acking
  BY DEF sender
<1>11. CASE Len(d.run) = 1
  <2>1. delivering' = delivering \ {d} /\ In!SendAck(d.ackFor)
    BY <1>11 DEF In!HandOver
  <2>2. /\ acks' \subseteq AckIds /\ ackCount' \in [Messages -> 0..MaxAcks]
        /\ \A a \in acks' : a \in acks \/ (a.m = d.ackFor /\ ackCount'[d.ackFor] > 0)
        /\ \A k \in Messages : ackCount'[k] > 0 => ackCount[k] > 0 \/ k = d.ackFor
        /\ \A k \in Messages : ackCount[k] > 0 => ackCount'[k] > 0
    BY <1>1, <2>1, SendAckOK DEF Inv
  <2>3. ReceiverInv'
    BY <1>5, <1>8, <2>1, <2>2 DEF Inv, ReceiverInv
  <2>4. OnlySent'
    BY <1>8, <1>10, <2>1, <2>2 DEF Inv, OnlySent, Present
  <2>5. \A k : In!InSequence(k, d.run) => k = Head(d.run)
    BY <1>2, <1>3, <1>11 DEF In!InSequence
  <2>6. \A k : Kept(k) => Kept(k)'
    BY <1>6, <1>7, <2>1, <2>5 DEF Kept, In!HandingOver, In!InSequence
  <2>7. \A k : Here(k) => Here(k)'
    BY <1>8, <2>6 DEF Here
  <2>8. HeldInv'
    <3>1. Kept(d.ackFor)
      BY DEF Inv, HeldInv
    <3>2. Here(d.ackFor)'
      BY <2>6, <3>1 DEF Here
    <3>3. \A k \in Messages : ackCount'[k] > 0 => Here(k)'
      BY <2>2, <2>7, <3>2 DEF Inv, HeldInv
    <3>4. (\A i \in 1..Len(released) : Kept(released[i]))'
      BY <1>8, <2>6 DEF Inv, HeldInv
    <3>5. (\A i \in DOMAIN seen : Here(seen[i]))'
      BY <1>8, <2>7 DEF Inv, HeldInv
    <3>6. (\A e \in delivering : Kept(e.ackFor))'
      BY <2>1, <2>6 DEF Inv, HeldInv
    <3> QED
      BY <3>3, <3>4, <3>5, <3>6 DEF HeldInv
  <2>9. AckInv'
    BY <2>2, AckInvIdle DEF Inv
  <2> QED
    BY <1>8, <1>9, <2>3, <2>4, <2>8, <2>9 DEF Inv
<1>12. CASE Len(d.run) # 1
  <2> DEFINE e == [d EXCEPT !.run = Tail(@)]
  <2>1. delivering' = (delivering \ {d}) \cup {e} /\ UNCHANGED <<acks, ackCount>>
    BY <1>12 DEF In!HandOver
  <2>2. d \in [run : Seq(Messages) \ {<<>>}, ackFor : Messages]
    BY DEF Inv, ReceiverInv
  <2>3. Tail(d.run) # <<>>
    <3>1. Len(Tail(d.run)) # 0
      BY <1>2, <1>3, <1>12
    <3> QED
      BY <1>3, <3>1, EmptySeq
  <2>4. /\ e \in [run : Seq(Messages) \ {<<>>}, ackFor : Messages]
        /\ e.run = Tail(d.run) /\ e.ackFor = d.ackFor
    BY <1>3, <2>2, <2>3
  <2> HIDE DEF e
  <2>5. ReceiverInv'
    BY <1>5, <1>8, <2>1, <2>4 DEF Inv, ReceiverInv
  <2>6. OnlySent'
    BY <1>8, <1>10, <2>1, <2>4 DEF Inv, OnlySent, Present
  <2>7. \A k : In!InSequence(k, d.run) =>
                 k = Head(d.run) \/ In!InSequence(k, e.run)
    <3> SUFFICES ASSUME NEW i \in DOMAIN d.run, i # 1
                 PROVE  \E j \in DOMAIN e.run : e.run[j] = d.run[i]
      BY <1>3 DEF In!InSequence
    <3>1. i \in 2..Len(d.run)
      BY <1>2
    <3>2. i - 1 \in DOMAIN e.run
      BY <1>2, <1>3, <2>4, <3>1
    <3>3. e.run[i - 1] = d.run[i]
      BY <1>3, <2>4, <3>1
    <3> QED
      BY <3>2, <3>3
  <2>8. \A k : Kept(k) => Kept(k)'
    <3> SUFFICES ASSUME NEW k, Kept(k) PROVE Kept(k)'
      OBVIOUS
    <3>1. CASE In!InSequence(k, app)
      BY <1>6, <3>1 DEF Kept
    <3>2. CASE In!InSequence(k, d.run)
      <4>1. CASE k = Head(d.run)
        BY <1>7, <4>1 DEF Kept, In!InSequence
      <4>2. CASE In!InSequence(k, e.run)
        BY <2>1, <4>2 DEF Kept, In!HandingOver, In!InSequence
      <4> QED
        BY <2>7, <3>2, <4>1, <4>2
    <3>3. ASSUME NEW f \in delivering \ {d}, In!InSequence(k, f.run)
          PROVE  Kept(k)'
      BY <2>1, <3>3 DEF Kept, In!HandingOver, In!InSequence
    <3> QED
      BY <3>1, <3>2, <3>3 DEF Kept, In!HandingOver
  <2>9. \A k : Here(k) => Here(k)'
    BY <1>8, <2>8 DEF Here
  <2>10. HeldInv'
    <3>1. \A k \in Messages : ackCount'[k] > 0 => Here(k)'
      BY <2>1, <2>9 DEF Inv, HeldInv
    <3>2. (\A i \in 1..Len(released) : Kept(released[i]))'
      BY <1>8, <2>8 DEF Inv, HeldInv
    <3>3. (\A i \in DOMAIN seen : Here(seen[i]))'
      BY <1>8, <2>9 DEF Inv, HeldInv
    <3>4. (\A f \in delivering : Kept(f.ackFor))'
      BY <2>1, <2>4, <2>8 DEF Inv, HeldInv
    <3> QED
      BY <3>1, <3>2, <3>3, <3>4 DEF HeldInv
  <2>11. AckInv'
    BY <2>1, AckInvIdle DEF Inv
  <2> QED
    BY <1>8, <1>9, <2>5, <2>6, <2>10, <2>11 DEF Inv
<1> QED
  BY <1>11, <1>12

\* By itself the sender begins to handle no ACK.
LEMMA AckingShrinks == Out!LocalNext => acking' \subseteq acking
BY DEF Out!LocalNext, Out!Send, Out!StartCancel, Out!TimerDue, Out!Lapse,
       Out!Work, Out!Enqueue, Out!Claim, Out!Transmit, Out!Reread, Out!Mark,
       Out!Decide, Out!Expire, Out!Cancel, Out!Tick, Out!Flush,
       Out!SweepExpired, Out!Restart, Out!FinishAck, Out!elsewhere

\* A step of the sender: the receiver notices nothing.
LEMMA SenderStepOK ==
  ASSUME MaxRetries \in Nat, Inv, SenderStep
  PROVE  Inv' /\ (NothingNew \/ Grows) /\ Keeps /\ UNCHANGED released
<1>1. /\ SenderInv' /\ Keeps /\ (NothingNew \/ Grows) /\ restarts' \in Nat
  BY LocalOK DEF Inv, ReceiverInv, SenderStep
<1>2. UNCHANGED <<receiver, acks>>
  BY DEF SenderStep
<1>3. ReceiverInv'
  BY <1>1, <1>2 DEF Inv, ReceiverInv, receiver
<1>4. OnlySent'
  <2>1. /\ \A i \in 1..Len(released) : released[i] \in Messages
        /\ \A b \in buffer : b \in Messages
        /\ \A d \in delivering : d.ackFor \in Messages
        /\ \A a \in acks : a.m \in Messages
    BY DEF Inv, ReceiverInv, AckIds
  <2>2. \A m \in Messages : Present(m) => Present(m)'
    BY <1>1 DEF Keeps
  <2>3. released' = released /\ buffer' = buffer /\ delivering' = delivering
        /\ acks' = acks
    BY <1>2 DEF receiver
  <2>4. (\A i \in 1..Len(released) : Present(released[i]))'
    BY <2>1, <2>2, <2>3 DEF Inv, OnlySent, Present
  <2>5. (\A b \in buffer : Present(b))'
    BY <2>1, <2>2, <2>3 DEF Inv, OnlySent, Present
  <2>6. (\A d \in delivering : Present(d.ackFor))'
    BY <2>1, <2>2, <2>3 DEF Inv, OnlySent, Present
  <2>7. (\A a \in acks : Present(a.m))'
    BY <2>1, <2>2, <2>3 DEF Inv, OnlySent, Present
  <2> QED
    BY <2>4, <2>5, <2>6, <2>7 DEF OnlySent
<1>5. HeldInv'
  BY <1>2 DEF Inv, HeldInv, receiver, Here, Kept, In!InSequence, In!HandingOver
<1>6. AckInv'
  <2>1. acking' \subseteq acking
    BY AckingShrinks DEF SenderStep
  <2>2. \A m \in Messages : msgs'[m].state = "acknowledged" =>
          msgs[m].state = "acknowledged" \/ \E h \in acking : h.id.m = m
    BY <1>1 DEF Keeps
  <2>3. acks' = acks /\ ackCount' = ackCount
    BY <1>2 DEF receiver
  <2> QED
    BY <2>1, <2>2, <2>3 DEF Inv, AckInv
<1> QED
  BY <1>1, <1>2, <1>3, <1>4, <1>5, <1>6 DEF Inv, receiver

\* A step of the receiver's handlers.
LEMMA ReceiverStepOK ==
  ASSUME Inv, ReceiverStep
  PROVE  Inv' /\ UNCHANGED <<sender, released>>
<1>1. \A d \in delivering : ~ In!RecordFails(d)
  BY DEF In!RecordFails
<1>2. ~ In!Restart
  BY DEF In!Restart, Inv, ReceiverInv
<1>3. PICK d \in delivering : In!HandOver(d)
  BY <1>1, <1>2 DEF ReceiverStep, In!LocalNext
<1> QED
  BY <1>3, HandOverOK DEF ReceiverStep

\* An arrival leaves no envelope on the wire that was not there.
LEMMA TakenShrinks ==
  ASSUME NEW e, NEW channel, NEW rest \in Taken(e, channel)
  PROVE  rest \subseteq channel
BY DEF Taken

\* A data envelope arrives: only the accept at the expected number releases.
LEMMA ReceiveDataOK ==
  ASSUME OneSender, BufferLimit \in Nat, MaxSeq <= BufferLimit,
         Inv, NEW m \in wire, ReceiveData(m)
  PROVE  Inv' /\ UNCHANGED sender /\ (In!ReceiveNext(m) \/ UNCHANGED released)
<1>1. wire' \subseteq wire /\ UNCHANGED sender
  BY TakenShrinks DEF ReceiveData
<1>2. CASE In!ReceiveDuplicate(m)
  BY <1>1, <1>2, DuplicateOK
<1>3. CASE In!ReceiveStale(m)
  BY <1>1, <1>3, StaleOK
<1>4. CASE In!ReceiveNext(m)
  BY <1>1, <1>4, NextOK
<1>5. CASE In!ReceiveGap(m)
  BY <1>1, <1>5, GapOK
<1> QED
  BY <1>1, <1>2, <1>3, <1>4, <1>5, NoOverflow DEF ReceiveData, In!Receive

\* Envelopes of either kind are lost, or an ACK is dropped as known.
LEMMA LossOK ==
  ASSUME Inv, UNCHANGED <<sender, receiver, restarts>>,
         wire' \subseteq wire, acks' \subseteq acks
  PROVE  Inv'
<1>1. SenderInv' /\ \A k \in Messages : Present(k)' <=> Present(k)
  BY SenderIdle DEF Inv
<1>2. ReceiverInv'
  BY DEF Inv, ReceiverInv, receiver
<1>3. OnlySent'
  BY DEF Inv, OnlySent, Present, receiver, sender
<1>4. HeldInv'
  BY DEF Inv, HeldInv, receiver, Here, Kept, In!InSequence, In!HandingOver
<1>5. AckInv'
  BY DEF Inv, AckInv, receiver, sender
<1> QED
  BY <1>1, <1>2, <1>3, <1>4, <1>5 DEF Inv

\* The sender begins to handle an ACK.
LEMMA ReceiveAckOK ==
  ASSUME Inv, NEW a \in acks, ReceiveAck(a)
  PROVE  Inv' /\ UNCHANGED <<msgs, released>>
<1> DEFINE h == [id |-> a, state |-> msgs[a.m].state]
<1>1. /\ acks' \subseteq acks /\ acking' = acking \cup {h}
      /\ UNCHANGED <<receiver, msgs, tasks, wire, restarts>>
  BY TakenShrinks DEF ReceiveAck, Out!AckArrives
<1>2. a \in AckIds /\ a.m \in Messages /\ Present(a.m) /\ ackCount[a.m] > 0
  BY DEF Inv, ReceiverInv, OnlySent, AckInv, AckIds
<1>3. h \in Out!Handling /\ h.id = a
  <2>1. msgs[a.m].state \in States
    BY <1>2, SameData DEF Inv, SenderInv, Out!Record, Present
  <2> QED
    BY <1>2, <2>1, SameData DEF Out!Handling
<1> HIDE DEF h
<1>4. \A k : Present(k)' <=> Present(k)
  BY <1>1 DEF Present
<1>5. SenderInv'
  <2>1. TasksOK'
    BY <1>1 DEF Inv, SenderInv, TasksOK, Present
  <2> QED
    BY <1>1, <1>2, <1>3, <2>1 DEF Inv, SenderInv, Present
<1>6. ReceiverInv'
  BY <1>1 DEF Inv, ReceiverInv, receiver
<1>7. OnlySent'
  BY <1>1 DEF Inv, OnlySent, Present, receiver
<1>8. HeldInv'
  BY <1>1 DEF Inv, HeldInv, receiver, Here, Kept, In!InSequence, In!HandingOver
<1>9. AckInv'
  BY <1>1, <1>2, <1>3 DEF Inv, AckInv, receiver
<1> QED
  BY <1>1, <1>5, <1>6, <1>7, <1>8, <1>9 DEF Inv, receiver

(***************************************************************************)
(* The theorems.                                                           *)
(***************************************************************************)
\* Premises: the receiver hears one sender, and its buffer has room for every
\* message that sender may have under way.
Premises == /\ MaxRetries \in Nat
            /\ OneSender
            /\ BufferLimit \in Nat /\ MaxSeq <= BufferLimit

\* In the beginning nothing is sent.
LEMMA InitOK == MaxRetries \in Nat /\ Init => Inv
<1> SUFFICES ASSUME MaxRetries \in Nat, Init PROVE Inv
  OBVIOUS
<1> USE DEF Init, Out!Init, In!Init
<1>1. /\ msgs \in [Messages -> Out!Record]
      /\ \A m \in Messages : msgs[m].state = "absent"
  BY SameData DEF Out!Fresh, Out!Record
<1>2. SenderInv
  BY <1>1 DEF SenderInv, TasksOK
<1>3. ackCount = [m \in Messages |-> 0]
  BY SameData
<1>4. ReceiverInv
  BY <1>3, DataPlaneAssumption DEF ReceiverInv
<1>5. OnlySent /\ HeldInv /\ AckInv
  BY <1>1, <1>3 DEF OnlySent, HeldInv, AckInv
<1> QED
  BY <1>2, <1>4, <1>5 DEF Inv

\* What each step does to the invariant and to what the promise speaks of.
LEMMA StepOK ==
  ASSUME Premises, Inv, [Next]_vars
  PROVE  /\ Inv'
         /\ \/ Keeps /\ (NothingNew \/ Grows) /\ UNCHANGED released
            \/ UNCHANGED <<msgs, released>>
            \/ \E m \in wire : In!ReceiveNext(m) /\ UNCHANGED sender
<1>1. CASE SenderStep
  BY <1>1, SenderStepOK DEF Premises
<1>2. CASE ReceiverStep
  BY <1>2, ReceiverStepOK DEF sender
<1>3. ASSUME NEW m \in wire, ReceiveData(m)
      PROVE  /\ Inv' /\ UNCHANGED sender
             /\ In!ReceiveNext(m) \/ UNCHANGED released
  BY <1>3, ReceiveDataOK DEF Premises
<1>4. ASSUME NEW m \in wire, LoseData(m)
      PROVE  Inv' /\ UNCHANGED <<msgs, released>>
  BY <1>4, LossOK DEF LoseData, sender, receiver
<1>5. ASSUME NEW a \in acks, ReceiveAck(a)
      PROVE  Inv' /\ UNCHANGED <<msgs, released>>
  BY <1>5, ReceiveAckOK
<1>6. ASSUME NEW a \in acks, RepeatedAck(a) \/ LoseAck(a)
      PROVE  Inv' /\ UNCHANGED <<msgs, released>>
  BY <1>6, LossOK DEF RepeatedAck, LoseAck, sender, receiver
<1>7. CASE UNCHANGED vars
  BY <1>7, LossOK DEF vars, sender, receiver
<1> QED
  BY <1>1, <1>2, <1>3, <1>4, <1>5, <1>6, <1>7 DEF Next, sender

\* The invariant of both ends.
LEMMA Invariant == ASSUME Premises PROVE Spec => []Inv
<1>1. Init => Inv
  BY InitOK DEF Premises
<1>2. Inv /\ [Next]_vars => Inv'
  BY StepOK
<1> QED
  BY <1>1, <1>2, PTL DEF Spec

\* A message the sender holds as ACKNOWLEDGED is with the receiver's
\* application, about to be handed over, or in the reorder buffer, whatever
\* the transport loses, repeats and reorders and whatever the handlers of the
\* sender do to each other.
THEOREM AcknowledgedMeansHeld ==
  ASSUME Premises PROVE Spec => []AcknowledgedIsHeld
<1>1. Inv => AcknowledgedIsHeld
  BY DEF Inv, HeldInv, AckInv, AcknowledgedIsHeld, Here, Kept
<1> QED
  BY <1>1, Invariant, PTL

(***************************************************************************)
(* The refinement.                                                         *)
(***************************************************************************)
Sent == {m \in Messages : msgs[m].state # "absent"}

\* A sender step either stutters or sends one message more.
LEMMA SendsOrStutters ==
  ASSUME Keeps, NothingNew \/ Grows, UNCHANGED released
  PROVE  [Delivery!Next]_<<Sent, released>>
<1>1. CASE NothingNew
  <2>1. Sent' = Sent
    BY <1>1 DEF Sent, Keeps, NothingNew, Present
  <2> QED
    BY <2>1
<1>2. CASE Grows
  <2>1. PICK m \in Messages :
          ~ Present(m) /\ \A k \in Messages : Present(k)' <=> Present(k) \/ k = m
    BY <1>2 DEF Grows
  <2>2. m \in Messages \ Sent /\ Sent' = Sent \cup {m}
    BY <2>1 DEF Sent, Present
  <2> QED
    BY <2>2 DEF Delivery!Next, Delivery!Send, Sent
<1> QED
  BY <1>1, <1>2

\* The accept at the expected number delivers the messages that follow.
LEMMA DeliversPrefix ==
  ASSUME OneSender, Inv, Inv', NEW m \in wire, In!ReceiveNext(m), UNCHANGED sender
  PROVE  Delivery!Deliver
<1> DEFINE n == Len(released')
<1>1. PICK run \in Seq(Messages) \ {<<>>} : released' = released \o run
  BY NextStep
<1>2. /\ released \in Seq(Messages) /\ released' \in Seq(Messages)
      /\ n = Len(released) + Len(run)
      /\ Len(released) \in Nat /\ Len(run) \in Nat \ {0}
  BY <1>1, Concat DEF Inv, ReceiverInv
<1>3. n \in Nat /\ n > Len(released) /\ n \in 1..n
  BY <1>2
<1>4. Sent' = Sent
  BY DEF Sent, sender
<1>5. \A i \in 1..n : released'[i] \in Sent /\ released'[i].seq = i
  <2>1. \A i \in 1..n : released'[i] \in Messages
    BY <1>2
  <2>2. \A i \in 1..n : released'[i].seq = i
    BY DEF Inv, ReceiverInv
  <2>3. (\A i \in 1..Len(released) : Present(released[i]))'
    BY DEF Inv, OnlySent
  <2>4. \A i \in 1..n : released'[i] \in Sent'
    BY <2>1, <2>3 DEF Sent, Present
  <2> QED
    BY <1>4, <2>2, <2>4
<1>6. \A i \in 1..n : (CHOOSE k \in Sent : k.seq = i) = released'[i]
  <2> SUFFICES ASSUME NEW i \in 1..n
               PROVE  (CHOOSE k \in Sent : k.seq = i) = released'[i]
    OBVIOUS
  <2>1. released'[i] \in Sent /\ released'[i].seq = i
    BY <1>5
  <2>2. \A k \in Sent : k.seq = i => k = released'[i]
    BY <2>1, OneOfNumber DEF Sent
  <2> QED
    BY <2>1, <2>2
<1>7. released' = [i \in 1..n |-> CHOOSE k \in Sent : k.seq = i]
  <2>1. released' = [i \in 1..n |-> released'[i]]
    BY <1>2
  <2> QED
    BY <1>6, <2>1
<1>8. n \in {k.seq : k \in Sent} /\ \A i \in 1..n : \E k \in Sent : k.seq = i
  BY <1>3, <1>5
<1> HIDE DEF n
<1> QED
  BY <1>3, <1>4, <1>7, <1>8 DEF Delivery!Deliver, Sent

\* For every number of messages, retries and acknowledgements, every timing of
\* handlers and every loss, repetition and reordering, the two engines keep
\* the promise of OrderedDelivery: the receiver delivers a growing prefix of
\* what was sent, each message once and in the order of sending.
THEOREM PromiseIsKept == ASSUME Premises PROVE Spec => KeepsPromise
<1>1. Init => Delivery!Init
  <2>1. Init => Sent = {}
    BY SameData DEF Init, Out!Init, Out!Fresh, Sent
  <2> QED
    BY <2>1 DEF Init, In!Init, Delivery!Init, Sent
<1>2. Inv /\ Inv' /\ [Next]_vars => [Delivery!Next]_<<Sent, released>>
  <2> SUFFICES ASSUME Inv, Inv', [Next]_vars
               PROVE  [Delivery!Next]_<<Sent, released>>
    OBVIOUS
  <2>1. CASE Keeps /\ (NothingNew \/ Grows) /\ UNCHANGED released
    BY <2>1, SendsOrStutters
  <2>2. CASE UNCHANGED <<msgs, released>>
    BY <2>2 DEF Sent
  <2>3. ASSUME NEW m \in wire, In!ReceiveNext(m), UNCHANGED sender
        PROVE  Delivery!Next
    BY <2>3, DeliversPrefix DEF Premises, Delivery!Next
  <2> QED
    BY <2>1, <2>2, <2>3, StepOK
<1> QED
  BY <1>1, <1>2, Invariant, PTL DEF Spec, KeepsPromise, Delivery!Spec, Sent

(***************************************************************************)
(* The sending side by itself, before a peer that may answer whatever was  *)
(* carried.                                                                *)
(***************************************************************************)
\* The handler t is replaced by u, or it is done.
Replaced(t, u) == tasks' = (tasks \ {t}) \cup {u}

\* What Become makes of a handler.
LEMMA BecomeShape ==
  ASSUME SenderInv, NEW t \in tasks, NEW step, NEW state, Out!Become(t, step, state)
  PROVE  \E u : /\ Replaced(t, u)
                /\ u.step = step /\ u.by = t.by /\ u.todo = t.todo
                /\ u.cur.m = t.cur.m /\ u.cur.state = state
                /\ u.cur.retry = t.cur.retry
<1> DEFINE u == [t EXCEPT !.step = step, !.cur.state = state]
<1>1. t \in Out!Task /\ t.cur \in Out!Copy
  BY TaskData
<1>2. /\ u.step = step /\ u.by = t.by /\ u.todo = t.todo
      /\ u.cur = [t.cur EXCEPT !.state = state]
  BY <1>1 DEF Out!Task
<1>3. u.cur.m = t.cur.m /\ u.cur.state = state /\ u.cur.retry = t.cur.retry
  BY <1>1, <1>2 DEF Out!Copy
<1>4. Replaced(t, u)
  BY DEF Out!Become, Replaced
<1> HIDE DEF u
<1> QED
  BY <1>2, <1>3, <1>4

\* What the loop makes of it.
LEMMA AdvanceShape ==
  ASSUME SenderInv, NEW t \in tasks, Out!Advance(t)
  PROVE  \/ tasks' = tasks \ {t}
         \/ \E c \in t.todo : \E u :
              /\ Replaced(t, u)
              /\ u.step = Out!FirstStep(t.by) /\ u.by = t.by
              /\ u.cur = c /\ u.todo = t.todo \ {c}
<1>1. t \in Out!Task
  BY TaskData
<1>2. ASSUME NEW c \in t.todo,
             tasks' = (tasks \ {t}) \cup
               {[t EXCEPT !.step = Out!FirstStep(t.by), !.cur = c, !.todo = @ \ {c}]}
      PROVE  \E u : /\ Replaced(t, u)
                    /\ u.step = Out!FirstStep(t.by) /\ u.by = t.by
                    /\ u.cur = c /\ u.todo = t.todo \ {c}
  <2> DEFINE u == [t EXCEPT !.step = Out!FirstStep(t.by), !.cur = c, !.todo = @ \ {c}]
  <2>1. /\ u.step = Out!FirstStep(t.by) /\ u.by = t.by
        /\ u.cur = c /\ u.todo = t.todo \ {c}
    BY <1>1 DEF Out!Task
  <2>2. Replaced(t, u)
    BY <1>2 DEF Replaced
  <2> HIDE DEF u
  <2> QED
    BY <2>1, <2>2
<1> QED
  BY <1>2 DEF Out!Advance, Out!Proceed

\* A write reaches one record, and only its state and its timer.
LEMMA WriteShape ==
  ASSUME SenderInv, NEW m \in Messages, NEW state, NEW timer, Out!Write(m, state, timer)
  PROVE  /\ msgs'[m].state = state /\ msgs'[m].timer = timer
         /\ msgs'[m].retry = msgs[m].retry
         /\ \A k \in Messages \ {m} : msgs'[k] = msgs[k]
BY DEF SenderInv, Out!Write, Out!Record

\* A counted retry: only the number of retries of one record changes.
LEMMA CountShape ==
  ASSUME SenderInv, NEW t \in tasks, Out!CountRetry(t)
  PROVE  /\ msgs'[t.cur.m].retry = t.cur.retry + 1
         /\ \A k \in Messages : msgs'[k].state = msgs[k].state
                             /\ msgs'[k].timer = msgs[k].timer
         /\ \A k \in Messages \ {t.cur.m} : msgs'[k] = msgs[k]
         /\ \/ Out!Advance(t)
            \/ \E u : /\ Replaced(t, u)
                      /\ u.step = "claim" /\ u.by = t.by /\ u.todo = t.todo
                      /\ u.cur.m = t.cur.m
<1> DEFINE m == t.cur.m
           bumped == [t.cur EXCEPT !.retry = @ + 1, !.state = msgs[m].state]
           u == [t EXCEPT !.step = "claim", !.cur = bumped]
<1>1. /\ t \in Out!Task /\ t.cur \in Out!Copy /\ m \in Messages
      /\ msgs[m] \in Out!Record
  BY TaskData
<1>2. bumped.m = m /\ bumped.retry = t.cur.retry + 1
  BY <1>1 DEF Out!Copy
<1> HIDE DEF bumped
<1>3. u.step = "claim" /\ u.by = t.by /\ u.todo = t.todo /\ u.cur = bumped
  BY <1>1 DEF Out!Task
<1>4. msgs' = [msgs EXCEPT ![m].retry = bumped.retry]
  BY DEF Out!CountRetry, bumped
<1>5. /\ msgs'[m].retry = t.cur.retry + 1
      /\ \A k \in Messages : msgs'[k].state = msgs[k].state
                          /\ msgs'[k].timer = msgs[k].timer
      /\ \A k \in Messages \ {m} : msgs'[k] = msgs[k]
  BY <1>1, <1>2, <1>4 DEF SenderInv, Out!Record
<1>6. Out!Advance(t) \/ tasks' = (tasks \ {t}) \cup {u}
  BY DEF Out!CountRetry, bumped
<1> HIDE DEF u
<1> QED
  BY <1>2, <1>3, <1>5, <1>6 DEF Replaced

\* What has begun a handler of its own.
LEMMA StartShape ==
  ASSUME SenderInv, NEW by \in Out!Workers, NEW S \in SUBSET Messages,
         \A m \in S : Present(m),
         Out!StartLoop(by, {Out!CopyOf(m) : m \in S})
  PROVE  \E m \in S : \E u :
           /\ tasks' = tasks \cup {u}
           /\ u.by = by /\ u.step = Out!FirstStep(by)
           /\ u.cur = Out!CopyOf(m)
           /\ u.todo = {Out!CopyOf(k) : k \in S \ {m}}
<1> DEFINE listed == {Out!CopyOf(m) : m \in S}
<1>1. PICK c \in listed : tasks' = tasks \cup {[by |-> by, step |-> Out!FirstStep(by),
                                                cur |-> c, todo |-> listed \ {c}]}
  BY DEF Out!StartLoop
<1>2. PICK m \in S : c = Out!CopyOf(m)
  BY <1>1
<1>3. \A k \in S : Out!CopyOf(k).m = k
  BY CopyData
<1>4. listed \ {c} = {Out!CopyOf(k) : k \in S \ {m}}
  BY <1>2, <1>3
<1> DEFINE u == [by |-> by, step |-> Out!FirstStep(by), cur |-> c, todo |-> listed \ {c}]
<1>5. u.by = by /\ u.step = Out!FirstStep(by) /\ u.cur = c /\ u.todo = listed \ {c}
  OBVIOUS
<1> HIDE DEF u
<1> QED
  BY <1>1, <1>2, <1>4, <1>5 DEF u

\* A sweep or a flush begins with copies of active records of one sender.
LEMMA LoopsBegin ==
  ASSUME SenderInv, NEW s \in Senders,
         (\E w \in Sweepers : Out!Tick(w, s)) \/ Out!Flush(s) \/ Out!SweepExpired(s)
  PROVE  /\ UNCHANGED <<msgs, queue, acking, ackSeen, wire, attempts, restarts>>
         /\ \E by \in Sweepers \cup {"flush", "expiry"}, S \in SUBSET Messages :
              /\ ~ Out!Running(by, s)
              /\ \A k \in S : k.from = s /\ Present(k)
              /\ \E m \in S : \E u :
                   /\ tasks' = tasks \cup {u}
                   /\ u.by = by /\ u.step = Out!FirstStep(by)
                   /\ u.cur = Out!CopyOf(m)
                   /\ u.todo = {Out!CopyOf(k) : k \in S \ {m}}
<1>1. Sweepers \cup {"flush", "expiry"} \subseteq Out!Workers
  BY DEF Out!Workers
<1>2. ASSUME NEW by \in Sweepers \cup {"flush", "expiry"}, NEW S \in SUBSET Messages,
             ~ Out!Running(by, s), \A k \in S : k.from = s /\ Present(k),
             Out!StartLoop(by, {Out!CopyOf(m) : m \in S})
      PROVE  \E m \in S : \E u :
                   /\ tasks' = tasks \cup {u}
                   /\ u.by = by /\ u.step = Out!FirstStep(by)
                   /\ u.cur = Out!CopyOf(m)
                   /\ u.todo = {Out!CopyOf(k) : k \in S \ {m}}
  <2>1. by \in Out!Workers /\ \A k \in S : Present(k)
    BY <1>1, <1>2
  <2> QED
    BY <1>2, <2>1, StartShape
<1>3. ASSUME NEW w \in Sweepers, Out!Tick(w, s)
      PROVE  \E S \in SUBSET Messages :
               /\ \A k \in S : k.from = s /\ Present(k)
               /\ ~ Out!Running(w, s)
               /\ Out!StartLoop(w, {Out!CopyOf(m) : m \in S})
               /\ UNCHANGED <<msgs, queue, Out!elsewhere>>
  <2> DEFINE S == {k \in Messages : /\ k.from = s
                                    /\ msgs[k].state \in Out!Retryable
                                    /\ msgs[k].timer = "due"}
  <2>1. Out!RetryDue(s) = {Out!CopyOf(m) : m \in S}
    BY SameData DEF Out!RetryDue
  <2>2. \A k \in S : k.from = s /\ Present(k)
    BY DEF Present, Out!Retryable
  <2> HIDE DEF S
  <2>3. S \in SUBSET Messages
    BY DEF S
  <2> QED
    BY <1>3, <2>1, <2>2, <2>3 DEF Out!Tick
<1>4. ASSUME Out!Flush(s)
      PROVE  \E S \in SUBSET Messages :
               /\ \A k \in S : k.from = s /\ Present(k)
               /\ ~ Out!Running("flush", s)
               /\ Out!StartLoop("flush", {Out!CopyOf(m) : m \in S})
               /\ UNCHANGED <<msgs, queue, Out!elsewhere>>
  <2> DEFINE S == {k \in Messages : k.from = s /\ msgs[k].state \in {"queued", "sent"}}
  <2>1. \A k \in S : k.from = s /\ Present(k)
    BY DEF Present
  <2>2. Out!StartLoop("flush", {Out!CopyOf(m) : m \in S})
    BY <1>4, SameData DEF Out!Flush
  <2> HIDE DEF S
  <2>3. S \in SUBSET Messages
    BY DEF S
  <2> QED
    BY <1>4, <2>1, <2>2, <2>3 DEF Out!Flush
<1>5. ASSUME Out!SweepExpired(s)
      PROVE  \E S \in SUBSET Messages :
               /\ \A k \in S : k.from = s /\ Present(k)
               /\ ~ Out!Running("expiry", s)
               /\ Out!StartLoop("expiry", {Out!CopyOf(m) : m \in S})
               /\ UNCHANGED <<msgs, queue, Out!elsewhere>>
  <2> DEFINE S == {k \in Messages : /\ k.from = s
                                    /\ msgs[k].state \in Active
                                    /\ msgs[k].lapsed}
  <2>1. \A k \in S : k.from = s /\ Present(k)
    BY DEF Present, Active
  <2>2. Out!StartLoop("expiry", {Out!CopyOf(m) : m \in S})
    BY <1>5, SameData DEF Out!SweepExpired
  <2> HIDE DEF S
  <2>3. S \in SUBSET Messages
    BY DEF S
  <2> QED
    BY <1>5, <2>1, <2>2, <2>3 DEF Out!SweepExpired
<1>6. \E by \in Sweepers \cup {"flush", "expiry"}, S \in SUBSET Messages :
        /\ \A k \in S : k.from = s /\ Present(k)
        /\ ~ Out!Running(by, s)
        /\ Out!StartLoop(by, {Out!CopyOf(m) : m \in S})
        /\ UNCHANGED <<msgs, queue, Out!elsewhere>>
  BY <1>3, <1>4, <1>5
<1> QED
  BY <1>2, <1>6 DEF Out!elsewhere

\* The variables of the sending side have their types.
SendingTypes ==
  /\ SenderInv
  /\ queue \subseteq Messages
  /\ ackSeen \subseteq AckIds
  /\ attempts \in [Messages -> 0..Out!AttemptCap]
  /\ restarts \in 0..MaxRestarts

\* An ACK that comes for a message that was carried.
LEMMA AckArrivesOK ==
  ASSUME SenderInv, NEW a \in AckIds, a.m \in wire, Out!AckArrives(a)
  PROVE  SenderInv'
<1> DEFINE h == [id |-> a, state |-> msgs[a.m].state]
<1>1. /\ acking' = acking \cup {h} /\ UNCHANGED <<msgs, tasks, wire>>
  BY DEF Out!AckArrives
<1>2. a.m \in Messages /\ Present(a.m)
  BY DEF SenderInv
<1>3. h \in Out!Handling /\ h.id = a
  <2>1. msgs[a.m].state \in States
    BY <1>2, SameData DEF SenderInv, Out!Record, Present
  <2> QED
    BY <2>1, SameData DEF Out!Handling
<1> HIDE DEF h
<1>4. TasksOK'
  BY <1>1 DEF SenderInv, TasksOK, Present
<1> QED
  BY <1>1, <1>2, <1>3, <1>4 DEF SenderInv, Present

LEMMA SendingTypesStep ==
  ASSUME SendingTypes, [Out!Next]_(Out!vars)
  PROVE  SendingTypes'
<1>0. MaxRetries \in Nat /\ MaxRestarts \in Nat
  BY SendingAssumption DEF Out!OutboundAssumption
<1>1. SenderInv'
  <2>1. CASE Out!LocalNext
    BY <1>0, <2>1, LocalOK DEF SendingTypes
  <2>2. ASSUME NEW a \in AckIds, a.m \in wire, Out!AckArrives(a) PROVE SenderInv'
    BY <2>2, AckArrivesOK DEF SendingTypes
  <2>3. CASE UNCHANGED Out!vars
    BY <2>3 DEF Out!vars, SendingTypes, SenderInv, TasksOK, Present
  <2> QED
    BY <2>1, <2>2, <2>3, SameData DEF Out!Next
<1>2. queue' \subseteq queue \cup Messages
  <2>1. \A t \in tasks : t.cur.m \in Messages
    BY TaskData DEF SendingTypes
  <2>2. ASSUME NEW t \in tasks, Out!Work(t)
        PROVE  queue' \subseteq queue \cup {t.cur.m}
    BY <2>2 DEF Out!Work, Out!Enqueue, Out!Claim, Out!Transmit, Out!Reread,
       Out!Mark, Out!Decide, Out!GiveUp, Out!CountRetry, Out!Expire, Out!Cancel,
       Out!elsewhere
  <2>3. (\E t \in tasks : Out!Work(t)) \/ queue' \subseteq queue
    BY DEF Out!Next, Out!LocalNext, Out!Send, Out!StartCancel, Out!TimerDue,
       Out!Lapse, Out!Tick, Out!Flush, Out!SweepExpired, Out!Restart,
       Out!FinishAck, Out!AckArrives, Out!elsewhere, Out!vars
  <2> QED
    BY <2>1, <2>2, <2>3
<1>3. ackSeen' \subseteq ackSeen \cup AckIds
  BY SameData DEF Out!Next, Out!LocalNext, Out!Send, Out!StartCancel, Out!TimerDue,
     Out!Lapse, Out!Work, Out!Enqueue, Out!Claim, Out!Transmit, Out!Reread,
     Out!Mark, Out!Decide, Out!Expire, Out!Cancel,
     Out!Tick, Out!Flush, Out!SweepExpired, Out!Restart, Out!FinishAck,
     Out!AckArrives, Out!elsewhere, Out!vars
<1>4. restarts' = restarts \/ (restarts < MaxRestarts /\ restarts' = restarts + 1)
  BY DEF Out!Next, Out!LocalNext, Out!Send, Out!StartCancel, Out!TimerDue,
     Out!Lapse, Out!Work, Out!Enqueue, Out!Claim, Out!Transmit, Out!Reread,
     Out!Mark, Out!Decide, Out!Expire, Out!Cancel,
     Out!Tick, Out!Flush, Out!SweepExpired, Out!Restart, Out!FinishAck,
     Out!AckArrives, Out!elsewhere, Out!vars
<1>5. attempts' \in [Messages -> 0..Out!AttemptCap]
  <2>1. CASE attempts' = attempts
    BY <2>1 DEF SendingTypes
  <2>2. ASSUME NEW t \in tasks, Out!Transmit(t)
        PROVE  attempts' \in [Messages -> 0..Out!AttemptCap]
    <3>1. Out!AttemptCap \in Nat
      BY <1>0 DEF Out!AttemptCap
    <3> HIDE DEF Out!AttemptCap
    <3>2. t.cur.m \in Messages
      BY TaskData DEF SendingTypes
    <3>3. attempts[t.cur.m] \in 0..Out!AttemptCap
      BY <3>2 DEF SendingTypes
    <3>4. PICK k \in 0..Out!AttemptCap : attempts' = [attempts EXCEPT ![t.cur.m] = k]
      <4> DEFINE k == IF t.by # "flush" /\ attempts[t.cur.m] < Out!AttemptCap
                        THEN attempts[t.cur.m] + 1 ELSE attempts[t.cur.m]
      <4>1. attempts' = [attempts EXCEPT ![t.cur.m] = k]
        BY <2>2, <3>2 DEF Out!Transmit, SendingTypes
      <4>2. k \in 0..Out!AttemptCap
        BY <3>1, <3>3
      <4> HIDE DEF k
      <4> QED
        BY <4>1, <4>2
    <3> QED
      BY <3>2, <3>4 DEF SendingTypes
  <2>3. attempts' = attempts \/ \E t \in tasks : Out!Transmit(t)
    BY DEF Out!Next, Out!LocalNext, Out!Send, Out!StartCancel, Out!TimerDue,
       Out!Lapse, Out!Work, Out!Enqueue, Out!Claim, Out!Reread,
       Out!Mark, Out!Decide, Out!Expire, Out!Cancel,
       Out!Tick, Out!Flush, Out!SweepExpired, Out!Restart, Out!FinishAck,
       Out!AckArrives, Out!elsewhere, Out!vars
  <2> QED
    BY <2>1, <2>2, <2>3
<1> QED
  BY <1>0, <1>1, <1>2, <1>3, <1>4, <1>5 DEF SendingTypes

(***************************************************************************)
(* The queue, and the timers.                                              *)
(***************************************************************************)
\* Nothing that came to its end is in the queue.
QueueOK == \A m \in queue : msgs[m].state \in Active

\* A write that takes a message which came to its end out of the queue.
LEMMA WriteQueue ==
  ASSUME SendingTypes, QueueOK, NEW m \in Messages, NEW state, NEW timer,
         Out!Write(m, state, timer),
         (state \in Active /\ queue' \subseteq queue \cup {m}) \/ queue' \subseteq queue \ {m}
  PROVE  QueueOK'
<1>1. /\ msgs'[m].state = state
      /\ \A k \in Messages \ {m} : msgs'[k] = msgs[k]
  BY WriteShape DEF SendingTypes
<1>2. queue \subseteq Messages
  BY DEF SendingTypes
<1> QED
  BY <1>1, <1>2 DEF QueueOK

\* A step that leaves every state, or every state of what is queued, alone.
LEMMA StatesQueue ==
  ASSUME SendingTypes, QueueOK, queue' \subseteq queue,
         \A k \in Messages : msgs'[k].state = msgs[k].state \/ msgs'[k].state \in Active
  PROVE  QueueOK'
BY DEF SendingTypes, QueueOK

LEMMA QueueStep ==
  ASSUME SendingTypes, QueueOK, [Out!Next]_(Out!vars)
  PROVE  QueueOK'
<1> USE DEF Out!elsewhere
<1>0. SenderInv /\ \A t \in tasks : t.cur.m \in Messages
  BY TaskData DEF SendingTypes
<1>a. {"created", "queued", "sending", "sent"} \subseteq Active
  BY DEF Active
<1>1. ASSUME UNCHANGED msgs, queue' \subseteq queue PROVE QueueOK'
  BY <1>1, StatesQueue
<1>2. ASSUME NEW m \in Messages, Out!Send(m) PROVE QueueOK'
  <2>1. \A k \in Messages : msgs'[k].state = msgs[k].state \/ msgs'[k].state \in Active
    BY <1>0, <1>2, <1>a DEF Out!Send, SenderInv, Out!Record
  <2> QED
    BY <1>2, <2>1, StatesQueue DEF Out!Send
<1>3. ASSUME NEW m \in Messages, Out!TimerDue(m) \/ Out!Lapse(m) PROVE QueueOK'
  <2>1. \A k \in Messages : msgs'[k].state = msgs[k].state
    BY <1>0, <1>3 DEF Out!TimerDue, Out!Lapse, SenderInv, Out!Record
  <2>2. queue' \subseteq queue
    BY <1>3 DEF Out!TimerDue, Out!Lapse
  <2> QED
    BY <2>1, <2>2, StatesQueue
<1>4. ASSUME NEW t \in tasks, NEW state, Out!GiveUp(t, state) PROVE QueueOK'
  BY <1>0, <1>4, WriteQueue DEF Out!GiveUp
<1>5. ASSUME NEW t \in tasks, Out!Work(t) PROVE QueueOK'
  <2>1. CASE Out!Enqueue(t)
    BY <1>0, <1>a, <2>1, WriteQueue DEF Out!Enqueue
  <2>2. CASE Out!Claim(t)
    BY <1>0, <1>a, <2>2, WriteQueue DEF Out!Claim
  <2>3. CASE Out!Transmit(t) \/ Out!Reread(t)
    BY <1>1, <2>3 DEF Out!Transmit, Out!Reread
  <2>4. CASE Out!Mark(t)
    <3>1. queue' \subseteq queue
      BY <2>4 DEF Out!Mark
    <3>2. CASE UNCHANGED msgs
      BY <1>1, <3>1, <3>2
    <3>3. ASSUME NEW state \in {"sent", "queued"}, Out!Write(t.cur.m, state, "armed")
          PROVE  QueueOK'
      BY <1>0, <1>a, <3>1, <3>3, WriteQueue
    <3> QED
      BY <2>4, <3>2, <3>3 DEF Out!Mark
  <2>5. CASE Out!Decide(t)
    <3>1. CASE Out!CountRetry(t)
      <4>1. \A k \in Messages : msgs'[k].state = msgs[k].state
        BY <1>0, <3>1, CountShape
      <4>2. queue' = queue
        BY <3>1 DEF Out!CountRetry
      <4> QED
        BY <4>1, <4>2, StatesQueue
    <3> QED
      BY <1>4, <2>5, <3>1 DEF Out!Decide
  <2>6. CASE Out!Expire(t) \/ Out!Cancel(t)
    BY <1>4, <2>6 DEF Out!Expire, Out!Cancel
  <2> QED
    BY <1>5, <2>1, <2>2, <2>3, <2>4, <2>5, <2>6 DEF Out!Work
<1>6. ASSUME NEW s \in Senders,
             (\E w \in Sweepers : Out!Tick(w, s)) \/ Out!Flush(s) \/ Out!SweepExpired(s)
      PROVE  QueueOK'
  BY <1>1, <1>6 DEF Out!Tick, Out!Flush, Out!SweepExpired
<1>7. ASSUME NEW h \in acking, Out!FinishAck(h) PROVE QueueOK'
  <2>1. h.id.m \in Messages
    BY <1>0, SameData DEF SenderInv, Out!Handling, AckIds
  <2>2. CASE UNCHANGED <<msgs, queue>>
    BY <1>1, <2>2
  <2>3. CASE Out!Write(h.id.m, "acknowledged", "none") /\ queue' = queue \ {h.id.m}
    BY <2>1, <2>3, WriteQueue
  <2> QED
    BY <1>7, <2>2, <2>3 DEF Out!FinishAck
<1>8. ASSUME NEW s \in Senders, Out!Restart(s) PROVE QueueOK'
  BY <1>1, <1>8 DEF Out!Restart
<1>9. ASSUME NEW m \in Messages, Out!StartCancel(m) PROVE QueueOK'
  BY <1>1, <1>9 DEF Out!StartCancel
<1>10. ASSUME NEW a, Out!AckArrives(a) PROVE QueueOK'
  BY <1>1, <1>10 DEF Out!AckArrives
<1>11. CASE UNCHANGED Out!vars
  BY <1>1, <1>11 DEF Out!vars
<1> QED
  BY <1>2, <1>3, <1>5, <1>6, <1>7, <1>8, <1>9, <1>10, <1>11, SameData
     DEF Out!Next, Out!LocalNext

\* A handler is about to write the record.
Starting(m) == \E t \in tasks : t.cur.m = m /\ t.step = "enqueue"
Claiming(m) == \E t \in tasks : t.cur.m = m /\ t.step = "claim"
InHand(t) == \/ t.step \in {"transmit", "transmitted", "threw"}
             \/ t.step \in {"mark", "requeue"} /\ t.cur.state = "sending"
Handing(m) == \E t \in tasks : t.cur.m = m /\ InHand(t)

\* Which handler an active record without a retry timer waits for.
Awaited(m) ==
  /\ msgs[m].state = "created" => Starting(m)
  /\ msgs[m].state = "queued" => msgs[m].timer # "none" \/ Claiming(m)
  /\ msgs[m].state = "sending" => msgs[m].timer # "none" \/ Handing(m)
  /\ msgs[m].state = "sent" => msgs[m].timer # "none"
  /\ msgs[m].state # "delivered"

TimersOK == restarts = 0 => \A m \in Messages : Awaited(m)

\* The record and its handlers are left alone.
LEMMA StillAwaited ==
  ASSUME NEW k, Awaited(k), msgs'[k].state = msgs[k].state,
         msgs'[k].timer = "none" => msgs[k].timer = "none",
         \A x \in tasks : x.cur.m = k /\ (x.step \in {"enqueue", "claim"} \/ InHand(x))
                            => x \in tasks'
  PROVE  Awaited(k)'
<1>1. Starting(k) => Starting(k)'
  BY DEF Starting
<1>2. Claiming(k) => Claiming(k)'
  BY DEF Claiming
<1>3. Handing(k) => Handing(k)'
  BY DEF Handing, InHand
<1> QED
  BY <1>1, <1>2, <1>3 DEF Awaited

\* A step of the handler t that writes at most t's own record.
LEMMA OthersAwaited ==
  ASSUME NEW t \in tasks, tasks \ {t} \subseteq tasks',
         \A k \in Messages : Awaited(k),
         \A k \in Messages \ {t.cur.m} : msgs'[k] = msgs[k],
         Awaited(t.cur.m)'
  PROVE  \A k \in Messages : Awaited(k)'
<1> SUFFICES ASSUME NEW k \in Messages, k # t.cur.m PROVE Awaited(k)'
  OBVIOUS
<1> QED
  BY StillAwaited

\* A handler's step that only drops the handler, or puts it elsewhere.
LEMMA OthersStay ==
  ASSUME SenderInv, NEW t \in tasks, Out!Advance(t)
  PROVE  tasks \ {t} \subseteq tasks'
BY AdvanceShape DEF Replaced

\* A record that came to its end waits for nobody.
LEMMA EndedAwaited ==
  \A k : msgs[k].state \in Terminal => Awaited(k)
BY DEF Awaited, Terminal

LEMMA WorkTimers ==
  ASSUME SendingTypes, \A m \in Messages : Awaited(m), NEW t \in tasks, Out!Work(t)
  PROVE  \A m \in Messages : Awaited(m)'
<1> DEFINE m == t.cur.m
<1>0. SenderInv /\ m \in Messages
  BY TaskData DEF SendingTypes
<1>1. ASSUME NEW u, Replaced(t, u) PROVE tasks \ {t} \subseteq tasks' /\ u \in tasks'
  BY <1>1 DEF Replaced
<1>2. CASE Out!Enqueue(t)
  <2>1. PICK u : Replaced(t, u) /\ u.step = "claim" /\ u.cur.m = m
    BY <1>0, <1>2, BecomeShape DEF Out!Enqueue
  <2>2. msgs'[m].state = "queued" /\ \A k \in Messages \ {m} : msgs'[k] = msgs[k]
    BY <1>0, <1>2, WriteShape DEF Out!Enqueue
  <2>3. Awaited(m)'
    BY <1>1, <2>1, <2>2 DEF Awaited, Claiming
  <2> QED
    BY <1>1, <2>1, <2>2, <2>3, OthersAwaited
<1>3. CASE Out!Claim(t)
  <2>1. PICK u : Replaced(t, u) /\ u.step = "transmit" /\ u.cur.m = m
    BY <1>0, <1>3, BecomeShape DEF Out!Claim
  <2>2. msgs'[m].state = "sending" /\ \A k \in Messages \ {m} : msgs'[k] = msgs[k]
    BY <1>0, <1>3, WriteShape DEF Out!Claim
  <2>3. Awaited(m)'
    BY <1>1, <2>1, <2>2 DEF Awaited, Handing, InHand
  <2> QED
    BY <1>1, <2>1, <2>2, <2>3, OthersAwaited
<1>4. CASE Out!Transmit(t) \/ Out!Reread(t)
  <2>1. UNCHANGED msgs
    BY <1>4 DEF Out!Transmit, Out!Reread
  <2>2. PICK u : Replaced(t, u) /\ u.cur.m = m /\ (msgs[m].state = "sending" => InHand(u))
    <3>1. CASE Out!Transmit(t)
      <4>1. PICK step \in {"transmitted", "threw"} : Out!Become(t, step, "sending")
        BY <3>1 DEF Out!Transmit
      <4> QED
        BY <1>0, <4>1, BecomeShape DEF InHand
    <3>2. CASE Out!Reread(t)
      <4>1. PICK step \in {"mark", "requeue"} : Out!Become(t, step, msgs[m].state)
        BY <3>2 DEF Out!Reread
      <4> QED
        BY <1>0, <4>1, BecomeShape DEF InHand
    <3> QED
      BY <1>4, <3>1, <3>2
  <2>3. t.step \notin {"enqueue", "claim"}
    BY <1>4 DEF Out!Transmit, Out!Reread
  <2>4. Awaited(m)'
    <3>1. Starting(m) => Starting(m)'
      BY <1>1, <2>2, <2>3 DEF Starting
    <3>2. Claiming(m) => Claiming(m)'
      BY <1>1, <2>2, <2>3 DEF Claiming
    <3>3. msgs[m].state = "sending" => Handing(m)'
      BY <1>1, <2>2 DEF Handing, InHand
    <3>4. Awaited(m)
      BY <1>0
    <3> QED
      BY <2>1, <3>1, <3>2, <3>3, <3>4 DEF Awaited
  <2> QED
    BY <1>1, <2>1, <2>2, <2>4, OthersAwaited
<1>5. CASE Out!Mark(t)
  <2>1. tasks \ {t} \subseteq tasks'
    BY <1>0, <1>5, OthersStay DEF Out!Mark
  <2>2. CASE t.cur.state = "sending"
    <3>1. PICK state \in {"sent", "queued"} : Out!Write(m, state, "armed")
      BY <1>5, <2>2 DEF Out!Mark
    <3>2. /\ msgs'[m].state = state /\ msgs'[m].timer = "armed"
          /\ \A k \in Messages \ {m} : msgs'[k] = msgs[k]
      BY <1>0, <3>1, WriteShape
    <3>3. Awaited(m)'
      BY <3>2 DEF Awaited
    <3> QED
      BY <2>1, <3>2, <3>3, OthersAwaited
  <2>3. CASE t.cur.state # "sending"
    <3>1. UNCHANGED msgs
      BY <1>5, <2>3 DEF Out!Mark
    <3>2. ~ (t.step \in {"enqueue", "claim"} \/ InHand(t))
      BY <1>5, <2>3 DEF Out!Mark, InHand
    <3> QED
      BY <2>1, <3>1, <3>2, StillAwaited
  <2> QED
    BY <2>2, <2>3
<1>6. ASSUME NEW state \in Terminal, Out!GiveUp(t, state)
      PROVE  \A k \in Messages : Awaited(k)'
  <2>1. tasks \ {t} \subseteq tasks'
    BY <1>0, <1>6, OthersStay DEF Out!GiveUp
  <2>2. msgs'[m].state = state /\ \A k \in Messages \ {m} : msgs'[k] = msgs[k]
    BY <1>0, <1>6, WriteShape DEF Out!GiveUp
  <2>3. Awaited(m)'
    BY <2>2 DEF Awaited, Terminal
  <2> QED
    BY <2>1, <2>2, <2>3, OthersAwaited
<1>7. CASE t.step = "decide" /\ Out!CountRetry(t)
  <2>1. /\ \A k \in Messages : msgs'[k].state = msgs[k].state /\ msgs'[k].timer = msgs[k].timer
        /\ Out!Advance(t) \/ \E u : Replaced(t, u)
    BY <1>0, <1>7, CountShape
  <2>2. tasks \ {t} \subseteq tasks'
    BY <1>0, <1>1, <2>1, OthersStay
  <2>3. ~ (t.step \in {"enqueue", "claim"} \/ InHand(t))
    BY <1>7 DEF InHand
  <2> QED
    BY <2>1, <2>2, <2>3, StillAwaited
<1>8. {"expired", "failed", "cancelled"} \subseteq Terminal
  BY DEF Terminal
<1>9. CASE Out!Decide(t)
  BY <1>6, <1>7, <1>8, <1>9 DEF Out!Decide
<1>10. CASE Out!Expire(t) \/ Out!Cancel(t)
  BY <1>6, <1>8, <1>10 DEF Out!Expire, Out!Cancel
<1> QED
  BY <1>2, <1>3, <1>4, <1>5, <1>9, <1>10 DEF Out!Work

LEMMA TimersStep ==
  ASSUME SendingTypes, TimersOK, [Out!Next]_(Out!vars)
  PROVE  TimersOK'
<1> SUFFICES ASSUME restarts' = 0 PROVE \A k \in Messages : Awaited(k)'
  BY DEF TimersOK
<1>r. restarts \in Nat
  BY DEF SendingTypes
<1>1. ASSUME NEW s \in Senders, Out!Restart(s) PROVE FALSE
  BY <1>1, <1>r DEF Out!Restart
<1>2. restarts = 0
  BY <1>1, <1>r DEF Out!Next, Out!LocalNext, Out!Send, Out!StartCancel, Out!TimerDue,
     Out!Lapse, Out!Work, Out!Enqueue, Out!Claim, Out!Transmit, Out!Reread,
     Out!Mark, Out!Decide, Out!Expire, Out!Cancel,
     Out!Tick, Out!Flush, Out!SweepExpired, Out!FinishAck,
     Out!AckArrives, Out!elsewhere, Out!vars
<1>3. \A k \in Messages : Awaited(k)
  BY <1>2 DEF TimersOK
<1>4. SenderInv
  BY DEF SendingTypes
<1>5. ASSUME UNCHANGED msgs, tasks \subseteq tasks' PROVE \A k \in Messages : Awaited(k)'
  BY <1>3, <1>5, StillAwaited
<1>6. ASSUME NEW m \in Messages, Out!Send(m) PROVE \A k \in Messages : Awaited(k)'
  <2>1. msgs'[m].state = "created" /\ \A k \in Messages \ {m} : msgs'[k] = msgs[k]
    BY <1>4, <1>6 DEF Out!Send, SenderInv, Out!Record
  <2> DEFINE u == [by |-> "send", step |-> "enqueue", todo |-> {},
                   cur |-> [m |-> m, state |-> "created", retry |-> 0, lapsed |-> FALSE]]
  <2>2. u \in tasks' /\ tasks \subseteq tasks'
    BY <1>6 DEF Out!Send
  <2>3. u.step = "enqueue" /\ u.cur.m = m
    OBVIOUS
  <2> HIDE DEF u
  <2>4. Awaited(m)'
    BY <2>1, <2>2, <2>3 DEF Awaited, Starting
  <2>5. \A k \in Messages \ {m} : Awaited(k)'
    BY <1>3, <2>1, <2>2, StillAwaited
  <2> QED
    BY <2>4, <2>5
<1>7. ASSUME NEW m \in Messages, Out!TimerDue(m) \/ Out!Lapse(m)
      PROVE  \A k \in Messages : Awaited(k)'
  <2>1. \A k \in Messages : /\ msgs'[k].state = msgs[k].state
                            /\ msgs'[k].timer = "none" => msgs[k].timer = "none"
    BY <1>4, <1>7 DEF Out!TimerDue, Out!Lapse, SenderInv, Out!Record
  <2>2. tasks' = tasks
    BY <1>7 DEF Out!TimerDue, Out!Lapse
  <2> QED
    BY <1>3, <2>1, <2>2, StillAwaited
<1>8. ASSUME NEW t \in tasks, Out!Work(t) PROVE \A k \in Messages : Awaited(k)'
  BY <1>3, <1>8, WorkTimers
<1>9. ASSUME NEW s \in Senders,
             (\E w \in Sweepers : Out!Tick(w, s)) \/ Out!Flush(s) \/ Out!SweepExpired(s)
      PROVE  \A k \in Messages : Awaited(k)'
  BY <1>4, <1>5, <1>9, LoopsBegin
<1>10. ASSUME NEW h \in acking, Out!FinishAck(h) PROVE \A k \in Messages : Awaited(k)'
  <2>1. h.id.m \in Messages /\ tasks' = tasks
    BY <1>4, <1>10, SameData DEF SenderInv, Out!Handling, AckIds, Out!FinishAck
  <2>2. CASE UNCHANGED msgs
    BY <1>5, <2>1, <2>2
  <2>3. CASE Out!Write(h.id.m, "acknowledged", "none")
    <3>1. /\ msgs'[h.id.m].state = "acknowledged"
          /\ \A k \in Messages \ {h.id.m} : msgs'[k] = msgs[k]
      BY <1>4, <2>1, <2>3, WriteShape
    <3>2. Awaited(h.id.m)'
      BY <3>1 DEF Awaited
    <3>3. \A k \in Messages \ {h.id.m} : Awaited(k)'
      BY <1>3, <2>1, <3>1, StillAwaited
    <3> QED
      BY <3>2, <3>3
  <2> QED
    BY <1>10, <2>2, <2>3 DEF Out!FinishAck
<1>11. ASSUME NEW m \in Messages, Out!StartCancel(m) PROVE \A k \in Messages : Awaited(k)'
  BY <1>5, <1>11 DEF Out!StartCancel, Out!elsewhere
<1>12. ASSUME NEW a, Out!AckArrives(a) PROVE \A k \in Messages : Awaited(k)'
  BY <1>5, <1>12 DEF Out!AckArrives
<1>13. CASE UNCHANGED Out!vars
  BY <1>5, <1>13 DEF Out!vars
<1> QED
  BY <1>1, <1>6, <1>7, <1>8, <1>9, <1>10, <1>11, <1>12, <1>13, SameData
     DEF Out!Next, Out!LocalNext

(***************************************************************************)
(* The retries, with one retry tick at a time.                             *)
(***************************************************************************)
OneTick == \E w : Sweepers \subseteq {w}

\* The one sweep of a sender that decides about retries has a copy with the
\* stored number of retries of each message that is still on its list.
SweepsOK ==
  /\ \A t, u \in tasks :
       (t.by \in Sweepers /\ u.by \in Sweepers /\ t.cur.m.from = u.cur.m.from) => t = u
  /\ \A t \in tasks : t.step = "decide" =>
       t.by \in Sweepers /\ t.cur.retry = msgs[t.cur.m].retry
  /\ \A t \in tasks : t.by \in Sweepers =>
       \A c \in t.todo : /\ c.retry = msgs[c.m].retry
                         /\ c.m.from = t.cur.m.from /\ c.m # t.cur.m
                         /\ \A d \in t.todo : d.m = c.m => d = c

\* send and cancel work on one message; no two calls of send on the same one.
CallsOK ==
  /\ \A t \in tasks : t.by \in {"send", "cancel"} => t.todo = {}
  /\ \A t \in tasks : /\ t.step = "enqueue" => t.by = "send"
                      /\ t.by = "cancel" => t.step = "cancel"
                      /\ t.by = "expiry" => t.step = "expire"
  /\ \A t, u \in tasks : t.by = "send" /\ u.by = "send" /\ t.cur.m = u.cur.m => t = u

\* A message fails with all its retries used.
FailedOK == \A m \in Messages : msgs[m].state = "failed" => msgs[m].retry = MaxRetries

\* A handler that is going to hand the message to the transport, once more
\* than has been counted.
SendOwes(m) == \E t \in tasks :
  t.by = "send" /\ t.cur.m = m /\ t.step \in {"enqueue", "claim", "transmit"}
SweepOwes(m) == \E t \in tasks :
  t.by \in Sweepers /\ t.cur.m = m /\ t.step \in {"claim", "transmit"}

One(b) == IF b THEN 1 ELSE 0

\* The attempts made and those that are due: one of send and one for each
\* counted retry.
CountsOK == \A m \in Messages :
  attempts[m] + One(SendOwes(m)) + One(SweepOwes(m)) <= msgs[m].retry + One(Present(m))

\* What the assumption says of the names of handlers.
LEMMA Names ==
  /\ \A by \in Sweepers : by \notin {"send", "flush", "expiry", "cancel"}
  /\ \A by \in Sweepers : Out!FirstStep(by) = "decide"
  /\ Out!FirstStep("flush") = "claim" /\ Out!FirstStep("expiry") = "expire"
BY SendingAssumption DEF Out!OutboundAssumption, Out!FirstStep

\* How one step may change a handler: it goes on with its message, to some
\* other step than the decision, or it takes the next copy.
GoesOn(t, u) ==
  /\ t.step \in {"enqueue", "claim", "transmit", "transmitted", "threw", "decide"}
  /\ u.by = t.by /\ u.todo = t.todo /\ u.cur.m = t.cur.m
  /\ u.step \in {"claim", "transmit", "transmitted", "threw", "mark", "requeue"}
TakesNext(t, u) ==
  \E c \in t.todo : /\ u.by = t.by /\ u.cur = c /\ u.todo = t.todo \ {c}
                    /\ u.step = Out!FirstStep(t.by)

Moves(t) ==
  \/ tasks' = tasks \ {t}
  \/ \E u : Replaced(t, u) /\ (GoesOn(t, u) \/ TakesNext(t, u))

LEMMA AdvanceMoves ==
  ASSUME SenderInv, NEW t \in tasks, Out!Advance(t) PROVE Moves(t)
BY AdvanceShape DEF Moves, TakesNext

LEMMA BecomeMoves ==
  ASSUME SenderInv, NEW t \in tasks, NEW state,
         NEW step \in {"claim", "transmit", "transmitted", "threw", "mark", "requeue"},
         t.step \in {"enqueue", "claim", "transmit", "transmitted", "threw", "decide"},
         Out!Become(t, step, state)
  PROVE  Moves(t)
BY BecomeShape DEF Moves, GoesOn

RetriesKept == \A k \in Messages : msgs'[k].retry = msgs[k].retry

\* A handler's step on the number of retries: only the decision of a sweep
\* changes one, that of its own message.
LEMMA WorkShape ==
  ASSUME SendingTypes, SweepsOK, NEW t \in tasks, Out!Work(t)
  PROVE  /\ Moves(t)
         /\ \/ RetriesKept
            \/ /\ t.step = "decide" /\ t.cur.retry < MaxRetries
               /\ msgs'[t.cur.m].retry = msgs[t.cur.m].retry + 1
               /\ \A k \in Messages \ {t.cur.m} : msgs'[k].retry = msgs[k].retry
               /\ \A k \in Messages : msgs'[k].state = msgs[k].state
<1> USE DEF Out!elsewhere
<1>0. SenderInv /\ t.cur.m \in Messages
  BY TaskData DEF SendingTypes
<1>1. ASSUME NEW state, NEW timer, Out!Write(t.cur.m, state, timer) PROVE RetriesKept
  BY <1>0, <1>1, WriteShape DEF RetriesKept
<1>2. ASSUME UNCHANGED msgs PROVE RetriesKept
  BY <1>2 DEF RetriesKept
<1>3. CASE Out!Enqueue(t)
  BY <1>0, <1>1, <1>3, BecomeMoves DEF Out!Enqueue
<1>4. CASE Out!Claim(t)
  BY <1>0, <1>1, <1>4, BecomeMoves DEF Out!Claim
<1>5. CASE Out!Transmit(t)
  BY <1>0, <1>2, <1>5, BecomeMoves DEF Out!Transmit
<1>6. CASE Out!Reread(t)
  BY <1>0, <1>2, <1>6, BecomeMoves DEF Out!Reread
<1>7. CASE Out!Mark(t)
  <2>1. RetriesKept
    BY <1>1, <1>2, <1>7 DEF Out!Mark
  <2> QED
    BY <1>0, <1>7, <2>1, AdvanceMoves DEF Out!Mark
<1>8. ASSUME NEW state, Out!GiveUp(t, state) PROVE Moves(t) /\ RetriesKept
  BY <1>0, <1>1, <1>8, AdvanceMoves DEF Out!GiveUp
<1>9. CASE Out!Decide(t)
  <2>1. CASE Out!CountRetry(t) /\ t.cur.retry < MaxRetries
    <3>1. t.step = "decide" /\ t.cur.retry = msgs[t.cur.m].retry
      BY <1>9 DEF Out!Decide, SweepsOK
    <3>2. /\ msgs'[t.cur.m].retry = t.cur.retry + 1
          /\ \A k \in Messages : msgs'[k].state = msgs[k].state
          /\ \A k \in Messages \ {t.cur.m} : msgs'[k].retry = msgs[k].retry
          /\ \/ Out!Advance(t)
             \/ \E u : Replaced(t, u) /\ GoesOn(t, u)
      BY <1>0, <2>1, <3>1, CountShape DEF GoesOn
    <3>3. Moves(t)
      BY <1>0, <3>2, AdvanceMoves DEF Moves
    <3> QED
      BY <2>1, <3>1, <3>2, <3>3
  <2> QED
    BY <1>8, <1>9, <2>1 DEF Out!Decide
<1>10. CASE Out!Expire(t) \/ Out!Cancel(t)
  BY <1>8, <1>10 DEF Out!Expire, Out!Cancel
<1> QED
  BY <1>3, <1>4, <1>5, <1>6, <1>7, <1>9, <1>10 DEF Out!Work

\* A handler's step keeps the sweeps in order.
LEMMA WorkSweeps ==
  ASSUME SendingTypes, SweepsOK, NEW t \in tasks, Moves(t),
         \/ RetriesKept
         \/ /\ t.step = "decide"
            /\ \A k \in Messages \ {t.cur.m} : msgs'[k].retry = msgs[k].retry
  PROVE  SweepsOK'
<1>0. /\ \A x \in tasks : x.cur.m \in Messages /\ \A c \in x.todo : c.m \in Messages
      /\ \A x \in tasks : x.todo \subseteq Out!Copy
  <2>1. SenderInv
    BY DEF SendingTypes
  <2>2. \A x \in tasks : x \in Out!Task
    BY <2>1, TaskData
  <2> QED
    BY <2>2, SameData DEF Out!Task, Out!Copy
\* What the other handlers copied is still so.
<1>1. \A x \in tasks \ {t} :
        /\ x.step = "decide" => msgs'[x.cur.m].retry = msgs[x.cur.m].retry
        /\ x.by \in Sweepers => \A c \in x.todo : msgs'[c.m].retry = msgs[c.m].retry
  <2>1. CASE RetriesKept
    BY <1>0, <2>1 DEF RetriesKept
  <2>2. CASE /\ t.step = "decide"
             /\ \A k \in Messages \ {t.cur.m} : msgs'[k].retry = msgs[k].retry
    <3>1. t.by \in Sweepers
      BY <2>2 DEF SweepsOK
    <3>2. \A x \in tasks \ {t} : x.by \in Sweepers => x.cur.m.from # t.cur.m.from
      BY <3>1 DEF SweepsOK
    <3>3. \A x \in tasks \ {t} : x.by \in Sweepers =>
            x.cur.m # t.cur.m /\ \A c \in x.todo : c.m # t.cur.m
      BY <3>2 DEF SweepsOK
    <3>4. \A x \in tasks : x.step = "decide" => x.by \in Sweepers
      BY DEF SweepsOK
    <3> QED
      BY <1>0, <2>2, <3>3, <3>4
  <2> QED
    BY <2>1, <2>2
<1>2. t.by \in Sweepers => \A c \in t.todo : msgs'[c.m].retry = msgs[c.m].retry
  BY <1>0 DEF SweepsOK, RetriesKept
<1>3. CASE tasks' = tasks \ {t}
  BY <1>1, <1>3 DEF SweepsOK
<1>4. ASSUME NEW u, Replaced(t, u), GoesOn(t, u) PROVE SweepsOK'
  <2>1. tasks' = (tasks \ {t}) \cup {u} /\ u.step # "decide" /\ u.by = t.by
        /\ u.todo = t.todo /\ u.cur.m = t.cur.m
    BY <1>4 DEF Replaced, GoesOn
  <2>2. \A x, y \in tasks' :
          (x.by \in Sweepers /\ y.by \in Sweepers /\ x.cur.m.from = y.cur.m.from) => x = y
    BY <2>1 DEF SweepsOK
  <2>3. \A x \in tasks' : x.step = "decide" =>
          x.by \in Sweepers /\ x.cur.retry = msgs'[x.cur.m].retry
    BY <1>1, <2>1 DEF SweepsOK
  <2>4. \A x \in tasks' : x.by \in Sweepers =>
          \A c \in x.todo : /\ c.retry = msgs'[c.m].retry
                            /\ c.m.from = x.cur.m.from /\ c.m # x.cur.m
                            /\ \A d \in x.todo : d.m = c.m => d = c
    BY <1>1, <1>2, <2>1 DEF SweepsOK
  <2> QED
    BY <2>2, <2>3, <2>4 DEF SweepsOK
<1>5. ASSUME NEW u, Replaced(t, u), TakesNext(t, u) PROVE SweepsOK'
  <2>1. PICK c \in t.todo : /\ u.by = t.by /\ u.cur = c /\ u.todo = t.todo \ {c}
                            /\ u.step = Out!FirstStep(t.by)
    BY <1>5 DEF TakesNext
  <2>2. tasks' = (tasks \ {t}) \cup {u}
    BY <1>5 DEF Replaced
  <2>3. t.by \in Sweepers =>
          /\ c.m.from = t.cur.m.from /\ c.retry = msgs'[c.m].retry
          /\ \A d \in u.todo : d.m # c.m /\ d.m.from = t.cur.m.from
                               /\ d.retry = msgs'[d.m].retry
                               /\ \A e \in u.todo : e.m = d.m => e = d
    BY <1>2, <2>1 DEF SweepsOK
  <2>4. \A x, y \in tasks' :
          (x.by \in Sweepers /\ y.by \in Sweepers /\ x.cur.m.from = y.cur.m.from) => x = y
    BY <2>1, <2>2, <2>3 DEF SweepsOK
  <2>5. u.step = "decide" => u.by \in Sweepers
    <3>1. t \in Out!Task
      BY TaskData DEF SendingTypes
    <3>2. t.by \in Out!Workers
      BY <3>1 DEF Out!Task
    <3>3. \/ Out!FirstStep("send") # "decide" /\ Out!FirstStep("cancel") # "decide"
          \/ "send" \in Sweepers \/ "cancel" \in Sweepers
      BY DEF Out!FirstStep
    <3> QED
      BY <2>1, <3>2, <3>3, Names DEF Out!Workers
  <2>6. \A x \in tasks' : x.step = "decide" =>
          x.by \in Sweepers /\ x.cur.retry = msgs'[x.cur.m].retry
    BY <1>1, <2>1, <2>2, <2>3, <2>5 DEF SweepsOK
  <2>7. \A x \in tasks' : x.by \in Sweepers =>
          \A d \in x.todo : /\ d.retry = msgs'[d.m].retry
                            /\ d.m.from = x.cur.m.from /\ d.m # x.cur.m
                            /\ \A e \in x.todo : e.m = d.m => e = d
    BY <1>1, <2>1, <2>2, <2>3 DEF SweepsOK
  <2> QED
    BY <2>4, <2>6, <2>7 DEF SweepsOK
<1> QED
  BY <1>3, <1>4, <1>5 DEF Moves

\* A handler that is none of the sweeps begins, or handlers are gone.
LEMMA FewerSweeps ==
  ASSUME SendingTypes, SweepsOK, RetriesKept,
         \A x \in tasks' : x \in tasks \/ (x.by \notin Sweepers /\ x.step # "decide")
  PROVE  SweepsOK'
<1>1. \A x \in tasks : x.cur.m \in Messages /\ \A c \in x.todo : c.m \in Messages
  <2>1. \A x \in tasks : x \in Out!Task
    BY TaskData DEF SendingTypes
  <2> QED
    BY <2>1, SameData DEF Out!Task, Out!Copy
<1>2. \A x \in tasks : /\ msgs'[x.cur.m].retry = msgs[x.cur.m].retry
                       /\ \A c \in x.todo : msgs'[c.m].retry = msgs[c.m].retry
  BY <1>1 DEF RetriesKept
<1> QED
  BY <1>2 DEF SweepsOK

\* A sweep begins.
LEMMA SweepBegins ==
  ASSUME OneTick, SendingTypes, SweepsOK, NEW s \in Senders, UNCHANGED msgs,
         NEW by \in Sweepers \cup {"flush", "expiry"}, NEW S \in SUBSET Messages,
         ~ Out!Running(by, s),
         \A k \in S : k.from = s /\ Present(k),
         NEW m \in S, NEW u,
         tasks' = tasks \cup {u},
         u.by = by, u.step = Out!FirstStep(by),
         u.cur = Out!CopyOf(m),
         u.todo = {Out!CopyOf(k) : k \in S \ {m}}
  PROVE  SweepsOK'
<1>1. CASE by \notin Sweepers
  <2>1. u.step # "decide" /\ u.by \notin Sweepers
    BY <1>1, Names
  <2>2. RetriesKept
    BY DEF RetriesKept
  <2>3. \A x \in tasks' : x \in tasks \/ (x.by \notin Sweepers /\ x.step # "decide")
    BY <2>1
  <2> QED
    BY <2>2, <2>3, FewerSweeps
<1>2. CASE by \in Sweepers
  <2>1. \A k \in S : /\ Out!CopyOf(k).m = k /\ Out!CopyOf(k).retry = msgs[k].retry
                     /\ k.from = s
    BY DEF Out!CopyOf
  <2>2. \A x \in tasks : x.by \in Sweepers => x.cur.m.from # s
    BY <1>2 DEF OneTick, Out!Running
  <2>3. u.cur.m.from = s /\ u.cur.retry = msgs[u.cur.m].retry /\ u.cur.m = m
    BY <2>1
  <2>4. \A c \in u.todo : /\ c.retry = msgs[c.m].retry
                          /\ c.m.from = u.cur.m.from /\ c.m # u.cur.m
                          /\ \A d \in u.todo : d.m = c.m => d = c
    BY <2>1, <2>3
  <2> QED
    BY <1>2, <2>2, <2>3, <2>4 DEF SweepsOK
<1> QED
  BY <1>1, <1>2

\* Steps of others.
LEMMA OtherRetries ==
  ASSUME SendingTypes,
         \/ \E m \in Messages : Out!Send(m) \/ Out!StartCancel(m) \/ Out!TimerDue(m) \/ Out!Lapse(m)
         \/ \E s \in Senders : Out!Restart(s)
         \/ \E h \in acking : Out!FinishAck(h)
         \/ \E a : Out!AckArrives(a)
         \/ UNCHANGED Out!vars
  PROVE  RetriesKept
<1> USE DEF SendingTypes, SenderInv, Out!Record
<1>1. ASSUME NEW m \in Messages, Out!Send(m) PROVE RetriesKept
  BY <1>1 DEF RetriesKept, Out!Send
<1>2. ASSUME NEW m \in Messages, Out!TimerDue(m) \/ Out!Lapse(m) PROVE RetriesKept
  BY <1>2 DEF RetriesKept, Out!TimerDue, Out!Lapse
<1>3. ASSUME NEW h \in acking, Out!FinishAck(h) PROVE RetriesKept
  <2>1. h.id.m \in Messages
    BY SameData DEF Out!Handling, AckIds
  <2> QED
    BY <1>3, <2>1, WriteShape DEF RetriesKept, Out!FinishAck
<1>4. CASE UNCHANGED msgs
  BY <1>4 DEF RetriesKept
<1> QED
  BY <1>1, <1>2, <1>3, <1>4
     DEF Out!StartCancel, Out!Restart, Out!AckArrives, Out!vars, Out!elsewhere

LEMMA SweepsStep ==
  ASSUME OneTick, SendingTypes, SweepsOK, [Out!Next]_(Out!vars)
  PROVE  SweepsOK'
<1>1. ASSUME NEW t \in tasks, Out!Work(t) PROVE SweepsOK'
  BY <1>1, WorkShape, WorkSweeps
<1>2. ASSUME NEW s \in Senders,
             (\E w \in Sweepers : Out!Tick(w, s)) \/ Out!Flush(s) \/ Out!SweepExpired(s)
      PROVE  SweepsOK'
  <2>1. SenderInv
    BY DEF SendingTypes
  <2>2. UNCHANGED msgs
    BY <1>2, <2>1, LoopsBegin
  <2>3. PICK by \in Sweepers \cup {"flush", "expiry"}, S \in SUBSET Messages :
              /\ ~ Out!Running(by, s)
              /\ \A k \in S : k.from = s /\ Present(k)
              /\ \E m \in S : \E u :
                   /\ tasks' = tasks \cup {u}
                   /\ u.by = by /\ u.step = Out!FirstStep(by)
                   /\ u.cur = Out!CopyOf(m)
                   /\ u.todo = {Out!CopyOf(k) : k \in S \ {m}}
    BY <1>2, <2>1, LoopsBegin
  <2>4. PICK m \in S : \E u :
                   /\ tasks' = tasks \cup {u}
                   /\ u.by = by /\ u.step = Out!FirstStep(by)
                   /\ u.cur = Out!CopyOf(m)
                   /\ u.todo = {Out!CopyOf(k) : k \in S \ {m}}
    BY <2>3
  <2>5. PICK u :
          /\ tasks' = tasks \cup {u}
          /\ u.by = by /\ u.step = Out!FirstStep(by)
          /\ u.cur = Out!CopyOf(m)
          /\ u.todo = {Out!CopyOf(k) : k \in S \ {m}}
    BY <2>4
  <2> QED
    BY <2>2, <2>3, <2>5, SweepBegins
<1>3. ASSUME NEW m \in Messages, Out!Send(m) \/ Out!StartCancel(m)
      PROVE  SweepsOK'
  <2>1. RetriesKept
    BY <1>3, OtherRetries
  <2>2. \A x \in tasks' : x \in tasks \/ (x.by \notin Sweepers /\ x.step # "decide")
    BY <1>3, Names DEF Out!Send, Out!StartCancel
  <2> QED
    BY <2>1, <2>2, FewerSweeps
<1>4. ASSUME RetriesKept, tasks' \subseteq tasks PROVE SweepsOK'
  BY <1>4, FewerSweeps
<1>5. ASSUME \/ \E m \in Messages : Out!TimerDue(m) \/ Out!Lapse(m)
             \/ \E s \in Senders : Out!Restart(s)
             \/ \E h \in acking : Out!FinishAck(h)
             \/ \E a : Out!AckArrives(a)
             \/ UNCHANGED Out!vars
      PROVE SweepsOK'
  <2>1. tasks' \subseteq tasks
    BY <1>5 DEF Out!TimerDue, Out!Lapse, Out!Restart, Out!FinishAck, Out!AckArrives, Out!vars
  <2>2. RetriesKept
    BY <1>5, OtherRetries
  <2> QED
    BY <1>4, <2>1, <2>2
<1> QED
  BY <1>1, <1>2, <1>3, <1>5, SameData DEF Out!Next, Out!LocalNext

\* Only a decision on a copy without retries left makes a record FAILED.
LEMMA FailedStep ==
  ASSUME SendingTypes, SweepsOK, FailedOK, [Out!Next]_(Out!vars)
  PROVE  FailedOK'
<1>0. SenderInv
  BY DEF SendingTypes
<1>1. ASSUME RetriesKept,
             \A k \in Messages : msgs'[k].state = "failed" => msgs[k].state = "failed"
      PROVE  FailedOK'
  BY <1>1 DEF FailedOK, RetriesKept
<1>2. ASSUME NEW m \in Messages, NEW state, NEW timer, Out!Write(m, state, timer),
             state # "failed"
      PROVE  \A k \in Messages : msgs'[k].state = "failed" => msgs[k].state = "failed"
  BY <1>0, <1>2, WriteShape
<1>3. ASSUME NEW t \in tasks, Out!Work(t) PROVE FailedOK'
  <2>0. t.cur \in Out!Copy /\ t.cur.m \in Messages
    BY <1>0, TaskData
  <2>1. CASE RetriesKept
    <3>1. CASE t.step = "decide" /\ t.cur.retry >= MaxRetries /\ Out!GiveUp(t, "failed")
      <4>1. msgs[t.cur.m].retry = t.cur.retry
        BY <3>1 DEF SweepsOK
      <4>2. t.cur.retry \in 0..MaxRetries
        BY <2>0 DEF Out!Copy
      <4>3. MaxRetries \in Nat
        BY SendingAssumption DEF Out!OutboundAssumption
      <4>4. msgs'[t.cur.m].retry = MaxRetries
        BY <2>0, <2>1, <3>1, <4>1, <4>2, <4>3 DEF RetriesKept
      <4>5. \A k \in Messages \ {t.cur.m} : msgs'[k] = msgs[k]
        BY <1>0, <2>0, <3>1, WriteShape DEF Out!GiveUp
      <4> QED
        BY <4>4, <4>5 DEF FailedOK
    <3>2. ASSUME NEW state, NEW timer, state # "failed", Out!Write(t.cur.m, state, timer)
          PROVE  FailedOK'
      BY <1>1, <1>2, <2>0, <2>1, <3>2
    <3>3. CASE UNCHANGED msgs
      BY <1>1, <2>1, <3>3
    <3>4. CASE Out!CountRetry(t)
      <4>1. \A k \in Messages : msgs'[k].state = msgs[k].state
        BY <1>0, <3>4, CountShape
      <4> QED
        BY <1>1, <2>1, <4>1
    <3>5. CASE Out!Enqueue(t) \/ Out!Claim(t)
      BY <3>2, <3>5 DEF Out!Enqueue, Out!Claim
    <3>6. CASE Out!Transmit(t) \/ Out!Reread(t)
      BY <3>3, <3>6 DEF Out!Transmit, Out!Reread
    <3>7. CASE Out!Mark(t)
      <4>1. \/ UNCHANGED msgs
            \/ \E state \in {"sent", "queued"} : Out!Write(t.cur.m, state, "armed")
        BY <3>7 DEF Out!Mark
      <4> QED
        BY <3>2, <3>3, <4>1
    <3>8. CASE Out!Decide(t)
      <4>1. CASE Out!GiveUp(t, "expired")
        BY <3>2, <4>1 DEF Out!GiveUp
      <4> QED
        BY <3>1, <3>4, <3>8, <4>1 DEF Out!Decide
    <3>9. CASE Out!Expire(t) \/ Out!Cancel(t)
      BY <3>2, <3>9 DEF Out!Expire, Out!Cancel, Out!GiveUp
    <3> QED
      BY <1>3, <3>5, <3>6, <3>7, <3>8, <3>9 DEF Out!Work
  <2>2. CASE /\ t.step = "decide" /\ t.cur.retry < MaxRetries
             /\ \A k \in Messages \ {t.cur.m} : msgs'[k].retry = msgs[k].retry
             /\ \A k \in Messages : msgs'[k].state = msgs[k].state
    <3>1. msgs[t.cur.m].retry = t.cur.retry
      BY <2>2 DEF SweepsOK
    <3>2. t.cur.retry \in 0..MaxRetries /\ MaxRetries \in Nat
      BY <2>0, SendingAssumption DEF Out!Copy, Out!OutboundAssumption
    <3>3. msgs[t.cur.m].retry # MaxRetries
      BY <2>2, <3>1, <3>2
    <3>4. msgs[t.cur.m].state # "failed"
      BY <2>0, <3>3 DEF FailedOK
    <3> QED
      BY <2>2, <3>4 DEF FailedOK
  <2> QED
    BY <1>3, <2>1, <2>2, WorkShape
<1>4. ASSUME NEW s \in Senders,
             (\E w \in Sweepers : Out!Tick(w, s)) \/ Out!Flush(s) \/ Out!SweepExpired(s)
      PROVE  FailedOK'
  <2>1. UNCHANGED msgs
    BY <1>0, <1>4, LoopsBegin
  <2> QED
    BY <1>1, <2>1 DEF RetriesKept
<1>5. ASSUME \/ \E m \in Messages : Out!Send(m) \/ Out!StartCancel(m) \/ Out!TimerDue(m) \/ Out!Lapse(m)
             \/ \E s \in Senders : Out!Restart(s)
             \/ \E h \in acking : Out!FinishAck(h)
             \/ \E a : Out!AckArrives(a)
             \/ UNCHANGED Out!vars
      PROVE  FailedOK'
  <2>1. ASSUME NEW m \in Messages, Out!Send(m)
        PROVE  \A k \in Messages : msgs'[k].state = "failed" => msgs[k].state = "failed"
    BY <1>0, <2>1 DEF Out!Send, SenderInv, Out!Record
  <2>2. ASSUME NEW m \in Messages, Out!TimerDue(m) \/ Out!Lapse(m)
        PROVE  \A k \in Messages : msgs'[k].state = "failed" => msgs[k].state = "failed"
    BY <1>0, <2>2 DEF Out!TimerDue, Out!Lapse, SenderInv, Out!Record
  <2>3. ASSUME NEW h \in acking, Out!FinishAck(h)
        PROVE  \A k \in Messages : msgs'[k].state = "failed" => msgs[k].state = "failed"
    <3>1. h.id.m \in Messages
      BY <1>0, SameData DEF SenderInv, Out!Handling, AckIds
    <3> QED
      BY <1>2, <2>3, <3>1 DEF Out!FinishAck
  <2>4. \A k \in Messages : msgs'[k].state = "failed" => msgs[k].state = "failed"
    BY <1>5, <2>1, <2>2, <2>3
       DEF Out!StartCancel, Out!Restart, Out!AckArrives, Out!vars, Out!elsewhere
  <2>5. RetriesKept
    BY <1>5, OtherRetries
  <2> QED
    BY <1>1, <2>4, <2>5
<1> QED
  BY <1>3, <1>4, <1>5, SameData DEF Out!Next, Out!LocalNext

\* Which handlers there are, and at which steps.
LEMMA CallsStep ==
  ASSUME SendingTypes, SweepsOK, CallsOK, [Out!Next]_(Out!vars)
  PROVE  CallsOK'
<1>0. SenderInv
  BY DEF SendingTypes
<1>1. ASSUME tasks' \subseteq tasks PROVE CallsOK'
  BY <1>1 DEF CallsOK
<1>2. ASSUME NEW u, tasks' = tasks \cup {u},
             u.by \in {"send", "cancel"} => u.todo = {},
             u.step = "enqueue" => u.by = "send",
             u.by = "cancel" => u.step = "cancel",
             u.by = "expiry" => u.step = "expire",
             u.by = "send" => \A x \in tasks : x.cur.m # u.cur.m
      PROVE  CallsOK'
  <2>1. \A x \in tasks' : x \in tasks \/ x = u
    BY <1>2
  <2>2. \A x \in tasks' : x.by \in {"send", "cancel"} => x.todo = {}
    BY <1>2, <2>1 DEF CallsOK
  <2>3. \A x \in tasks' : /\ x.step = "enqueue" => x.by = "send"
                          /\ x.by = "cancel" => x.step = "cancel"
                          /\ x.by = "expiry" => x.step = "expire"
    BY <1>2, <2>1 DEF CallsOK
  <2>4. \A x, y \in tasks' : x.by = "send" /\ y.by = "send" /\ x.cur.m = y.cur.m => x = y
    BY <1>2, <2>1 DEF CallsOK
  <2> QED
    BY <2>2, <2>3, <2>4 DEF CallsOK
<1>3. ASSUME NEW m \in Messages, Out!Send(m) PROVE CallsOK'
  <2> DEFINE u == [by |-> "send", step |-> "enqueue", todo |-> {},
                   cur |-> [m |-> m, state |-> "created", retry |-> 0, lapsed |-> FALSE]]
  <2>1. tasks' = tasks \cup {u} /\ ~ Present(m)
    BY <1>3 DEF Out!Send, Present
  <2>2. u.by = "send" /\ u.step = "enqueue" /\ u.todo = {} /\ u.cur.m = m
    OBVIOUS
  <2> HIDE DEF u
  <2>3. \A x \in tasks : x.cur.m # u.cur.m
    BY <1>0, <2>1, <2>2 DEF SenderInv, TasksOK
  <2> QED
    BY <1>2, <2>1, <2>2, <2>3
<1>4. ASSUME NEW m \in Messages, Out!StartCancel(m) PROVE CallsOK'
  <2> DEFINE u == [by |-> "cancel", step |-> "cancel", cur |-> Out!CopyOf(m), todo |-> {}]
  <2>1. tasks' = tasks \cup {u}
    BY <1>4 DEF Out!StartCancel
  <2>2. u.by = "cancel" /\ u.step = "cancel" /\ u.todo = {}
    OBVIOUS
  <2> HIDE DEF u
  <2> QED
    BY <1>2, <2>1, <2>2
<1>5. ASSUME NEW s \in Senders,
             (\E w \in Sweepers : Out!Tick(w, s)) \/ Out!Flush(s) \/ Out!SweepExpired(s)
      PROVE  CallsOK'
  <2>1. PICK by \in Sweepers \cup {"flush", "expiry"} : \E u :
          tasks' = tasks \cup {u} /\ u.by = by /\ u.step = Out!FirstStep(by)
    BY <1>0, <1>5, LoopsBegin
  <2>1a. PICK u :
          tasks' = tasks \cup {u} /\ u.by = by /\ u.step = Out!FirstStep(by)
    BY <2>1
  <2>2. /\ u.by \notin {"send", "cancel"} /\ u.step # "enqueue"
        /\ u.by = "expiry" => u.step = "expire"
    BY <2>1a, Names
  <2> QED
    BY <1>2, <2>1a, <2>2
<1>6. ASSUME NEW t \in tasks, Out!Work(t) PROVE CallsOK'
  <2>1. Moves(t)
    BY <1>6, WorkShape
  <2>2. t.by \in Out!Workers
    <3>1. t \in Out!Task
      BY <1>0, TaskData
    <3> QED
      BY <3>1 DEF Out!Task
  <2>3. ASSUME NEW u, Replaced(t, u), GoesOn(t, u) PROVE CallsOK'
    <3>1. t.step \notin {"cancel", "expire"}
      BY <2>3 DEF GoesOn
    <3>2. t.by \notin {"cancel", "expiry"}
      BY <3>1 DEF CallsOK
    <3>3. /\ u.by = t.by /\ u.todo = t.todo /\ u.cur.m = t.cur.m /\ u.step # "enqueue"
      BY <2>3 DEF GoesOn
    <3>4. \A x \in tasks' : x \in tasks \ {t} \/ x = u
      BY <2>3 DEF Replaced
    <3>5. \A x \in tasks' : x.by \in {"send", "cancel"} => x.todo = {}
      BY <3>3, <3>4 DEF CallsOK
    <3>6. \A x \in tasks' : /\ x.step = "enqueue" => x.by = "send"
                            /\ x.by = "cancel" => x.step = "cancel"
                            /\ x.by = "expiry" => x.step = "expire"
      BY <3>2, <3>3, <3>4 DEF CallsOK
    <3>7. \A x, y \in tasks' : x.by = "send" /\ y.by = "send" /\ x.cur.m = y.cur.m => x = y
      BY <3>3, <3>4 DEF CallsOK
    <3> QED
      BY <3>5, <3>6, <3>7 DEF CallsOK
  <2>4. ASSUME NEW u, Replaced(t, u), TakesNext(t, u) PROVE CallsOK'
    <3>1. u.by = t.by /\ u.step = Out!FirstStep(t.by) /\ t.todo # {}
      BY <2>4 DEF TakesNext
    <3>2. t.by \notin {"send", "cancel"}
      BY <3>1 DEF CallsOK
    <3>3. u.step # "enqueue" /\ (u.by = "expiry" => u.step = "expire")
      BY <2>2, <3>1, <3>2, Names DEF Out!Workers
    <3>4. \A x \in tasks' : x \in tasks \/ x = u
      BY <2>4 DEF Replaced
    <3>5. \A x \in tasks' : x.by \in {"send", "cancel"} => x \in tasks
      BY <3>1, <3>2, <3>4
    <3>6. \A x \in tasks' : x.by \in {"send", "cancel"} => x.todo = {}
      BY <3>5 DEF CallsOK
    <3>7. \A x \in tasks' : /\ x.step = "enqueue" => x.by = "send"
                            /\ x.by = "cancel" => x.step = "cancel"
                            /\ x.by = "expiry" => x.step = "expire"
      BY <3>1, <3>2, <3>3, <3>4 DEF CallsOK
    <3>8. \A x, y \in tasks' : x.by = "send" /\ y.by = "send" /\ x.cur.m = y.cur.m => x = y
      BY <3>5 DEF CallsOK
    <3> QED
      BY <3>6, <3>7, <3>8 DEF CallsOK
  <2> QED
    BY <1>1, <2>1, <2>3, <2>4 DEF Moves
<1>7. ASSUME \/ \E m \in Messages : Out!TimerDue(m) \/ Out!Lapse(m)
             \/ \E s \in Senders : Out!Restart(s)
             \/ \E h \in acking : Out!FinishAck(h)
             \/ \E a : Out!AckArrives(a)
             \/ UNCHANGED Out!vars
      PROVE CallsOK'
  <2>1. tasks' \subseteq tasks
    BY <1>7 DEF Out!TimerDue, Out!Lapse, Out!Restart, Out!FinishAck, Out!AckArrives, Out!vars
  <2> QED
    BY <1>1, <2>1
<1> QED
  BY <1>3, <1>4, <1>5, <1>6, <1>7, SameData DEF Out!Next, Out!LocalNext

\* The balance of one message.
Counted(k) ==
  attempts[k] + One(SendOwes(k)) + One(SweepOwes(k)) <= msgs[k].retry + One(Present(k))

\* It only gets better.
LEMMA StillCounted ==
  ASSUME SendingTypes, SendingTypes', NEW k \in Messages, Counted(k),
         attempts'[k] = attempts[k], SendOwes(k)' => SendOwes(k),
         SweepOwes(k)' => SweepOwes(k), msgs'[k].retry = msgs[k].retry,
         Present(k) => Present(k)'
  PROVE  Counted(k)'
<1>1. attempts[k] \in Nat /\ msgs[k].retry \in Nat
  <2>1. MaxRetries \in Nat
    BY SendingAssumption DEF Out!OutboundAssumption
  <2>2. attempts[k] \in Nat
    BY <2>1 DEF SendingTypes, Out!AttemptCap
  <2>3. msgs[k].retry \in Nat
    BY <2>1 DEF SendingTypes, SenderInv, Out!Record
  <2> QED
    BY <2>2, <2>3
<1> DEFINE a == attempts[k]
           r == msgs[k].retry
<1>2. a + One(SendOwes(k)) + One(SweepOwes(k)) <= r + One(Present(k))
  BY DEF Counted
<1>3. One(SendOwes(k)') <= One(SendOwes(k)) /\ One(SendOwes(k)) \in {0, 1}
      /\ One(SendOwes(k)') \in {0, 1}
  BY DEF One
<1>4. One(SweepOwes(k)') <= One(SweepOwes(k)) /\ One(SweepOwes(k)) \in {0, 1}
      /\ One(SweepOwes(k)') \in {0, 1}
  BY DEF One
<1>5. One(Present(k)) <= One(Present(k)') /\ One(Present(k)) \in {0, 1}
      /\ One(Present(k)') \in {0, 1}
  BY DEF One
<1>6. a + One(SendOwes(k)') + One(SweepOwes(k)') <= r + One(Present(k)')
  BY <1>1, <1>2, <1>3, <1>4, <1>5
<1>7. One(SendOwes(k)') = One(SendOwes(k))' /\ One(SweepOwes(k)') = One(SweepOwes(k))'
      /\ One(Present(k)') = One(Present(k))'
  BY DEF One
<1> QED
  BY <1>6, <1>7 DEF Counted

\* Whose turn it is: a handler's step moves no one else's.
LEMMA OwesElsewhere ==
  ASSUME SendingTypes, CallsOK, NEW t \in tasks, Moves(t), NEW k, k # t.cur.m
  PROVE  (SendOwes(k)' => SendOwes(k)) /\ (SweepOwes(k)' => SweepOwes(k))
<1>1. \A x \in tasks' : x \in tasks \/ x.cur.m = t.cur.m
        \/ (x.by \notin {"send", "cancel"} /\ x.by = t.by /\ x.step = Out!FirstStep(t.by))
  BY DEF Moves, Replaced, GoesOn, TakesNext, CallsOK
<1>2. ASSUME SendOwes(k)' PROVE SendOwes(k)
  <2>1. PICK x \in tasks' : x.by = "send" /\ x.cur.m = k /\ x.step \in {"enqueue", "claim", "transmit"}
    BY <1>2 DEF SendOwes
  <2>2. x \in tasks
    BY <1>1, <2>1
  <2> QED
    BY <2>1, <2>2 DEF SendOwes
<1>3. ASSUME SweepOwes(k)' PROVE SweepOwes(k)
  <2>1. PICK x \in tasks' : x.by \in Sweepers /\ x.cur.m = k /\ x.step \in {"claim", "transmit"}
    BY <1>3 DEF SweepOwes
  <2>2. x \in tasks
    BY <1>1, <2>1, Names
  <2> QED
    BY <2>1, <2>2 DEF SweepOwes
<1> QED
  BY <1>2, <1>3

\* The handler ends with its message, or waits for something else.
LEMMA OwesLess ==
  ASSUME SendingTypes, SweepsOK, CallsOK, NEW t \in tasks, Moves(t), NEW k,
         \A u : Replaced(t, u) /\ GoesOn(t, u) =>
                /\ u.step \in {"claim", "transmit"} => t.step \in {"enqueue", "claim"}
                /\ t.step = "enqueue" => u.by \notin Sweepers
  PROVE  (SendOwes(k)' => SendOwes(k)) /\ (SweepOwes(k)' => SweepOwes(k))
<1>1. ASSUME NEW x \in tasks', x \notin tasks, x.step \in {"enqueue", "claim", "transmit"},
             x.by \in Sweepers \cup {"send"}
      PROVE  /\ t.cur.m = x.cur.m /\ t.by = x.by
             /\ t.step \in {"enqueue", "claim"}
             /\ t.step = "enqueue" => x.by \notin Sweepers
  <2>1. Replaced(t, x) /\ (GoesOn(t, x) \/ TakesNext(t, x))
    BY <1>1 DEF Moves, Replaced
  <2>2. CASE GoesOn(t, x)
    BY <1>1, <2>1, <2>2 DEF GoesOn
  <2>3. ~ TakesNext(t, x)
    <3> SUFFICES ASSUME TakesNext(t, x) PROVE FALSE
      OBVIOUS
    <3>1. t.todo # {} /\ x.by = t.by /\ x.step = Out!FirstStep(t.by)
      BY DEF TakesNext
    <3>2. t.by \in Sweepers
      BY <1>1, <3>1 DEF CallsOK
    <3> QED
      BY <1>1, <3>1, <3>2, Names
  <2> QED
    BY <2>1, <2>2, <2>3
<1>2. ASSUME SendOwes(k)' PROVE SendOwes(k)
  <2>1. PICK x \in tasks' : x.by = "send" /\ x.cur.m = k /\ x.step \in {"enqueue", "claim", "transmit"}
    BY <1>2 DEF SendOwes
  <2> QED
    BY <1>1, <2>1 DEF SendOwes
<1>3. ASSUME SweepOwes(k)' PROVE SweepOwes(k)
  <2>1. PICK x \in tasks' : x.by \in Sweepers /\ x.cur.m = k /\ x.step \in {"claim", "transmit"}
    BY <1>3 DEF SweepOwes
  <2> QED
    BY <1>1, <2>1 DEF SweepOwes
<1> QED
  BY <1>2, <1>3

\* A hand-over to the transport uses up what the handler owed.
LEMMA TransmitCounted ==
  ASSUME SendingTypes, SendingTypes', SweepsOK, CallsOK, CountsOK,
         NEW t \in tasks, Out!Transmit(t)
  PROVE  CountsOK'
<1> DEFINE m == t.cur.m
           S == SendOwes(m)
           W == SweepOwes(m)
<1>0. SenderInv /\ m \in Messages /\ UNCHANGED msgs /\ t.step = "transmit"
  BY TaskData DEF SendingTypes, Out!Transmit
<1>1. PICK u : Replaced(t, u) /\ u.by = t.by /\ u.step \in {"transmitted", "threw"}
               /\ u.cur.m = m /\ u.todo = t.todo
  <2>1. PICK step \in {"transmitted", "threw"} : Out!Become(t, step, "sending")
    BY DEF Out!Transmit
  <2> QED
    BY <1>0, <2>1, BecomeShape
<1>2. Moves(t)
  BY <1>0, <1>1 DEF Moves, GoesOn
<1>3. \A x \in tasks' : x \in tasks \/ x.step \in {"transmitted", "threw"}
  BY <1>1 DEF Replaced
<1>4. (S' => S) /\ (W' => W)
  BY <1>3 DEF SendOwes, SweepOwes
<1>5. \A k \in Messages \ {m} : Counted(k)'
  <2> SUFFICES ASSUME NEW k \in Messages \ {m} PROVE Counted(k)'
    OBVIOUS
  <2>1. attempts'[k] = attempts[k]
    BY <1>0 DEF Out!Transmit, SendingTypes
  <2>2. Counted(k) /\ k \in Messages /\ k # t.cur.m
    BY DEF CountsOK, Counted
  <2>3. (SendOwes(k)' => SendOwes(k)) /\ (SweepOwes(k)' => SweepOwes(k))
    BY <1>2, <2>2, OwesElsewhere
  <2>4. msgs'[k].retry = msgs[k].retry /\ (Present(k) => Present(k)')
    BY <1>0 DEF Present
  <2> QED
    BY <2>1, <2>2, <2>3, <2>4, StillCounted
<1>6. Counted(m)
  BY <1>0 DEF CountsOK, Counted
<1>7. Counted(m)'
  <2>1. CASE t.by \in {"flush", "cancel", "expiry"}
    <3>1. attempts'[m] = attempts[m]
      <4>1. t.by = "flush"
        BY <1>0, <2>1 DEF CallsOK
      <4> QED
        BY <1>0, <4>1 DEF Out!Transmit, SendingTypes
    <3> QED
      BY <1>0, <1>4, <1>6, <3>1, StillCounted DEF Present
  <2>2. CASE t.by \in Sweepers \cup {"send"}
    <3> DEFINE a == attempts[m]
               b == attempts'[m]
    <3>1. b = a \/ b = a + 1
      BY <1>0 DEF Out!Transmit, SendingTypes
    <3>2. a \in Nat /\ b \in Nat /\ msgs[m].retry \in Nat
      <4>1. MaxRetries \in Nat
        BY SendingAssumption DEF Out!OutboundAssumption
      <4> QED
        BY <1>0, <4>1 DEF SendingTypes, Out!AttemptCap, SenderInv, Out!Record
    <3>3. \/ t.by = "send" /\ S /\ ~ S'
          \/ t.by \in Sweepers /\ W /\ ~ W'
      <4>1. CASE t.by = "send"
        <5>1. S
          BY <1>0, <4>1 DEF SendOwes
        <5>2. \A x \in tasks' : x.by = "send" /\ x.cur.m = m => x = u
          BY <1>1, <4>1 DEF Replaced, CallsOK
        <5> QED
          BY <1>1, <4>1, <5>1, <5>2 DEF SendOwes
      <4>2. CASE t.by \in Sweepers
        <5>1. W
          BY <1>0, <4>2 DEF SweepOwes
        <5>2. \A x \in tasks' : x.by \in Sweepers /\ x.cur.m = m => x = u
          BY <1>1, <4>2 DEF Replaced, SweepsOK
        <5> QED
          BY <1>1, <4>2, <5>1, <5>2 DEF SweepOwes
      <4> QED
        BY <2>2, <4>1, <4>2
    <3>4. One(S') + One(W') + 1 <= One(S) + One(W)
      BY <1>4, <3>3 DEF One
    <3>5. One(S) \in {0, 1} /\ One(W) \in {0, 1} /\ One(S') \in {0, 1} /\ One(W') \in {0, 1}
          /\ One(Present(m)) \in {0, 1}
      BY DEF One
    <3>6. a + One(S) + One(W) <= msgs[m].retry + One(Present(m))
      BY <1>6 DEF Counted
    <3> HIDE DEF a, b, S, W
    <3>7. b + One(S') + One(W') <= msgs[m].retry + One(Present(m))
      BY <3>1, <3>2, <3>4, <3>5, <3>6
    <3>8. One(Present(m))' = One(Present(m)) /\ msgs'[m].retry = msgs[m].retry
      BY <1>0 DEF Present, One
    <3> QED
      BY <3>7, <3>8 DEF Counted, a, b, S, W, One
  <2>3. t.by \in Out!Workers
    <3>1. t \in Out!Task
      BY <1>0, TaskData
    <3> QED
      BY <3>1 DEF Out!Task
  <2> QED
    BY <2>1, <2>2, <2>3 DEF Out!Workers
<1> QED
  BY <1>5, <1>7 DEF CountsOK, Counted

\* A counted retry pays for the attempt that follows.
LEMMA CountCounted ==
  ASSUME SendingTypes, SendingTypes', SweepsOK, CallsOK, CountsOK,
         NEW t \in tasks, t.step = "decide", Out!CountRetry(t), Moves(t),
         UNCHANGED attempts
  PROVE  CountsOK'
<1> DEFINE m == t.cur.m
           S == SendOwes(m)
           W == SweepOwes(m)
<1>0. /\ SenderInv /\ m \in Messages
      /\ t.by \in Sweepers /\ t.cur.retry = msgs[m].retry
  BY TaskData DEF SendingTypes, SweepsOK
<1>1. /\ msgs'[m].retry = msgs[m].retry + 1
      /\ \A k \in Messages : msgs'[k].state = msgs[k].state
      /\ \A k \in Messages \ {m} : msgs'[k] = msgs[k]
  BY <1>0, CountShape
<1>2. \A k \in Messages : Counted(k)
  BY DEF CountsOK, Counted
<1>3. \A k \in Messages \ {m} : Counted(k)'
  <2> SUFFICES ASSUME NEW k \in Messages \ {m} PROVE Counted(k)'
    OBVIOUS
  <2>1. k \in Messages /\ k # t.cur.m
    OBVIOUS
  <2>2. (SendOwes(k)' => SendOwes(k)) /\ (SweepOwes(k)' => SweepOwes(k))
    BY <2>1, OwesElsewhere
  <2>3. msgs'[k].retry = msgs[k].retry /\ (Present(k) => Present(k)')
    BY <1>1 DEF Present
  <2> QED
    BY <1>2, <2>1, <2>2, <2>3, StillCounted
<1>4. S' => S
  <2>1. \A x \in tasks' : x.by = "send" => x \in tasks
    BY <1>0, Names DEF Moves, Replaced, GoesOn, TakesNext
  <2> QED
    BY <2>1 DEF SendOwes
<1>5. Counted(m)'
  <2> DEFINE a == attempts[m]
             r == msgs[m].retry
  <2>1. a \in Nat /\ r \in Nat
    <3>1. MaxRetries \in Nat
      BY SendingAssumption DEF Out!OutboundAssumption
    <3> QED
      BY <1>0, <3>1 DEF SendingTypes, Out!AttemptCap, SenderInv, Out!Record
  <2>2. a + One(S) + One(W) <= r + One(Present(m))
    BY <1>0, <1>2 DEF Counted
  <2>3. One(S') <= One(S) /\ One(S) \in {0, 1} /\ One(W) \in {0, 1} /\ One(S') \in {0, 1}
        /\ One(W') \in {0, 1} /\ One(Present(m)) \in {0, 1}
    BY <1>4 DEF One
  <2>4. One(Present(m))' = One(Present(m)) /\ msgs'[m].retry = r + 1 /\ attempts'[m] = a
    BY <1>0, <1>1 DEF Present, One
  <2> HIDE DEF a, r, S, W
  <2>5. a + One(S') + One(W') <= (r + 1) + One(Present(m))
    BY <2>1, <2>2, <2>3
  <2> QED
    BY <2>4, <2>5 DEF Counted, S, W, One
<1> QED
  BY <1>3, <1>5 DEF CountsOK, Counted

LEMMA CountsStep ==
  ASSUME SendingTypes, SendingTypes', SweepsOK, CallsOK, CountsOK, [Out!Next]_(Out!vars)
  PROVE  CountsOK'
<1>0. SenderInv /\ \A k \in Messages : Counted(k)
  BY DEF SendingTypes, CountsOK, Counted
<1>1. ASSUME UNCHANGED attempts, RetriesKept,
             \A k \in Messages : Present(k) => Present(k)',
             \A k \in Messages : (SendOwes(k)' => SendOwes(k)) /\ (SweepOwes(k)' => SweepOwes(k))
      PROVE  CountsOK'
  <2>1. \A k \in Messages : Counted(k)'
    BY <1>0, <1>1, StillCounted DEF RetriesKept
  <2> QED
    BY <2>1 DEF CountsOK, Counted
<1>2. ASSUME \A x \in tasks' : \/ x \in tasks
                               \/ x.by # "send" /\ x.step \notin {"claim", "transmit"}
                               \/ x.by \notin Sweepers \cup {"send"}
      PROVE  \A k \in Messages : (SendOwes(k)' => SendOwes(k)) /\ (SweepOwes(k)' => SweepOwes(k))
  BY <1>2 DEF SendOwes, SweepOwes
<1>p. \A k \in Messages : Present(k) => Present(k)'
  <2>1. CASE Out!LocalNext
    <3>1. MaxRetries \in Nat /\ restarts \in Nat
      <4>1. MaxRetries \in Nat /\ MaxRestarts \in Nat
        BY SendingAssumption DEF Out!OutboundAssumption
      <4> QED
        BY <4>1 DEF SendingTypes
    <3> QED
      BY <1>0, <2>1, <3>1, LocalOK DEF Keeps
  <2>2. CASE UNCHANGED msgs
    BY <2>2 DEF Present
  <2> QED
    BY <2>1, <2>2 DEF Out!Next, Out!AckArrives, Out!vars
<1>3. ASSUME NEW m \in Messages, Out!Send(m) PROVE CountsOK'
  <2> DEFINE u == [by |-> "send", step |-> "enqueue", todo |-> {},
                   cur |-> [m |-> m, state |-> "created", retry |-> 0, lapsed |-> FALSE]]
  <2>1. /\ tasks' = tasks \cup {u} /\ ~ Present(m) /\ UNCHANGED attempts
        /\ msgs' = [msgs EXCEPT ![m].state = "created"]
    BY <1>3 DEF Out!Send, Present, Out!elsewhere
  <2>2. u.by = "send" /\ u.step = "enqueue" /\ u.todo = {} /\ u.cur.m = m
    OBVIOUS
  <2> HIDE DEF u
  <2>3. RetriesKept
    BY <1>3, OtherRetries
  <2>4. \A k \in Messages \ {m} : Counted(k)'
    <3>1. \A k \in Messages \ {m} : (SendOwes(k)' => SendOwes(k)) /\ (SweepOwes(k)' => SweepOwes(k))
      BY <2>1, <2>2 DEF SendOwes, SweepOwes
    <3> QED
      BY <1>0, <1>p, <2>1, <2>3, <3>1, StillCounted DEF RetriesKept
  <2>5. Counted(m)'
    <3>1. ~ SendOwes(m) /\ ~ SweepOwes(m) /\ ~ SweepOwes(m)'
      <4>1. \A x \in tasks : x.cur.m # m
        BY <1>0, <2>1 DEF SenderInv, TasksOK
      <4> QED
        BY <2>1, <2>2, <4>1, Names DEF SendOwes, SweepOwes
    <3>2. Present(m)'
      BY <1>0, <2>1 DEF SenderInv, Out!Record, Present
    <3>3. attempts[m] \in Nat /\ msgs[m].retry \in Nat
      <4>1. MaxRetries \in Nat
        BY SendingAssumption DEF Out!OutboundAssumption
      <4> QED
        BY <4>1 DEF SendingTypes, Out!AttemptCap, SenderInv, Out!Record
    <3>4. attempts[m] <= msgs[m].retry
      BY <1>0, <2>1, <3>1, <3>3 DEF Counted, One
    <3>5. One(SendOwes(m)') \in {0, 1} /\ One(SweepOwes(m)') = 0 /\ One(Present(m)') = 1
      BY <3>1, <3>2 DEF One
    <3>6. attempts[m] + One(SendOwes(m)') + One(SweepOwes(m)') <= msgs[m].retry + One(Present(m)')
      BY <3>3, <3>4, <3>5
    <3>7. msgs'[m].retry = msgs[m].retry
      BY <2>3 DEF RetriesKept
    <3> QED
      BY <2>1, <3>6, <3>7 DEF Counted, One
  <2> QED
    BY <2>4, <2>5 DEF CountsOK, Counted
<1>4. ASSUME NEW t \in tasks, Out!Work(t) PROVE CountsOK'
  <2>0. Moves(t) /\ t.cur.m \in Messages
    BY <1>0, <1>4, WorkShape, TaskData
  <2>1. CASE Out!Transmit(t)
    BY <2>1, TransmitCounted
  <2>2. CASE t.step = "decide" /\ Out!CountRetry(t) /\ UNCHANGED attempts
    BY <2>0, <2>2, CountCounted
  <2>3. CASE /\ ~ Out!Transmit(t) /\ ~ (t.step = "decide" /\ Out!CountRetry(t))
             /\ UNCHANGED attempts
    <3>1. ASSUME NEW step, NEW state, Out!Become(t, step, state), NEW u,
                 Replaced(t, u), u \notin tasks
          PROVE  u.step = step
      <4>1. PICK v : Replaced(t, v) /\ v.step = step
        BY <1>0, <3>1, BecomeShape
      <4> QED
        BY <3>1, <4>1 DEF Replaced
    <3>2. RetriesKept
      BY <1>0, <1>4, <2>0, <2>3, WriteShape
         DEF RetriesKept, Out!Work, Out!Enqueue, Out!Claim, Out!Reread, Out!Mark,
             Out!Decide, Out!GiveUp, Out!Expire, Out!Cancel
    <3>3. \A k \in Messages : (SendOwes(k)' => SendOwes(k)) /\ (SweepOwes(k)' => SweepOwes(k))
      <4>1. CASE Out!Enqueue(t)
        <5>1. t.step = "enqueue" /\ t.by = "send"
          BY <4>1 DEF Out!Enqueue, CallsOK
        <5>2. \A u : Replaced(t, u) /\ GoesOn(t, u) =>
                /\ u.step \in {"claim", "transmit"} => t.step \in {"enqueue", "claim"}
                /\ t.step = "enqueue" => u.by \notin Sweepers
          BY <5>1, Names DEF GoesOn
        <5> QED
          BY <2>0, <5>2, OwesLess
      <4>2. CASE Out!Claim(t)
        <5>1. \A u : Replaced(t, u) /\ GoesOn(t, u) =>
                /\ u.step \in {"claim", "transmit"} => t.step \in {"enqueue", "claim"}
                /\ t.step = "enqueue" => u.by \notin Sweepers
          BY <4>2 DEF Out!Claim
        <5> QED
          BY <2>0, <5>1, OwesLess
      <4>3. CASE Out!Reread(t)
        <5>1. PICK step \in {"mark", "requeue"} : Out!Become(t, step, msgs[t.cur.m].state)
          BY <4>3 DEF Out!Reread
        <5>2. \A x \in tasks' : x \in tasks \/ x.step \in {"mark", "requeue"}
          BY <1>0, <5>1, BecomeShape DEF Replaced
        <5> QED
          BY <5>2 DEF SendOwes, SweepOwes
      <4>4. CASE Out!Advance(t)
        <5>1. \A x \in tasks' : \/ x \in tasks
                                \/ /\ x.by = t.by /\ x.step = Out!FirstStep(t.by)
                                   /\ t.todo # {}
          BY <1>0, <4>4, AdvanceShape DEF Replaced
        <5>2. \A x \in tasks' : \/ x \in tasks
                                \/ x.by # "send" /\ x.step \notin {"claim", "transmit"}
                                \/ x.by \notin Sweepers \cup {"send"}
          BY <5>1, Names DEF CallsOK
        <5> QED
          BY <1>2, <5>2
      <4> QED
        BY <1>4, <2>3, <4>1, <4>2, <4>3, <4>4
           DEF Out!Work, Out!Mark, Out!Decide, Out!GiveUp, Out!Expire, Out!Cancel
    <3> QED
      BY <1>1, <1>p, <2>3, <3>2, <3>3
  <2>4. Out!Transmit(t) \/ UNCHANGED attempts
    BY <1>4 DEF Out!Work, Out!Enqueue, Out!Claim, Out!Reread, Out!Mark, Out!Decide,
         Out!Expire, Out!Cancel, Out!elsewhere
  <2> QED
    BY <2>1, <2>2, <2>3, <2>4
<1>5. ASSUME NEW s \in Senders,
             (\E w \in Sweepers : Out!Tick(w, s)) \/ Out!Flush(s) \/ Out!SweepExpired(s)
      PROVE  CountsOK'
  <2>1. UNCHANGED <<msgs, attempts>>
    BY <1>0, <1>5, LoopsBegin
  <2>2. PICK by \in Sweepers \cup {"flush", "expiry"} : \E u :
          tasks' = tasks \cup {u} /\ u.by = by /\ u.step = Out!FirstStep(by)
    BY <1>0, <1>5, LoopsBegin
  <2>2a. PICK u :
          tasks' = tasks \cup {u} /\ u.by = by /\ u.step = Out!FirstStep(by)
    BY <2>2
  <2>3. \A x \in tasks' : \/ x \in tasks
                          \/ x.by # "send" /\ x.step \notin {"claim", "transmit"}
                          \/ x.by \notin Sweepers \cup {"send"}
    BY <2>2a, Names
  <2>4. RetriesKept
    BY <2>1 DEF RetriesKept
  <2> QED
    BY <1>1, <1>2, <1>p, <2>1, <2>3, <2>4
<1>6. ASSUME NEW m \in Messages, Out!StartCancel(m) PROVE CountsOK'
  <2>1. \A x \in tasks' : x \in tasks \/ x.by = "cancel"
    BY <1>6 DEF Out!StartCancel
  <2>2. \A x \in tasks' : \/ x \in tasks
                          \/ x.by # "send" /\ x.step \notin {"claim", "transmit"}
                          \/ x.by \notin Sweepers \cup {"send"}
    BY <2>1, Names
  <2>3. RetriesKept /\ UNCHANGED attempts
    BY <1>6, OtherRetries DEF Out!StartCancel, Out!elsewhere
  <2> QED
    BY <1>1, <1>2, <1>p, <2>2, <2>3
<1>7. ASSUME \/ \E m \in Messages : Out!TimerDue(m) \/ Out!Lapse(m)
             \/ \E s \in Senders : Out!Restart(s)
             \/ \E h \in acking : Out!FinishAck(h)
             \/ \E a : Out!AckArrives(a)
             \/ UNCHANGED Out!vars
      PROVE CountsOK'
  <2>1. tasks' \subseteq tasks /\ UNCHANGED attempts
    BY <1>7 DEF Out!TimerDue, Out!Lapse, Out!Restart, Out!FinishAck, Out!AckArrives, Out!vars
  <2>2. RetriesKept
    BY <1>7, OtherRetries
  <2> QED
    BY <1>1, <1>2, <1>p, <2>1, <2>2
<1> QED
  BY <1>3, <1>4, <1>5, <1>6, <1>7, SameData DEF Out!Next, Out!LocalNext

(***************************************************************************)
(* The theorems about the sending side.                                    *)
(***************************************************************************)
SendingInv == SendingTypes /\ QueueOK /\ TimersOK
SweepingInv == SendingInv /\ SweepsOK /\ CallsOK /\ FailedOK /\ CountsOK

\* In the beginning nothing is stored and nothing runs.
LEMMA SendingBegins == Out!Init => SendingInv /\ SweepingInv
<1> SUFFICES ASSUME Out!Init PROVE SweepingInv
  BY DEF SweepingInv
<1> USE DEF Out!Init
<1>0. MaxRetries \in Nat /\ MaxRestarts \in Nat
  BY SendingAssumption DEF Out!OutboundAssumption
<1>1. /\ msgs \in [Messages -> Out!Record]
      /\ \A m \in Messages : msgs[m].state = "absent" /\ msgs[m].retry = 0
  BY <1>0, SameData DEF Out!Fresh, Out!Record
<1>2. SendingTypes
  BY <1>0, <1>1, SameData DEF SendingTypes, SenderInv, TasksOK, Out!AttemptCap
<1>3. QueueOK /\ TimersOK
  BY <1>1 DEF QueueOK, TimersOK, Awaited
<1>4. SweepsOK /\ CallsOK /\ FailedOK
  BY <1>1 DEF SweepsOK, CallsOK, FailedOK
<1>5. CountsOK
  <2>1. \A m \in Messages : ~ SendOwes(m) /\ ~ SweepOwes(m) /\ ~ Present(m)
    BY <1>1 DEF SendOwes, SweepOwes, Present
  <2>2. \A m \in Messages : attempts[m] = 0 /\ msgs[m].retry = 0
    BY <1>1, SameData
  <2> QED
    BY <2>1, <2>2 DEF CountsOK, One
<1> QED
  BY <1>2, <1>3, <1>4, <1>5 DEF SendingInv, SweepingInv

LEMMA SendingKeeps == Out!Spec => []SendingInv
<1>1. SendingInv /\ [Out!Next]_(Out!vars) => SendingInv'
  BY SendingTypesStep, QueueStep, TimersStep DEF SendingInv
<1> QED
  BY <1>1, SendingBegins, PTL DEF Out!Spec

LEMMA SweepingKeeps == ASSUME OneTick PROVE Out!Spec => []SweepingInv
<1>1. SweepingInv /\ [Out!Next]_(Out!vars) => SweepingInv'
  <2> SUFFICES ASSUME SweepingInv, [Out!Next]_(Out!vars) PROVE SweepingInv'
    OBVIOUS
  <2>1. SendingInv'
    BY SendingTypesStep, QueueStep, TimersStep DEF SweepingInv, SendingInv
  <2>2. SendingTypes /\ SendingTypes' /\ SweepsOK /\ CallsOK /\ FailedOK /\ CountsOK
    BY <2>1 DEF SweepingInv, SendingInv
  <2>3. SweepsOK' /\ CallsOK' /\ FailedOK' /\ CountsOK'
    BY <2>2, SweepsStep, CallsStep, FailedStep, CountsStep
  <2> QED
    BY <2>1, <2>3 DEF SweepingInv
<1> QED
  BY <1>1, SendingBegins, PTL DEF Out!Spec

\* The sending side keeps its types, for every number of messages, retries,
\* ACKs, restarts and overlapping ticks.
THEOREM TypeCorrect == Out!Spec => []TypeOK
<1>1. SendingInv => TypeOK
  BY SameData DEF SendingInv, SendingTypes, SenderInv, TasksOK, TypeOK, Out!TypeOK
<1> QED
  BY <1>1, SendingKeeps, PTL

\* Whatever callers, clock, transport and peer do, and however many handlers
\* and retry ticks overlap: as long as the process keeps running, an active
\* record has its retry timer set or a handler about to write it again.
THEOREM NoneIsStranded == Out!Spec => []NotStranded
<1>1. SendingInv => NotStranded
  <2> SUFFICES ASSUME SendingInv, restarts = 0, NEW m \in Messages, msgs[m].state \in Active
               PROVE  msgs[m].timer # "none" \/ Out!Tended(m)
    BY SameData DEF NotStranded, Out!NotStranded
  <2>1. Awaited(m)
    BY DEF SendingInv, TimersOK
  <2> QED
    BY <2>1 DEF Awaited, Active, Starting, Claiming, Handing, Out!Tended
<1> QED
  BY <1>1, SendingKeeps, PTL

\* The send queue forgets whatever came to its end, in every interleaving.
THEOREM QueueIsClean == Out!Spec => []QueueForgets
<1>1. SendingInv => QueueForgets
  BY SameData DEF SendingInv, QueueOK, QueueForgets, Out!QueueForgets
<1> QED
  BY <1>1, SendingKeeps, PTL

\* With one retry tick at a time, no message fails before all its retries were
\* used, restarts, flushes and overlapping handlers notwithstanding.
THEOREM FailsAfterAllRetries == ASSUME OneTick PROVE Out!Spec => []FailedAfterAllRetries
<1>1. SweepingInv => FailedAfterAllRetries
  BY SameData DEF SweepingInv, FailedOK, FailedAfterAllRetries, Out!FailedAfterAllRetries
<1> QED
  BY <1>1, SweepingKeeps, PTL

\* And it is handed to the transport at most once more often than maxRetries.
THEOREM AttemptsAreBounded == ASSUME OneTick PROVE Out!Spec => []Out!AttemptsBounded
<1>1. SweepingInv => Out!AttemptsBounded
  <2> SUFFICES ASSUME SweepingInv, NEW m \in Messages PROVE attempts[m] <= MaxRetries + 1
    BY SameData DEF Out!AttemptsBounded
  <2>0. MaxRetries \in Nat
    BY SendingAssumption DEF Out!OutboundAssumption
  <2>1. attempts[m] \in Nat /\ msgs[m].retry \in 0..MaxRetries
    BY <2>0 DEF SweepingInv, SendingInv, SendingTypes, Out!AttemptCap, SenderInv, Out!Record
  <2>2. attempts[m] + One(SendOwes(m)) + One(SweepOwes(m)) <= msgs[m].retry + One(Present(m))
    BY DEF SweepingInv, CountsOK
  <2>3. One(SendOwes(m)) \in {0, 1} /\ One(SweepOwes(m)) \in {0, 1} /\ One(Present(m)) \in {0, 1}
    BY DEF One
  <2> QED
    BY <2>0, <2>1, <2>2, <2>3
<1> QED
  BY <1>1, SweepingKeeps, PTL
==============================================================================
