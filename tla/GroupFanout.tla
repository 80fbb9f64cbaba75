------------------------------ MODULE GroupFanout ------------------------------
(***************************************************************************)
(* One group message on its way to the devices of the members              *)
(* (server/group-communication/manager/groupCommunicationEngine.js with    *)
(* fanout/, delivery/ and the pending queue of the repository).  The       *)
(* sender's request plans a leg per device, sends to the online ones and   *)
(* queues the others; a device that is back drains the queue (/resume and  *)
(* /synchronize), a device that has the message confirms it (/receive).    *)
(* No request takes a lock, and each rewrites all legs of the stored plan. *)
(***************************************************************************)
EXTENDS Integers

CONSTANTS
  Devices,       \* the target devices of the message
  Requests,      \* requests a device may have open at the same time
  AtomicDrain,   \* drainDevice of the in-memory store, else the database's (wired)
  SendMayFail,   \* the send of the sender's request may fail
  ResumeMayFail  \* a resume may fail after it has drained the queue

GroupFanoutAssumption == {AtomicDrain, SendMayFail, ResumeMayFail} \subseteq BOOLEAN

VARIABLES
  plan,     \* the state of each leg in the stored plan
  queue,    \* devices with an entry in the pending queue
  sender,   \* the sender's request: its own copy of the legs, what is left
  requests, \* what each request of each device is at
  sent,     \* how often the message was given to the transport for the device
  confirmed, \* devices that have confirmed
  lost,     \* history: devices whose entry went with nobody to send it
  shared    \* history: devices whose entry was found by two requests

vars == <<plan, queue, sender, requests, sent, confirmed, lost, shared>>
history == <<lost, shared>>

Idle == [op |-> "idle"]
LegStates == {"planned", "queued", "dispatched", "delivered", "failed"}
NoPlan == [d \in Devices |-> "none"]

Init ==
  /\ plan = NoPlan /\ queue = {} /\ confirmed = {}
  /\ sender = [op |-> "idle", legs |-> NoPlan, todo |-> {}]
  /\ requests = [d \in Devices |-> [r \in Requests |-> Idle]]
  /\ sent = [d \in Devices |-> 0]
  /\ lost = {} /\ shared = {}

\* sendGroupMessage: the members' devices and who of them is online.
Send(online) ==
  /\ sender.op = "idle" /\ plan = NoPlan
  /\ plan' = [d \in Devices |-> IF d \in online THEN "planned" ELSE "queued"]
  /\ sender' = [op |-> "dispatch", legs |-> plan', todo |-> Devices]
  /\ UNCHANGED <<queue, requests, sent, confirmed, history>>

Leg(d, state) ==
  sender' = [sender EXCEPT !.legs[d] = state, !.todo = @ \ {d}]

\* _dispatchPlan: a leg to an online device is sent.  messagingSend says
\* whether the device has it or it is under way.
Dispatch(d) ==
  /\ d \in sender.todo /\ sender.legs[d] = "planned"
  /\ \/ \E state \in {"dispatched", "delivered"} :
          Leg(d, state) /\ sent' = [sent EXCEPT ![d] = @ + 1]
     \/ SendMayFail /\ Leg(d, "failed") /\ UNCHANGED sent
  /\ UNCHANGED <<plan, queue, requests, confirmed, history>>

\* Mutation: the leg of an offline device only says it is queued.
EnqueueNothing(d) ==
  /\ d \in sender.todo /\ sender.legs[d] = "queued"
  /\ \A e \in sender.todo : sender.legs[e] = "queued"
  /\ Leg(d, "queued")
  /\ UNCHANGED <<plan, queue, requests, sent, confirmed, history>>

\* ... the others, which come after the online ones, are queued.
Enqueue(d) ==
  /\ d \in sender.todo /\ sender.legs[d] = "queued"
  /\ \A e \in sender.todo : sender.legs[e] = "queued"
  /\ queue' = queue \cup {d}
  /\ Leg(d, "queued")
  /\ UNCHANGED <<plan, requests, sent, confirmed, history>>

\* ... and the plan gets the legs, over what others made of them meanwhile.
Conclude ==
  /\ sender.op = "dispatch" /\ sender.todo = {}
  /\ plan' = sender.legs
  /\ sender' = [sender EXCEPT !.op = "answered"]
  /\ UNCHANGED <<queue, requests, sent, confirmed, history>>

Open(d, r, request) == requests' = [requests EXCEPT ![d][r] = request]
Found(d, r) == requests[d][r].op = "delete" /\ requests[d][r].found
FoundBySome(d) == \E r \in Requests : Found(d, r)

\* Mutation: a drained entry is skipped.
FindSkipping(d, r) ==
  /\ queue' = queue \ {d}
  /\ Open(d, r, Idle)
  /\ UNCHANGED shared

\* What drainDevice finds: in memory the entry is taken out at once, in the
\* database it is still there for another request to find.
Find(d, r) ==
  IF AtomicDrain
    THEN /\ queue' = queue \ {d}
         /\ Open(d, r, IF d \in queue THEN [op |-> "deliver"] ELSE Idle)
         /\ UNCHANGED shared
    ELSE /\ Open(d, r, [op |-> "delete", found |-> d \in queue])
         /\ shared' = IF d \in queue /\ FoundBySome(d) THEN shared \cup {d} ELSE shared
         /\ UNCHANGED queue

\* Mutation: the queue is listed, not drained.
ResumeListing(d, r) ==
  /\ requests[d][r] = Idle /\ d \in queue
  /\ Open(d, r, [op |-> "deliver"])
  /\ UNCHANGED <<plan, queue, sender, sent, confirmed, history>>

\* resumeDelivery: drainDevice, in the database a find and a deleteMany.
Resume(d, r) ==
  /\ requests[d][r] = Idle
  /\ Find(d, r)
  /\ UNCHANGED <<plan, sender, sent, confirmed, lost>>

\* The deleteMany takes what is in the queue now, also what was put there since.
Delete(d, r) ==
  /\ requests[d][r].op = "delete"
  /\ queue' = queue \ {d}
  /\ lost' = IF d \in queue /\ ~ FoundBySome(d) THEN lost \cup {d} ELSE lost
  /\ Open(d, r, IF requests[d][r].found THEN [op |-> "deliver"] ELSE Idle)
  /\ UNCHANGED <<plan, sender, sent, confirmed, shared>>

\* ... the entry is sent; an error of the send is caught and one of the reads
\* before it ends the request, and the entry is gone either way.  The delivery
\* guard never objects: it is only marked when it has no mark.
Deliver(d, r) ==
  /\ requests[d][r].op = "deliver"
  /\ \/ \E state \in {"dispatched", "delivered"} :
          /\ Open(d, r, [op |-> "load", state |-> state])
          /\ sent' = [sent EXCEPT ![d] = @ + 1]
          /\ UNCHANGED lost
     \/ /\ ResumeMayFail
        /\ Open(d, r, Idle)
        /\ lost' = lost \cup {d}
        /\ UNCHANGED sent
  /\ UNCHANGED <<plan, queue, sender, confirmed, shared>>

\* receiveGroupMessage of a device the message has reached.
Receive(d, r) ==
  /\ requests[d][r] = Idle /\ sent[d] > 0 /\ d \notin confirmed
  /\ confirmed' = confirmed \cup {d}
  /\ Open(d, r, [op |-> "load", state |-> "delivered"])
  /\ UNCHANGED <<plan, queue, sender, sent, history>>

\* findByMessage
Load(d, r) ==
  /\ requests[d][r].op = "load"
  /\ Open(d, r, [op |-> "save", state |-> requests[d][r].state, legs |-> plan])
  /\ UNCHANGED <<plan, queue, sender, sent, confirmed, history>>

\* _setLegState: an illegal transition is ignored; DELIVERED may skip DISPATCHED.
Moved(leg, state) ==
  IF leg = "delivered" \/ (leg = "failed" /\ state = "delivered") THEN leg ELSE state

Save(d, r) ==
  LET request == requests[d][r]
  IN /\ request.op = "save"
     /\ plan' = [request.legs EXCEPT ![d] = Moved(@, request.state)]
     /\ Open(d, r, Idle)
     /\ UNCHANGED <<queue, sender, sent, confirmed, history>>

Dispatching == (\E d \in Devices : Dispatch(d) \/ Enqueue(d)) \/ Conclude
Proceed(d, r) == Delete(d, r) \/ Deliver(d, r) \/ Load(d, r) \/ Save(d, r)

Next ==
  \/ \E online \in SUBSET Devices : Send(online)
  \/ Dispatching
  \/ \E d \in Devices, r \in Requests : Resume(d, r) \/ Receive(d, r) \/ Proceed(d, r)

Spec == Init /\ [][Next]_vars

-----------------------------------------------------------------------------
TypeOK ==
  /\ plan = NoPlan \/ plan \in [Devices -> LegStates]
  /\ queue \subseteq Devices /\ confirmed \subseteq Devices
  /\ sender.op \in {"idle", "dispatch", "answered"} /\ sender.todo \subseteq Devices
  /\ sent \in [Devices -> Nat]
  /\ lost \subseteq Devices /\ shared \subseteq Devices

\* A device gets the message at most once, however its resumes, its
\* synchronisations and the sender's dispatch overlap.  The exception is exactly
\* the entry that two requests found in the database before either deleted it.
SentOnce == \A d \in Devices : sent[d] > 1 => ~ AtomicDrain /\ d \in shared

\* The same without the exception, as the documentation has it.
AtMostOncePerDevice == \A d \in Devices : sent[d] <= 1

UnderWay(d) == \E r \in Requests : requests[d][r].op = "deliver" \/ Found(d, r)

\* The message for d waits for somebody, was sent or is answered as failed.
LookedAfter(d) ==
  \/ d \in sender.todo \/ sent[d] > 0 \/ d \in queue \/ UnderWay(d)
  \/ sender.legs[d] = "failed"

\* A leg the sender's request is through with is sent, waits in the queue or is
\* being resumed, unless the sender's own send failed, as its answer says.  The
\* exceptions are exactly the entry that was put into the database between the
\* find and the deleteMany of a resume, and that of a resume that failed.
NotForgotten ==
  plan # NoPlan => \A d \in Devices :
    \/ LookedAfter(d)
    \/ d \in lost /\ (~ AtomicDrain \/ ResumeMayFail)

\* The same without the exceptions, as the code's comments have it.
NothingIsDropped == plan # NoPlan => \A d \in Devices : LookedAfter(d)

\* A device that comes back again and again gets what was queued for it, unless
\* that is lost as above.
QueuedArrives == \A d \in Devices : d \in queue ~> sent[d] > 0 \/ d \in lost

\* The sender's request and the devices' run on; a device comes back again.
Fairness ==
  /\ WF_vars(Dispatching)
  /\ \A d \in Devices, r \in Requests : WF_vars(Proceed(d, r)) /\ WF_vars(Resume(d, r))
FairSpec == Spec /\ Fairness
=============================================================================
