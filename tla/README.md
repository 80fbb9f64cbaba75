# Verification of the chat application

TLA+ models of the parts of this repository where ordering, retries, concurrent
handlers, crashes and lost messages decide whether it is correct; TLC runs that
check them on small instances; and TLAPS proofs of the results that matter most,
for all values of the parameters. Paths below are relative to `src/`.

To run a check: `tlc -workers 2 -config replication.cfg Replication`.
To check proofs: `tlapm Replication_proofs.tla`.

Contents: 1 the system; 2 the modules and the code; 3 the runs; 4 fairness;
5 the proofs; 6 where code and text disagree, and weaknesses without a run;
7 what is not modelled; 8 what could follow.

## 1. The system

A MERN chat application: a React client, an Express/Socket.IO server with
MongoDB and Redis, and under `server/` a stack of "layers", each a manager class
over repositories (in memory for tests, Mongo in production), with a life cycle
table, an event bus, an API wrapper and tests. Everything runs on JavaScript's
event loop: code is atomic between two `await`s, and any other handler may run at
one. That is where nearly all the hard behaviour of this code base comes from: a
manager reads a record, awaits, decides on the copy, and writes unconditionally.

### Components, by layer

| part | state | operations | what makes it correct |
|---|---|---|---|
| direct chat (`controllers/messageController.js`, `server.js`, `lib/redis.js`, `client/context/ChatContext.jsx`) | Message documents (sent, delivered, read), one socket id per user in Redis, the client's list | send, list and mark read, connect, disconnect | a message ends up read and on the screen of who keeps opening the conversation |
| group chat (`controllers/groupController.js`) | Group document (members, pending invitations, version) | create, invite, accept, reject | invitations and answers saved at the same time are all kept |
| handshake, key agreement (`server/shs`) | handshake records in a state machine, exchange records | initiate, respond, complete, cancel, expire, restart; negotiate, keys, commitments | ended handshakes stay ended, complete means both sides agree, chains of retries stay in budget |
| secure sessions (`server/shs/session`) | session record, key store of the device | establish, rekey, close, destroy, restart | an ended session leaves no keys, a destroyed one does not come back |
| message keys, key hierarchy | chains, skipped-key cache | seal, open, re-root, prune | no key twice, a skipped key is there until it is used or given up |
| forward secrecy, session evolution, automatic rekeying | generations in a key store and in records, executions | start, evolve, advance, destroy, trigger | generations do not branch, the record tells the truth, a burst rekeys once |
| presence, peer discovery, capabilities | device records with leases, descriptors, caches, discovery sessions, capability sets | heartbeat, sweep, register, look up, negotiate, update | a live device is found and a silent one is not; caches do not answer for older sets for ever |
| **data plane** (`server/data-plane`) | outbound messages with a delivery state and retry time, in-memory queue, duplicate cache, ordering engine; the relay's records | send, retransmit, flush, cancel, expire, ACK, receive; relay, poll, acknowledge | exactly once, in order, ACKNOWLEDGED means delivered, every message comes to an end |
| **transport engine** (`server/transport-engine`) | transfers, chunk records, contexts, flow control windows, memory guards, reassembly; the relay's records | start, pump, chunk ACK, sweep, pause, resume, cancel, expire, receive; open, relay, pull | no chunk lost or counted twice, guard exact, COMPLETED means delivered, payload once |
| **replication** (`server/replication`) | a replica snapshot per device: versioned entities by category | register, synchronize, delta, resume, resolve, merge | nothing un-reads, nothing goes back, replicas converge |
| synchronization (`server/synchronization`) | resumable sessions, plans, queues in memory | pull, report, pause, resume, cancel, finish | what the replica claims was applied |
| group management, receipts, group communication (`server/group*`) | record, memberships, replica; member receipts and counters; epoch keys; plan and pending queue | join, leave, administer; report; rotate; fan out, resume | owner in the group, counters equal receipts, no epoch key for who left, each device once |
| network, transport and fabric reliability | connections under heartbeats, transfers under recovery, operations under breaker, bulkhead, retry | sweep, recover, checkpoint, admit, give up | a repair is attended to and ends, slots are exact, breakers close again |
| optimization (`server/optimization`) | lanes of waiting requests, reservations | schedule, dispatch, age, finish, cancel | allocated is what is reserved, older requests go first |

`PROJECT.json` lists all 49 parts with their files, status and what of them is
modelled.

### How they interact

- **Calls**: an HTTP route calls a controller or an API wrapper, which calls a
  manager; a manager calls repositories and a *transport*, *inbound*, *hook* or
  *executor* object given to its constructor. Key agreement moves the handshake on,
  automatic rekeying evolves forward secrecy: both are modelled as one module
  extending the other.
- **Messages**: the two ends of the data plane exchange DATA and ACK envelopes,
  those of the transport engine CHUNK, CHUNK_ACK and CANCEL envelopes, over a
  transport that promises nothing: `send` may throw, envelopes may be lost,
  repeated or overtaken. The engines run on the devices; the server's controllers
  (`dataPlaneController.js`, `transportEngineController.js`) relay and store.
- **Shared state**: handlers of one process share repositories and in-memory maps.
  Replicas are shared by all devices of a conversation.
- **Callbacks**: `onMessage` and `onPayload` handlers of the application; event
  buses, which mostly notify. One has an effect that is modelled: membership events
  rotate the group key.
- **Timers**: `RetransmissionScheduler`, the transport engine's sweep, heartbeat
  and stall monitors run on `setInterval`, which does not wait for the tick before
  it; clients poll periodically.

### What is hard here

Handlers that overlap at awaits and work on stale copies; lost, repeated and late
answers against retries and timeouts; check-then-create across an await; in-memory
state lost in a restart although the records survive; several writes of one
operation of which the second fails; caches, queues and buffers at their limit.
The 40 entries under "hazards" in `PROJECT.json` give each with the line where it
bites and the properties that cover it. Section 6 lists what else was met while
modelling.

## 2. The modules and the code

    DataPlane ------- OutboundMessaging ---.
        \------------ InboundMessaging ----+-- ReliableMessaging -- MCDataPlane
                          |                        |    `-- refines OrderedDelivery
               InboundMessaging_proofs   ReliableMessaging_proofs

    TransferStates -- ChunkSender ---------.
        |------------ ChunkReceiver -------+-- LargePayload -- MCPayload
        `------------ ChunkRelay                   `-- LargePayload_proofs

    ReplicaRecords -- Replication                      `-- Replication_proofs
    Synchronization  ResourceScheduler                /

    Handshake -- KeyAgreement                         \
    SecureSession  MessageKeys                         |-- Security_proofs
    ForwardSecrecy -- AutomaticRekey                  /

    GroupReceipts  GroupFanout  GroupChat             \
    GroupManager  GroupKeys                           /--- Groups_proofs

    MessageRelay  ChunkRelay  PeerDiscovery           \
    CapabilityNegotiation  SessionEvolution            |-- Fabric_proofs
    ReliableOperations  TransferReliability           /

    Presence  NetworkReliability  DirectChat          (liveness only)

All modules from Handshake down, with Synchronization, ResourceScheduler and
ChunkRelay, are INSTANCEd by MCServices (safety) or MCProgress (what must happen in the
end), each as a "part" of the run. MCServices_proofs carries the theorems of
Security_proofs, Groups_proofs and Fabric_proofs over to the properties of that run.

A step of every model is what the code does between two awaits. Where a handler
awaits, the model keeps a record of the handler: the copy it read, what it will do
next, what is left on its list. Operators marked *Mutation* in the modules are not
part of any specification; each is a plausible slip in the operator after it, and
serves to show that a property would notice. "map" in `PROJECT.json` gives the
lines of each definition.

### Data plane

**DataPlane** holds what both ends share: messages (sender and sequence number),
ACK ids, the delivery states and `ALLOWED_DELIVERY_TRANSITIONS`.

**OutboundMessaging** is `messagingEngine.js` from `send` to `sweepExpired`.

| model | code |
|---|---|
| `msgs[m]` (state, retry, timer, lapsed) | the message record: `state`, `retryCount`, `nextRetryAt` (not set, ahead, passed), `expiresAt` passed |
| `queue` | `OutboundQueue`, in memory |
| `tasks` | handlers in progress: `send`, a retry tick, `flushPending`, `sweepExpired`, `cancel`; `cur` is the copy of the record they read, `todo` the rest of the listing |
| `acking`, `ackSeen` | `_handleAck` at its await; the ids of `dedupe.addAck` |
| `Send`, `Enqueue`, `Claim`, `Transmit`, `Reread`, `Mark` | `send`, `_transmit`, `_retransmit` cut at their awaits |
| `Tick`, `Decide`, `GiveUp`, `CountRetry` | `sweepRetries`: list once, then decide each on the listed copy |
| `Flush`, `SweepExpired`, `Expire`, `StartCancel`, `Cancel` | the methods of those names |
| `AckArrives`, `FinishAck` | `_handleAck` before and after the read is answered |
| `Restart` | records stay; queue, handlers and caches are gone |

Abstractions: `nextSequence` and `create` are one step (a message without a number
is seen by nobody), the ack id is remembered in the step of the read that
follows, a queue removal goes with the write before it. The ACK cache never
evicts. Payloads, priorities, ordering metadata, the ACK history, events and
statistics are left out. `attempts` only counts, for the properties.

**InboundMessaging** is `receive` to `_sendAck` with `ordering.js` and `dedupe.js`.
`seen` is the LRU duplicate cache, `expected` and `buffer` the ordering engine,
`delivering` the handlers at `inbound.record`. Duplicate check, `accept` and the
drain of the buffer have no await between them, so `ReceiveDuplicate`,
`ReceiveStale`, `ReceiveNext`, `ReceiveGap` and `ReceiveOverflow` (with
`_forceRecover`) are one step each. `HandOver` is one message of the run reaching
the application; the ACK leaves after the last one. `released` and `app` are the
history of what the ordering engine and the application saw. `MaxAcks` bounds the
ACK envelopes of a message: an ACK beyond it stands for one that got lost.

**ReliableMessaging** joins both by a transport that reorders, and loses or
repeats as its constants say. **OrderedDelivery** is the abstract promise: what is
delivered is a growing prefix of what was sent, each message once.

**MessageRelay** is the other way a message takes, without a connection between the
devices: `api/relayService.js` over the database and the polling client
`client/src/lib/messaging.js`. `List`, `Work` and the step names of `polls` are the
client's loop and the relay's handlers cut at their awaits; polls overlap, a
response may be lost (`Lose`, `Fail`), the page may be loaded again (`Reload`).

### Transport engine

**TransferStates** holds chunks and the transfer life cycle. **ChunkSender** is the
outbound half of `transportEngine.js` with `backpressure.js`, `flowController.js`
and `scheduler.js`; **ChunkReceiver** the inbound half with `reassembler.js`;
**LargePayload** joins them.

| model | code |
|---|---|
| `open`, `current` | the keys of `_outbound`; the context in `_inbound` |
| `local`, `stored` | `ctx.transfer.state`, the copy handlers test; the stored state |
| `pending`, `sent`, `ackedCount`, `peerWindow` | the fields of the outbound context and of its flow controller |
| `inFlight` | the byte counter of `SenderResourceGuard`, one for all transfers |
| `sending`, `acking`, `sweep`, `controls`, `creating`, `receiving` | handlers at an await |
| `PumpChunk`, `SendDone`, `SendFails` | `pump` and `_sendChunk` up to and after `transport.send` |
| `AckChunk`, `AckAgain`, `AckStored`, `Complete`, `Close` | `_handleChunkAck` and `_completeTransfer` |
| `TimerLapses`, `Sweep...`, `Expire` | `sweepTimeouts`, `_failTransfer`, `_expireTransfer` |
| `Pause`, `Resume`, `Cancel`, `ControlStored` | the control calls before and after the repository answers |
| `ChunkOpens`, `Created`, `CreateRefused` | `_handleChunk` finds no context, `transfers.create` answers |
| `AcceptChunk`, `RepeatChunk`, `Recorded`, `RecordFails`, `HandOver`, `CloseInbound` | the rest of `_handleChunk` |

Abstractions: a chunk is one unit of size, so caps count chunks. `startTransfer`
is one step, because nobody can look the transfer up before it is registered. The
outstanding set of the flow controller always equals the context's sent set, and
is one variable with it. Which candidate a pump takes next (priority, aging) is an
open choice. `requeued` counts the sends that failed after the ACK of their chunk, whose
chunk the code counts a second time (`MaxRequeued` bounds it). The stored chunk records, progress, history and the queue's depth
limit are left out; nothing reads them back to decide. There is one sweep, and one
control call per transfer, at a time. An inbound cancellation's write and the
removal of the context are one step. `LateSends` says whether a send may fail
or lapse after the chunk was carried; `StoreMayFail` whether recording a chunk may throw;
`UniqueRecords` whether `transfers.create` refuses a known id (the unique index of
Mongo) or replaces it (in memory).

**ChunkRelay** is the relayed transfer: `api/relayService.js` and
`client/src/lib/transport.js` (`sendPayload`, `receiveTransfer`). The chunk records
are looked up by the id the client gives them, as the database does; `control` is a
pause, resume or cancel between its read and its write.

### Replication and synchronization

**ReplicaRecords** is the algebra: stamps (`versionStamp.js`), conflicts
(`conflictResolver.js`), `mergeRecords`, `mergeReplicas` (`mergeEngine.js`),
`applyRecord` (`replicaModel.js`) and deltas (`deltaReplicator.js`).
**Replication** is `replicaManager.js` over it: `Edit` and `Register` are a
device, `Call...` reads the source, `Synchronize`, `ReplicateDelta`, `Resume` and
`Resolve` read the target and decide, `StoreTarget` and `StoreOwn` are the two
writes, `FailReading` and `FailWriting` a call that ends between its steps.

Abstractions: one entity per category (entities of a category never meet);
an entity a replica lacks has version 0. What stands for a content hash: the writer
of a message or title, the set of readers (without `readAt`), the rank of a
delivery state. `replicaVersion` and `version` counters and the history are left
out, nothing decides on them. Devices are registered from the start. Conflicts of a
synchronization are decided by last-write-wins (`Authority = 0`) or server-authority,
the same for all calls. `resolveConflict` takes the policy its caller names, which goes
before that of the category: the outcome is the merge, or either of the two records, also
of receipts. Custom resolvers, which may return any record, are not there. A refused replay is a failed call. A device hears
only counts from the server (`toPublicReplica`), so its edits build on its own
records. Source and target of a call differ.

**Synchronization** is one session of `synchronizationManager.js` with its queue
and the device that drains it (`client/src/lib/synchronization.js`): `Pull`,
`Dequeue`, `Apply`, `Report`, `StoreProgress`, `Check`, `Advance`; `Pause`,
`Resume` with the `Rebuild` of the queue from the stored cursor; `Cancel`,
`Expire`, `Restart`. A request may hold a queue that was dropped (`queues`,
`current`). Which entities an operation carries, batches and priorities are
abstracted to an order of operations.

### The services

The remaining modules have one shape. A record (and what is kept beside it: a key
store, a cache, a queue) is the state; `calls` (or `lookups`, `work`, `ops`) says
for each request in flight what it does next and which copy of the record it
decides on. An operation's first action reads and applies the guards of the code;
each later action is one write, which changes just the fields the code writes,
whatever the record says by then.

| module | code | state beside the calls, and actions |
|---|---|---|
| **DirectChat** | `messageController.js`, `server.js`, `lib/redis.js`, `ChatContext.jsx` | `status` in the database, `directory` in Redis, `closing` sockets whose disconnect handler has not run, the client's `list`. `Send`, `Emit`, `SaveDelivered` are `sendMessage`; `Open`, `List`, `Mark`, `Show` are `getMessages` and the client; `NewMessage`, `MarkSeen` the socket events |
| **GroupChat** | `groupController.js`, `Group.model.js` | the document's `members`, `pending`, `version`. Saves follow mongoose: a push goes on whatever the array is by now, an assigned array replaces it if the version is still the one read |
| **Handshake** | `shs/manager/handshakeManager.js`, state machine | `sessions`, `late` (past `expiresAt`). `StartHandshake`, `Create`, then `AcceptHandshake`, `CompleteHandshake`, `RejectHandshake`, `EndHandshake`, `RestartHandshake` read; `Write` stores state and history; `GetHandshake`, like the sweep, expires a lapsed record |
| **KeyAgreement** | `keyAgreementManager.js` | extends Handshake by `exchanges`: negotiation, ephemeral keys, commitments, each with its two records in separate steps |
| **SecureSession** | `shs/session/manager/sessionManager.js` | `session`, `keys`. `Decide`/`Write`/`Wipe` are the life cycle operations, `Destroy`/`DestroyWrite`, `Rekey`/`ReplaceKeys`/`RekeyWrite`, `Restart` |
| **MessageKeys** | `messageKeyManager.js`, `chainManager.js` | both chains, the `cache` of skipped keys. `Seal`/`Sealed`, `Receive`/`Skip`/`Derive`/`Opened`, `Reroot...`, `PruneCache`; `SkipFails` and `DeriveFails` are an advance of the chain that throws, before or after the chain moved. A key is its generation and number; `twins` are those a failed skip left both cached and ahead in the chain |
| **ForwardSecrecy** | `forwardSecrecyManager.js` | `store`, `record`. `Start`, `Evolve`, `Destroy`, `Delete`, cut where the repository is awaited; `Restart` clears the store |
| **AutomaticRekey** | `automaticRekeyManager.js`, `executionEngine.js` | extends ForwardSecrecy by `triggers`, the lock's `queue`, `pending`, `executions` with attempts and failed persists |
| **SessionEvolution** | `session-evolution` | `record` with history; `Advance` in its three writes, `Schedule`, `Cancel`, `Retire`, `Delete` |
| **GroupManager** | `group/manager/groupManager.js` | `group`, `memberships`, `replica`; `work` is the list of writes still to come of the operation that holds the lock, `Write` does the next, `Tear` fails between two; a refresh reads, lists and stores without the lock (`refreshing`) |
| **GroupReceipts** | `groupReceiptManager.js` | `aggregate`, `receipts`, `cache`, `lock`; a report updates the member's receipt and then, under the lock, the counters |
| **GroupKeys** | `groupCommunicationEngine.js`, `key-management/` | `members`, `keys`, `secret` as who can derive it. `Look`, `Enter` (lock), `Draw`, `Store`, `Supersede`; `Expire` is the sweep |
| **GroupFanout** | `groupCommunicationEngine.js`, `fanout/`, `delivery/` | stored `plan`, pending `queue`, the sender's own copy; `Resume` drains, `Proceed` goes on, `Receive` confirms. `AtomicDrain` is the in-memory store, its negation the database, which drains by `Find` and `Delete`; `lost` and `shared` are the entries deleted unread, or not delivered by a resume that failed, and those found by two |
| **Presence** | `presenceManager.js` | `record`, `sweep`, `cache` of lookups, what the `device` does from now on; requests, `Look`/`Get` of a reader, `Forget`, `Lapse` |
| **PeerDiscovery** | `discoveryManager.js` | `device` descriptor, `cache` entry, `sessions`, `inflight`; `Lookup`/`Resolve` step by step, `Ask`/`Answer` of other requests, `Invalidate`, `Restart` |
| **CapabilityNegotiation** | `capabilityManager.js` | the `set` with its version, the `cache` by version; `Register`, `Update`, `Refresh`, `Advertise`, `Remove`, `Negotiate`, each read and write apart |
| **ReliableOperations** | `fabric-reliability` | `breaker`, bulkhead (`active`, `queue`), checkpoint `record`; `Admit`, `Work`, `Prune`, `Elapse`, `List`/`GiveUp` (`recoverInterrupted`), `Crash` |
| **TransferReliability** | `transportReliabilityManager.js` | `record` with the checkpoint; `Report`, `Interrupt`, `Recover`, `Migrate`, `Ask`; `Step` is the next write or hook; `Crash` |
| **NetworkReliability** | `networkReliabilityManager.js` | `conn`, `device`; `Beat`, `List` and the sweep's steps, `Ask` a recovery (three writes), `AskClose`, `Crash` |
| **ResourceScheduler** | `optimization` | `lanes`, `reserved`, `allocated`; each operation is one step because nothing awaits in between |

Abstractions worth knowing: derivation functions are what both sides agree on or
not; identities, permissions of strangers and validation of input are left out;
time is a lapse that may come at any moment; one session, group, message, device or
transfer each, because the managers key all their state by it; the five roles of a
group are three; scheduler resources are executions and bandwidth, with two lanes,
one execution per request and a waiting request not asked for again; a
capability set is what its version says. The note of each component in `PROJECT.json` says what
of it is left out.

## 3. The runs

Twelve runs, seven that pass and five that show a disagreement (section 6).
Runs that share nothing but their bounds are put together: a variable `part` picks
in the initial state which of several instances the behaviour is one of, and never
changes. In MCServices and MCProgress the parts share a vector of variables, each
using as many as it has, the others stay `Unused`; a property is then "if this
part, its property". Which constants an instance gets is in its `INSTANCE ... WITH`.
Nothing is lost by this: the behaviours are those of the instances, one beside
the other.

| run | question | bounds, and why they are enough |
|---|---|---|
| `outbound` | Is a message ever left active with nobody to tend it, failed early, or kept in the queue for ever, and does it come to an end? | one message, one retry, one ACK, one retry tick at a time; part *restarting*: a restart, the link going down, flushes; part *running*: link, cancellation and expiry. All interference is between handlers of one message, and send, tick, flush or cancel, sweep and the ACK can all be at work at once |
| `inbound_order` | Is release in order and nothing stuck, whatever the transport does? | four messages against a buffer and a cache of two: gap, drained gap, overflow, forced recovery, forgotten duplicates; a restart; failing store |
| `inbound_app_order` | Does the application see the order of release? No. | three messages |
| `end_to_end` | Do both ends together implement OrderedDelivery, does ACKNOWLEDGED mean held, does what was acknowledged reach the application? | two messages (a gap and a drain), a buffer of two, a cache of one (so one message is forgotten), one retry; part *losing* or part *repeating*, both reorder. No restart: `MaxRestarts = 1` passes `AcknowledgedIsHeld` as well, but not in the time of a regular run, and the theorem covers any number |
| `payload` | Chunks and memory exact, payload once, COMPLETED delivered? | two chunks (first and last ACK are different handlers). Part *sender*: two pumps, one retry per chunk, pause, any ACK any number of times; part *late*: expiry, and a send may fail or lapse after the ACK of its chunk, one such send; part *both*: chunks arrive together; part *cancel*: cancellation with a window of one |
| `services` | Twenty-five parts, one instance of a service each: do its promises survive overlapping requests, failing writes, restarts? | two overlapping requests (three in *operations*), two users and an administrator, up to symmetry; generations, versions and changes up to 3 so that a stale copy can be two behind; three handshakes with one retry, so that a chain could be one too long; the fan-out with the queue in memory (*fanout*, two devices) and in the database (*stored*, one device: devices share only the request of the sender), resumes failing in both |
| `progress` | Eleven parts of which something must happen in the end | one message, two overlapping requests, two devices, one crash or restart where there is one; the fan-out with the database's queue and a device that resumes again and again |
| `replication` | Are receipts kept, messages never set back, and do replicas converge? | three replicas (two conflicting ones and one to meet both), two categories (one merged, one with conflicts), two clock values (equal and different times), three edits, one incident, a delta of one item |
| `replication_by_category` | The same for a call limited to a category? No. | as above |
| `sync_skips_operation` | Is what the replica claims applied, after a failure and a pause? No. | two operations, one drain |
| `relay_mixes_transfers` | Does the relay keep what it accepted, with two transfers? No. | two transfers of two chunks |
| `handshake_terminal` | Are the ends of a handshake final? No. | one handshake, two requests |

The bounds on retries, ACKs, edits, versions and incidents are guards of the models
and are named there. The runs say `CHECK_DEADLOCK FALSE` because each system really
stops: all messages settled, all bounds used, nothing left to do.

What the properties of `services` are made of:

- `NothingGoesBack`: a destroyed session does not return (`StaysDestroyed`), keys go
  on one generation at a time (`OneGenerationOn`), no tick is taken back
  (`TickRises`), no request takes back a checkpoint (`ResumesForward`), no aged
  request is passed over (`OlderGoFirst`).
- `NothingTwice`: no key seals twice, no message opens twice, a burst of triggers rekeys
  once, a device gets a group message once, a relayed message is shown once, lookups
  of a peer share one search.
- `NotForgotten`: what was planned for a device is sent, queued or under way; what the
  relay accepted is there.
- `RecordsAreTrue`: complete key agreements stand on both commitments; a record of
  generations names those whose keys can be had; counters are the receipts; a
  replica claims what its device applied; acknowledged is shown; a completed
  transfer was collected; slots are held; a transfer under repair is being
  repaired; cached negotiations fit the sets they are found for; the history is
  whole; allocated is what is reserved.
- `KeysLastUntilUsed`, `MembersMatchGroup`, `ReplicaShowsGroup`, `InvitationsKept`,
  `ChainWithinBudget`, `EndedHasNoKeys`, `TickIsEarned`, `KeyFitsMembers`: each of
  one part.

and of `progress`:

- `SeenInTheEnd`: a message is read, and shown, to who opens the conversation again
  and again; what was queued or left at a relay arrives; a device that beats on is
  reachable and a silent one is not; who looks up a device gets its last descriptor.
- `WaitingEnds`: triggers get their turn, checkpoints close, breakers close when the
  dependency is well, interrupted transfers resume or end, connections leave
  recovery and silence is noticed.

What the properties rest on, and where they would fail without it:

- `NotStranded`, `AtMostOnce`: for a process that keeps running. After a restart,
  a record in CREATED, QUEUED or a first SENDING has no retry time and no sweep
  finds it; ordering engine and duplicate cache start empty (`seed` has no
  caller), so a repeated message is delivered again.
- `FailedAfterAllRetries` and the number of attempts: one retry tick at a time. Two
  overlapping ticks list the same message with the same count, and both retransmit.
- `inbound.record` answers (`end_to_end`): where it throws, the retransmission
  counts as a duplicate and is acknowledged, though nobody got the message.
- One sender per conversation at a receiver: the ordering engine keeps one number
  sequence per conversation, senders number independently. With two senders
  message 1 of the second is acknowledged and dropped.
- A reorder buffer with room for what is under way (`KeepsPromise`): a forced
  recovery gives up the gap, and the messages in it are then stale.
- `EndsWhenAcked`: for a transfer that was never paused. COMPLETED may not follow
  PAUSED, so the last ACK of a paused transfer has no effect, and none follows.
- `ChunksAccounted` says how much a send that fails after the ACK of its chunk
  falsifies: the numbers of a transfer exceed its chunks by exactly those sends, and the memory
  guard counts too little once there was one. `CompletedHasArrived` is about transfers
  without such a send: with one, a transfer may complete a chunk early (section 6).
- `CompletedHasArrived`: a repository that answers and refuses a second record; the
  last chunk is in the reassembler before it is recorded, so if recording throws its
  retransmission is only acknowledged.
- `ReadsKept`, `NeverBack`: calls that do not overlap. A call writes whole
  snapshots it computed from copies; a second call in between is lost.
- `ReadsKept` counts for each replica the readers its own device put there;
  readers learned from others are dropped when the device registers a higher
  version, until the next synchronization.
- `Converges`: for categories whose merge is commutative (see `MergeLaws`).
  Titles of conversations are taken from whichever side is the source: with
  `Categories = {"conversations"}` and all replicas as sources they never agree.
- `NeverBack` leaves out explicit resolution, which may pick the older version; `ReadsKept`
  takes the receipts that the record chosen by such a call lacks as given up by its caller.
- `Converges` compares records with their versions and times, and the policy of conflicts
  is one for all synchronizations; devices that call with different ones need not agree.
- `AdvancedIsApplied`: sessions that are paused, or ended, or restarted, and with
  one drain at a time where they are paused or restarted; other mixtures break it.
- `NotForgotten` and `SentOnce` of the fan-out hold with either queue but for exactly the
  entries in `lost` and `shared`: one that came between the find and the deleteMany of a
  drain, one whose resume failed, and one that two drains found. `QueuedArrives` likewise.
  `NothingIsDropped` and `AtMostOncePerDevice` state the same without these exceptions and fail
  (section 6).
- `OpensOnce`, `UsedKeysAreGone`: but for `twins`, keys taken from the chain while a failed
  skip had left them in the cache; `EachKeyOpensOnce` has no such exception and fails.
- `ReplicaShowsGroup`: a living group, no operation torn, and not when a refresh outside the
  lock stored last (`ReplicaNeverBack` fails). deleteGroup stores the replica before the
  tombstones (`ReplicaInSync` fails).
- `CompletedIsCollected`: a receiver whose requests do not fail (`MayFail = FALSE`).
- `ResumesForward`: a device that sends its next checkpoint when the last was answered.
- `Noticed`: hooks that ask the device (`BlindHooks = FALSE`). The hooks wired in
  `networkReliabilityController.js` return true without asking; with them every
  sweep revives a silent device and the property fails. The run shows what the
  manager does with hooks as its documentation describes them.
- `KeyFitsMembers`: changes that found an active key; a change while a key is being
  made or had expired is dropped by the code (`missed`), and left out.
- `CountsAreReceipts`: reports whose counting failed (`missed`) are left out, so are
  operations torn between two writes in `DeletedIsEmpty`.
- `AnswersFitSets`: one registration's life; see section 6.

## 4. Fairness

- **Outbound**: weak fairness of every handler step (an awaited repository or
  transport call is answered), of each retry timer and of the retry tick
  (`setInterval`). Not assumed: that a transport call succeeds, that an ACK comes,
  that a flush, cancellation or expiry sweep ever begins. `SettlesRunning` therefore
  holds through the retry limit alone.
- **End to end**: in addition weak fairness of each envelope's arrival. A lost
  envelope is never again enabled, so arrival is not owed for it.
- **Progress**: the fairness actions (`ServeRequest`, `AskAgain`, `Serve`, `Sweep`,
  ...) gather actions of different parts; since a behaviour is of one part, at
  most one disjunct can be enabled, so weak fairness of the disjunction is weak
  fairness of each. Three reasons only: a handler goes on once its await is
  answered; a timer (heartbeat, sweep, monitor, cache TTL, breaker timeout) goes
  off; a device, user or polling client asks again, as their loops do. Strong
  fairness (`ComesToPass`) twice, where others may disable a step again and again:
  that a cache entry lapses in one of the pauses between the lookups that arm it,
  and that a stopped transfer is asked to recover in one of the moments in which
  nobody else has it.
- `OpenedAgainAndAgain` is a premise of the property of the chat, not fairness: the
  user is not obliged to open anything.
- **Replication**: handler steps are answered; strong fairness of
  the synchronizations of each device (`startAutoReplication` repeats). It has to be
  strong because `MaxCalls` stands for a server that works calls off one by one,
  and a call waits for its turn; that a turn comes is owed to the bound, not to
  the code, which has no limit on calls.
- The scheduler (`optimization`) has no liveness property: nothing in the code
  calls `dispatch` periodically.

## 5. The proofs

Eight modules hold proofs, checked to the last leaf. They assume the named
assumptions on the constants, which TLC evaluates in the runs, and where a theorem
says so in its statement, a premise. The result is for every value of the constants:
any number of requests in flight, messages, devices, retries, restarts. Each argument
is an inductive invariant, found with TLC first; what it has to say beyond the
property is what requests in flight hold, since the code decides on copies.

**InboundMessaging_proofs**, for any senders, messages, buffer, cache and number of
restarts:

- `TypeCorrect`: the step that needs thought is the run taken from the buffer:
  `RunIsConsecutive` shows it is a sequence of messages numbered without a hole.
- `ReleasesInOrder` and `BufferOnlyWaits`: `ReleasedInOrder` and
  `BufferWaitsForHole` only hold together. Release is increasing because every
  released number is below `expected` and what is released starts at `expected`
  or, in a forced recovery, at the lowest buffered number, which is above it; that
  in turn is what `BufferWaitsForHole` says. `OrderInv` is their conjunction.
- `AppGetsOnce`: `AtMostOnce` of what the application has is not inductive, since
  handlers still hold runs; `OnceInv` says that all messages at the application or
  in a handler are below `expected` and that none is at two places. What is released
  next is at or beyond `expected`, so it is at none. The duplicate cache plays no
  part in the proof: it may forget everything.
- `BufferKeepsToLimit`: an overflow is one message over, and a forced recovery takes
  at least the lowest one out.

**ReliableMessaging_proofs**, for any number of messages, retries, ACK envelopes,
sweepers and overlapping handlers, and a transport that loses, repeats and reorders.
Both ends, under `Premises` (one sender; `MaxSeq <= BufferLimit`, a buffer with room
for what is under way):

- `AcknowledgedMeansHeld`: `Spec => []AcknowledgedIsHeld`.
- `PromiseIsKept`: `Spec => KeepsPromise`, the refinement of OrderedDelivery. The
  invariant is in five parts: `SenderInv` (types, and that handlers and envelopes
  are about messages that exist), `ReceiverInv` (what was released is numbered 1 to
  `expected - 1`: this is where the premises come in, no forced recovery happens),
  `OnlySent` (the receiver holds nothing that was not sent), `HeldInv` (nothing it
  released, remembers or acknowledged is lost) and `AckInv` (only what the receiver
  acknowledged is acknowledged at the sender). Without the premises the theorems
  are false, see section 3.

The sending side alone, with restarts, a link that goes down, cancellation and expiry:

- `TypeCorrect`, `NoneIsStranded`, `QueueIsClean`: `SendingInv` says for each handler in
  progress what the stored record and the copy it read can be; a message in an active
  state has a retry time or one of these handlers, for whom the step that sets the
  time is still to come (until a restart; after one the property says nothing). The queue holds
  only active messages, because the write that ends one takes it out.
- `FailsAfterAllRetries`, `AttemptsAreBounded` (`OneTick`: retry ticks do not overlap):
  `SweepingInv` ties the count in the record, the copies of it and the attempts made.
  With two ticks both are false.

**LargePayload_proofs**, for any transfers, chunks, windows, retries, pumps and controls:

- `AllChunksAccounted`, `AcknowledgedEnds`, without a premise on the sends: every chunk of a
  started transfer waits, is on its way or is acknowledged (`Placed`), at one of these places
  unless a send failed after its ACK; what waits, what is on its way and the count of
  ACKs add up to the chunks and the number of such sends (`Sum`); the memory counter is
  never above the number of chunks on their way, and equal to it as long as there was no such
  send (`Guarded`); and of a transfer all of whose chunks are acknowledged some ACK handler
  is about to end it. The history variable `requeued` makes this inductive: the code itself
  keeps no trace of what it counted twice.
- `PayloadHandedOverOnce`, `ConfirmedKeptHere` (`UniqueRecords`): a transfer has one
  context, and one handler at most brings its payload; a second context is not made
  because its record is refused, which is why the in-memory repository is left out.
  `TypeCorrect` needs it too.
- `CompletedReachesReceiver` (this and `~StoreMayFail`): what the sender was told is held, so
  a transfer it completes without having counted a chunk twice is complete at the receiver.

**Replication_proofs** covers what keeps replicas alike, and the scheduler.
Replication, for any replicas, readers, clocks, edits and incidents:

- `MergeLaws`: the merge of receipts and of delivery states is commutative,
  associative and idempotent.
- `TypeCorrect`: with any number of overlapping calls. `TypeOK` says no version
  exceeds the number of edits allowed; the inductive `TypeInv` says that no version, in
  a replica, a device, a copy or an outcome, exceeds the edits made so far, since
  merging makes no version.
- `ReceiptsAreKept`: `ASSUME Serial, Unlimited PROVE Spec => []ReadsKept`. The
  outcome of a call is worked out from copies, so the invariant has to speak of
  calls in progress. `SerialInv` says that with one call at a time the copy a call
  read is still what the replica holds; `ReadsInv` that the outcomes it is about
  to write hold the receipts of the replicas they replace, and that
  the device still has what it registered. A resolution that takes one of two records is the
  exception stated in the property. Without `Serial` the theorem is false
  (overlapping calls lose updates), and without `Unlimited` the run
  `replication_by_category` is a counterexample.
- `MessagesNeverGoBack`: `Spec => NeverBack` under the same premises, from
  `MessagesInv`: what a call will write may replace what is there (`MayReplace`), which
  rests on the winner of a conflict being independent of the direction
  (`WinnerSymmetric`).

Synchronization, for any number of operations, queues and requests:

- `SessionsTyped`: what a late request writes has the cursor and the operations of
  its session.
- `AdvancedWasApplied`, premise `OneDrain`: one drain at a time, operations that do
  not fail, and sessions that are not paused, or else neither end nor restart.
  `DrainInv`: the applied operations have no gap below them (`Closed`), so a count of
  them names a prefix, and every queue, also those a request still holds after the
  session has another, marks only what was applied. The finding `sync_skips_operation`
  is what happens when `Closed` is lost.
- `AdvancedWasCounted`, premise `NoPause` (nor restart), for any number of overlapping
  drains, failing or not. `Closed` is false here. `CountInv` counts instead: a queue
  built after the end marks at most as many operations as the first one did, plus what
  was applied besides (`Later`), so a full count still means that all were applied.

ResourceScheduler, for any finite set of requests and any limits:

- `SchedulingTyped`, `ReservationsAdd`: allocated is the sum of what is reserved, and
  no more executions are dispatched than there are. Sums and the choice of a batch are
  recursive functions on finite sets; their laws (`Taking` of one request more or less) are proved
  by taking a least counterexample in the well-founded order of proper subsets, since
  the library's induction schemes are out of reach. `PickInv` is the invariant of the
  loop that fills a batch.
- `NobodyIsPassedOver`: no dispatch passes over an older request whose lane may go.
  Lanes are ordered by age (`OlderAhead`), which aging and removal keep.

**Groups_proofs**:

- `TicksOnlyRise`, `CountsMatchReceipts` (and `TickEarned`): one invariant relates the
  counters to the receipts, the report that holds the lock and its pending increment,
  those that failed, and the counters in the cache, which never exceed the stored ones.
- `EachDeviceOnce`: a leg is sent, in a request's hands or queued, at one of these places
  only, unless two requests found it in the database (`shared`).
  `NothingForgotten`: it is at one of them at least, unless it is in `lost`. Both for the
  queue in memory and in the database, and for resumes that fail.
- `InvitationsAreKept`: a save that replaces an array is of the version it read, so
  what it drops it had seen.
- `OwnerStaysIn`, `DeletedStaysEmpty`, `OperationsShow` (`MaxVersion # 0`): the group
  is as the list of writes still to come of the operation in progress will leave it,
  unless an operation was torn; its replica likewise, unless a refresh stored last.
- `KeyIsTheMembers`, `OneKeyAtATime`: `FitInv` says which epoch the request that holds
  the lock is about to store, and that the key in use is of the members as of its
  epoch until a change of them was missed.

**Security_proofs**:

- `KeysSealOnce`, `MessagesOpenOnce`, `OpenedKeysAreGone`, `KeysLast`, for any skip limit
  and cache size: used keys are behind the chain, and neither in the cache nor in a
  call's hands; keys not yet used are ahead of it, cached, in hand, or given up. After a
  failed skip one key may be at two of these places, and the invariant says that it is a twin.
- `EndedLeavesNoKeys`, `DestroyedStays`: the invariant says who of the calls still has
  to wipe; keys of an ended session imply such a call.
- `RecordTells`, `OneGenerationEachTime`, with overlapping calls, failing writes and
  restarts: what a call is about to write fits the key store at the generation it is of.
- `RestartsWithinBudget`: a restarted session, stored or about to be, counts one retry more
  than the one it follows, which is older and within the budget; so no chain has more
  restarts than retries are allowed, for any number of handshakes.
  `CompleteStaysBacked`: whoever is about to complete an agreement has seen both
  commitments and found that they agree, and they stay.
- `BurstsRekeyOnce`: only the trigger at the head of the lock's queue works; while it
  executes, no completed execution expected the same generation, and once its evolution
  succeeded the session has moved on (`TriggerFits`). `RekeysTyped` adds the bounds on
  attempts and executions.

**Fabric_proofs**:

- `MessagesShowOnce`, `AcknowledgedMeansShown`: what a poll is still to show was
  marked by it as seen before; what it acknowledges it has shown.
- `CompletedWasCollected`, `AcceptedIsKept` (one transfer, pulls that do not fail; the
  second without pauses): a chunk acknowledged at the relay is in the collector's hands,
  handed over, or the collector was refused.
- `SlotsAreAccounted`: slots are those of the operations in progress, whoever times out.
- `LookupsSearchOnce`, `TransfersResumeForward`, `RepairsAreAttended`, `NegotiationsFit`,
  `HistoriesTell`: each from what its requests in flight hold.

**MCServices_proofs** carries these over to the run `services`, whatever sets its
constants are: each part of `PartSpec` has its component's initial states and steps
(`StepsOfParts`), so the component's invariant holds as long as that part runs; the
lemmas `Same...` say that definitions of the component instantiated in MCServices and
in the proof module are the same. Proved are `EndedHasNoKeys`, `KeysLastUntilUsed`,
`TickIsEarned`, `InvitationsKept`, `MembersMatchGroup`, `ReplicaShowsGroup`,
`ChainWithinBudget`, `KeyFitsMembers`, `NothingTwice` and `NotForgotten`.

**Only model-checked.** All liveness is out of the prover's reach: `SettlesRunning`,
`ReachesAppInTheEnd`, `SeenInTheEnd`, `WaitingEnds`, `Converges`. Of `services`,
`NothingGoesBack` and `RecordsAreTrue` are model-checked as wholes: the theorem about
each of their components is proved (in the modules above, for Synchronization and
ChunkRelay under premises the instances of the run meet), but not carried over to the parts of
the run. `TypeOK` of `services` and of `progress` are model-checked; several of their
components have their types proved in the invariants above.

## 6. Where code and text disagree, and weaknesses without a run

### Shown by a run

- `inbound_app_order`: the `onMessage` documentation promises order.
  `_handleData` awaits `inbound.record` before each handler call, a second
  envelope releases the next messages meanwhile, and its calls come first.
- `replication_by_category`: `LAYER9_SPRINT2_STATE_REPLICATION.md` calls merging of
  receipts lossless. A synchronization limited to some categories stores a
  snapshot that has only those, and erases the rest on both sides.
- `sync_skips_operation`: LAYER9_SPRINT1 says a replica's versions advance to what was
  synchronized. The resume cursor is a count; after a failed operation and a pause
  it is read as a prefix of the plan, and the failed operation is skipped.
- `relay_mixes_transfers`: the relay "stores and forwards" chunks. The client numbers
  the chunks of every transfer from 0 and the database keeps one record for a
  chunkId (`mongoTransportRepository.js:80`, the unique index in
  `models/TransferChunk.model.js:15`), so transfers overwrite each other's chunks.
- `handshake_terminal`: `stateMachine.js:59` says terminal states are truly terminal.
  `_advance` and `_terminate` validate a copy and write whatever the record holds by now.

### Stated as a property, without a run of its own

Each property below is in the module named and does not mention the exception that its
sibling in a passing run makes. TLC finds each violated in the module alone, with the
constants given and otherwise the smallest that have the case.

| property | what the code does, against what is said |
|---|---|
| `TerminalIsFinal` of OutboundMessaging (`MaxRetries = 1`, no restart) | `data-plane/types/types.js:32` calls ACKNOWLEDGED terminal. `_transition` (`messagingEngine.js:421`) validates the copy the handler read and writes whatever the record holds by now: an ACK that comes while a transmission or a tick is at work is overwritten with SENDING, SENT, FAILED or EXPIRED |
| `CompletedMeansAllAcked` of ChunkSender (`LateSends`, two chunks) | `transport-engine/types/types.js:32` has COMPLETED mean "all chunks delivered". `_sendChunk` queues a chunk again when its send fails, also when the chunk was acknowledged before (`transportEngine.js:266`); its second ACK is counted too |
| `EachKeyOpensOnce` of MessageKeys (`MaxSkip = 2`) | `message-keys/metadata/metadata.js:41` says each key is used once. A skipped key is cached before the chain is advanced (`messageKeyManager.js:296`, `:298`); if the advance fails the key is at both places |
| `NothingIsDropped` of GroupFanout (`ResumeMayFail`) | a comment says a failed resume leaves the message queued (`groupCommunicationEngine.js:309`), but the queue was drained before (`:298`) |
| `NothingIsDropped` of GroupFanout (not `AtomicDrain`) | offline legs are deferred "for later resume" (`fanoutPlanner.js:8`). The database drains with a find and a deleteMany (`mongoGroupCommRepository.js:115-119`): what is queued in between is deleted unread |
| `AtMostOncePerDevice` of GroupFanout (not `AtomicDrain`, two requests) | delivery is "at-most-once per device" (`fanoutPlanner.js:11`). What two finds of the database return is sent by both |
| `ReplicaInSync` of GroupManager | a test says a replica is in sync when nothing changed (`replica-repository.test.js:60`). deleteGroup stores it (`groupManager.js:161`, `:559`) before the memberships are tombstones (`:162-167`) |
| `ReplicaNeverBack` of GroupManager | `groupManager.js:17-19` says versions are serialized per group. A refresh reads and stores without the lock (`:485-497`, `:564-567`), an older replica over a newer one |

### Met while modelling

Each of these is a sequence of steps the models allow, or the property that fails
when the premise named is dropped. They have no run, or the run rests on
the premise.

**Data plane and relay.** After a restart a receiver expects 1 again and a sender's
untried records have no timer (`ordering.js:26`, `messagingEngine.js:225`). Two
senders share one number sequence (`ordering.js:91`). A message counts as seen before
the store accepted it (`messagingEngine.js:160`). Retry ticks do not wait for each
other (`retransmission.js:113`). The relay marks messages DELIVERED before the
response arrives, so a lost response or failed ack loses the rest of a poll;
overlapping polls write DELIVERED over ACKNOWLEDGED (`relayService.js:77`);
`mongoMessageRepository.js:67-70` applies its limit to the oldest messages.

**Transport engine and relay.** Two chunks that arrive together each create a context
with the in-memory repository (`transportEngine.js:294`). COMPLETED cannot follow
PAUSED (`:625`). The context keeps a stale state after completion and failure
(`:442`), and ended transfers keep their bytes reserved (`:443`). At the relay: a pause
at the last acknowledgement loses the completion and the payload; `receiveTransfer` that fails
after an ack loses the chunks it had, and a new call polls for ever; cancellation
and completion overwrite each other, the receiver never learns of a cancellation,
two receivers split the chunks.

**Direct chat and group chat.** The sender's request writes DELIVERED over a message that
was marked read meanwhile: the receiver sees it as read, the database says delivered
until the conversation is opened again (`messageController.js:116`). A stale invitation
can leave a user both member and pending; overlapping invitations put a user on the
list twice.

**Handshake, key agreement, sessions.** Both keys may be there and the exchange not
moved on (`keyAgreementManager.js:183/195`). Rekeys that overlap, and expired
sessions, keep keys (`sessionManager.js:375-388`, `:322`); a stale write revives a
closed session (`:425`).

**Message keys, forward secrecy, evolution.** Re-rooting overlaps seal and open
(`messageKeyManager.js:98`); a failed opening burns the key (`:165`); more than
`maxSkip` lost messages block the chain (`:290`). A COMPLETED execution whose state
could not be stored evolves twice (`executionEngine.js:116-128`); a crash while
EXECUTING blocks later triggers; a cancelled execution may still run
(`automaticRekeyManager.js:295-310` against `evolution-policy/types/types.js:75`). In
session-evolution a stale advance takes the generation of the record back, a late
one revives RETIRED, a crash in EVOLVING blocks advances for ever, an advance
refused while EVOLVING is swallowed, overlapping advances count once.

**Groups.** A creation or an invitation may name a second owner
(`groupManager.js:141`, `:190`; `group/types/types.js:28` says "exactly one per group"),
and who rejoins keeps an old administrator role (`:252`); unmuting somebody who is not a member skips the capacity check (`:331`); leaving
works on an archived group (`:291`); a creation cut short leaves an owner without membership
(`:131`). A departure while the first key is being made, or after the key expired,
finds no active key and rotates nothing, so who left can derive the key in use
(`groupCommunicationEngine.js:159`, against `LAYER10_FINAL.md:192`). A crash loses what was drained; stale legs are rewritten whole (`:463`, `:498`).
Expired keys make the engine try number 1 again, which the unique index refuses for
ever; a failed rotation is swallowed (`:112`); the controllers never call
`attachToGroupEvents`. Receipts: a read of a member whose reads are not to count is counted, so the tick
turns blue before all others have read (`groupReceiptManager.js:157`), a stale view may return to the cache (`:217`),
`message_received` is recorded as read (`:319`).

**Replication, synchronization.** Overlapping calls lose updates
(`mergeEngine.js:93`, `:185`, `replicaManager.js:197`, `:295`). A resolution with
last-write-wins on receipts replaces their merge, and readers are gone
(`conflictResolver.js:45-63`, against the text `replication_by_category` quotes). Stale pauses and completions write
over a cancellation; operations whose response was lost are not handed out again until a
pause and resume.

**Presence, discovery, capabilities.** The sweep writes EXPIRED over a newer heartbeat
although `heartbeat.js:15-16` says such records are skipped; a device set online by
`setDeviceStatus` has no new lease (`presenceManager.js:346`). A RESOLVED discovery
session answers later lookups with its old result, and a lookup in progress refills the
cache after an invalidation, both against `discoveryManager.js:115-116`; each lookup
re-arms a negative entry (`:394`, `:419`); RESOLVED is written over a cancellation
(`:383`); `sweepExpired` has no caller. Registering a capability set again resets its
version to 1, so a negotiation in flight refills the cache with an old result
(against `cache.js:8-9`); overlapping updates give one version to two contents;
EXPIRED may be written over a refresh; a cached refusal always answers
NO_SHARED_TRANSPORT (`capabilityManager.js:270`).

**Reliability managers.** Network: hooks that do not ask (section 3); a crash in a
recovery leaves a state that only a heartbeat ends; the sweep throws on
CONNECTING each time; a late failed recovery writes FAILED over a connection a
heartbeat revived, a late heartbeat or recovery undoes CLOSED. Transport: overlapping
checkpoints go back (`transportReliabilityManager.js:129` says they never do); a late
recovery overwrites COMPLETED and ABANDONED; `complete` and `resume` are refused while
INTERRUPTED although `LAYER8_FINAL.md:97` calls it resumable; the recovery count is
never reset. Fabric: a timeout does not stop the executor; recovery runs outside the
bulkhead (`bulkhead.js:4-5`); a half-open breaker admits all calls
(`circuitBreaker.js:6-7`) and counts successes from before; refused operations count as
failures of the dependency; a checkpoint that cannot be closed after a success leads to
a second execution; `recoverInterrupted` gives up operations that are still queued.

**Optimization.** A batch is judged head by head and reserved after the loop, so one batch
over-commits all but executions. `complete`, `fail` and `cancel` have no caller in
production: reservations are never released, and the platform ends up deferring all
traffic that is not critical (against `executionCoordinator.js` and
LAYER12_SPRINT3:163, :220). Deferred plans come back as ids which nobody executes. A
head that is too large blocks its lane for ever, despite "starvation prevention"
(LAYER12_SPRINT3:107-108). `getExecutionPlan`, the dry run, schedules and allocates too.

**Not modelled parts.** Trust: verification is read, compared and written in steps that
overlap (`trustManager.js:105-110`, `:323-335`, `:359-367`). Device trust: an activation that
was read before a revocation revives the device; "first device" is check-then-create.
Peer-discovery-protocol: overlapping recoveries fail each other, ends overwrite each
other, a session served from the plan cache cannot fetch its plan by discovery id
(`peerDiscoveryManager.js:218-232`, `:351-354`). Key management: a lookup in flight refills
the cache after a deletion, rotating a rotated key makes a second active successor.
Media delivery: a repeated `completeUpload` stores media with gaps, a scheduler
slot is not freed.

## 7. What is not modelled

- Cryptography (`crypto-sdk`, crypto-engine, derivations, hardening): pure functions,
  audits and checks; models would restate library calls.
- Key management of the SDK, identity, device trust, trust, session integration,
  secure transport: one read and one write around a record; section 6 lists their
  overlaps. No code of the application uses the key manager.
- Cloudinary, the database drivers and the socket library: modelled only by what
  callers may see of them (an answer, a refusal, an error).
- Endpoint selection, adaptive routing, communication fabric, the policies and
  analytics of optimization: scoring and planning over configuration, without
  protocol state.
- Peer-discovery-protocol: a workflow over discovery, presence and capabilities, which
  are modelled; its sessions have the life cycle of those in PeerDiscovery.
- The `-reliability` managers of synchronization, groups and media: the scheme of
  TransferReliability over another record. networking-hardening: metrics, rate limits.
- Network discovery: input and output only.
- Media: its encryption and transport parts import `../../media`, which is not in
  the repository.
- Routes, mongoose schemas, React components: declarations and presentation.
- Of the modelled parts: event buses, statistics, histories, diagnostics,
  serializers, validators of input, and what the notes in `PROJECT.json` name.

The modelled definitions map some 7400 lines. Most of what remains of the 112000 lines of the
repository is of the kinds above: of each layer's ten to twenty files, one or two
hold the protocol and are modelled, the others are wrappers, schemas, events, metrics,
errors, validators, serializers and tests.

## 8. What could follow

1. `NothingGoesBack`, `RecordsAreTrue` and `TypeOK` of the run `services` as single
   theorems: all their parts but some types are proved, what is missing is the step
   from the component to the part for six of them.
2. Replication with overlapping calls: which comparison on write restores
   `ReadsKept` without `Serial`.
3. The device-side managers beside their stores (trust, key management), should the
   application come to use them.
4. For each entry of section 6 that is fixed: drop the premise in the
   corresponding instance and let the run show it.
