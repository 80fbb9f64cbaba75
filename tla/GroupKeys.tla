------------------------------ MODULE GroupKeys ------------------------------
(***************************************************************************)
(* The key of one group                                                    *)
(* (server/group-communication/manager/groupCommunicationEngine.js with    *)
(* key-management/).  The engine follows the group's membership: a member  *)
(* that joins or leaves makes an event, whose handler rotates the key if   *)
(* the group has one.  Establishing and rotating take a lock per group;    *)
(* the handler's first look and the sweep of expired keys take none.       *)
(*                                                                         *)
(* A key is what the engine records of it, and `knows`, those who can      *)
(* derive it: a fresh secret is given to the members of the moment, a      *)
(* ratcheted one can be derived by everyone who knew the one before.       *)
(***************************************************************************)
EXTENDS Integers, FiniteSets

CONSTANTS
  Users,       \* those that join and leave
  Callers,     \* operations that may be in flight at the same time
  MaxVersion,  \* bound: versions of the key
  MaxChanges,  \* bound: joins and leaves
  MaxExpired   \* bound: keys that the sweep finds expired

GroupKeysAssumption ==
  /\ {MaxVersion, MaxChanges, MaxExpired} \subseteq Nat
  /\ "no one" \notin Callers

VARIABLES
  members, \* the directory's active members
  keys,    \* the record of each version, or NoKey
  secret,  \* who can derive the provider's current secret, {} when it has none
  lock,    \* the operation that holds the group's lock
  calls,   \* what each operation is at
  bounds,  \* changes and expiries so far
  missed   \* a change of the members found no active key and was dropped,
           \* while a key was being made or after one had been

vars == <<members, keys, secret, lock, calls, bounds, missed>>

Versions == 1..MaxVersion
NoKey == [state |-> "none", for |-> {}, knows |-> {}]
NoOne == "no one"
Idle == [op |-> "idle"]
\* FRESH_SECRET_TRIGGERS, of the triggers modelled
FreshTriggers == {"leave"}
Triggers == FreshTriggers \cup {"join", "manual", "establish"}

\* findActive: the newest active version, 0 when there is none.
Newest(S) == IF S = {} THEN 0 ELSE CHOOSE v \in S : \A w \in S : w <= v
ActiveVersions == {v \in Versions : keys[v].state = "active"}
Active == Newest(ActiveVersions)

Init ==
  /\ members \in SUBSET Users
  /\ keys = [v \in Versions |-> NoKey]
  /\ secret = {} /\ lock = NoOne /\ missed = FALSE
  /\ calls = [c \in Callers |-> Idle]
  /\ bounds = [changes |-> 0, expired |-> 0]

Busy(c, call) == calls' = [calls EXCEPT ![c] = call]
Release(c) == Busy(c, Idle) /\ lock' = NoOne

\* The group manager's event: a member joined, or left, and its handler.
Change(c, trigger, changed) ==
  /\ calls[c] = Idle /\ bounds.changes < MaxChanges
  /\ members' = changed
  /\ bounds' = [bounds EXCEPT !.changes = @ + 1]
  /\ Busy(c, [op |-> "look", trigger |-> trigger])
  /\ UNCHANGED <<keys, secret, lock, missed>>

MemberJoined(c, u) == u \notin members /\ Change(c, "join", members \cup {u})
MemberLeft(c, u) == u \in members /\ Change(c, "leave", members \ {u})

\* handleMembershipChange: without an active key there is nothing to rotate.
Look(c) ==
  /\ calls[c].op = "look"
  /\ IF Active = 0
       THEN Busy(c, Idle) /\ missed' = (missed \/ lock # NoOne \/ secret # {})
       ELSE Busy(c, [op |-> "wait", trigger |-> calls[c].trigger])
            /\ UNCHANGED missed
  /\ UNCHANGED <<members, keys, secret, lock, bounds>>

\* establishGroupKey, rotateGroupKey called by a member.
Ask(c, trigger) ==
  /\ calls[c] = Idle /\ members # {}
  /\ Busy(c, [op |-> "wait", trigger |-> trigger])
  /\ UNCHANGED <<members, keys, secret, lock, bounds, missed>>

\* Mutation: nobody waits for the others.
EnterUnlocked(c) ==
  /\ calls[c].op = "wait"
  /\ Busy(c, [op |-> "draw", trigger |-> calls[c].trigger, for |-> members])
  /\ UNCHANGED <<members, keys, secret, lock, bounds, missed>>

\* The operation's turn: it reads the members (_activeMemberIds).
Enter(c) ==
  /\ calls[c].op = "wait" /\ lock = NoOne
  /\ lock' = c
  /\ Busy(c, [op |-> "draw", trigger |-> calls[c].trigger, for |-> members])
  /\ UNCHANGED <<members, keys, secret, bounds, missed>>

\* Mutation: every rotation ratchets.
DrawnRatcheting(call) == secret \cup call.for

\* keyProvider: who can derive the next secret.
Drawn(call) ==
  IF call.trigger \in FreshTriggers \cup {"establish"} \/ secret = {}
    THEN call.for ELSE secret \cup call.for

\* The next secret, which the provider keeps at once, and the key before the
\* new one: createInitialKey is refused when there is one.
Draw(c) ==
  LET call == calls[c]
  IN /\ call.op = "draw"
     /\ secret' = Drawn(call)
     /\ IF call.trigger = "establish" /\ Active # 0
          THEN Release(c)
          ELSE /\ Busy(c, [op |-> "store", old |-> Active,
                           for |-> call.for, knows |-> secret'])
               /\ UNCHANGED lock
     /\ UNCHANGED <<members, keys, bounds, missed>>

\* The new key is numbered after the one before it.  The store takes a number
\* only once (unique index), so after the expiry of the active key the group
\* gets no key any more: it would be number 1 again.
Store(c) ==
  LET call == calls[c]
      next == call.old + 1
  IN /\ call.op = "store" /\ next <= MaxVersion
     /\ IF keys[next] # NoKey
          THEN Release(c) /\ UNCHANGED keys
          ELSE /\ keys' = [keys EXCEPT ![next] =
                    [state |-> "active", for |-> call.for, knows |-> call.knows]]
               /\ Busy(c, [op |-> "supersede", old |-> call.old])
               /\ UNCHANGED lock
     /\ UNCHANGED <<members, secret, bounds, missed>>

\* Mutation: the key before stays active.
SupersedeNothing(c) ==
  /\ calls[c].op = "supersede"
  /\ Release(c)
  /\ UNCHANGED <<members, keys, secret, bounds, missed>>

\* The rest of rotateKey: the key that was active is superseded, whatever
\* the sweep made of it meanwhile.
Supersede(c) ==
  /\ calls[c].op = "supersede"
  /\ keys' = IF calls[c].old = 0 THEN keys
             ELSE [keys EXCEPT ![calls[c].old].state = "superseded"]
  /\ Release(c)
  /\ UNCHANGED <<members, secret, bounds, missed>>

\* sweepExpired, without the lock, of a key whose lifetime has passed.
Expire(v) ==
  /\ keys[v].state \in {"active", "superseded"}
  /\ bounds.expired < MaxExpired
  /\ bounds' = [bounds EXCEPT !.expired = @ + 1]
  /\ keys' = [keys EXCEPT ![v].state = "expired"]
  /\ UNCHANGED <<members, secret, lock, calls, missed>>

Next ==
  \/ \E c \in Callers :
       \/ \E u \in Users : MemberJoined(c, u) \/ MemberLeft(c, u)
       \/ Ask(c, "establish") \/ Ask(c, "manual")
       \/ Look(c) \/ Enter(c) \/ Draw(c) \/ Store(c) \/ Supersede(c)
  \/ \E v \in Versions : Expire(v)

Spec == Init /\ [][Next]_vars

-----------------------------------------------------------------------------
\* The types, and that a caller in its turn holds the lock.
TypeOK ==
  /\ members \subseteq Users /\ secret \subseteq Users /\ missed \in BOOLEAN
  /\ \A v \in Versions :
       /\ keys[v].state \in {"none", "active", "superseded", "expired"}
       /\ keys[v].for \subseteq Users /\ keys[v].knows \subseteq Users
  /\ \A c \in Callers : calls[c].op \in {"draw", "store", "supersede"} <=> lock = c

Quiet == \A c \in Callers : calls[c] = Idle

\* Once every change of the members has been handled, the active key was made
\* for exactly the members there are and nobody else can derive it - unless a
\* change found no key to rotate while one was being made or had expired.  Of two rotations in a row the second one
\* reads the members again, and a departure that is rotated after a later join
\* still renews the secret.
KeyFitsMembers ==
  Quiet /\ Active # 0 /\ ~ missed =>
    keys[Active].for = members /\ keys[Active].knows = members

\* The same without the exception, as the security table of the docs has it:
\* a departed member cannot derive the key in use.
DepartedIsExcluded == Quiet /\ Active # 0 => keys[Active].knows \subseteq members

\* At rest, no older version is left active beside the one in use.
OneKeyInUse == lock = NoOne => Cardinality(ActiveVersions) <= 1
=============================================================================
