---------------------------- MODULE GroupManager ----------------------------
(***************************************************************************)
(* One managed group: its record, its memberships and its replica state    *)
(* (server/group/manager/groupManager.js with membership, roles,           *)
(* lifecycle, replica state and validators).  An operation holds the       *)
(* group's lock, decides on what it reads and then awaits one write after  *)
(* the other, memberships before the record and the record before the      *)
(* replica; "work" is what it has still to write.  The process may fail in *)
(* between, and a refresh of the replica takes no lock.                    *)
(***************************************************************************)
EXTENDS Naturals, Sequences, FiniteSets

CONSTANTS
  Users,
  MaxMembers,  \* maxMembers
  Public,      \* whether the group's visibility is public
  MaxVersion,  \* bound: operations start below this version of the group
  MayFail      \* whether an operation may end between two writes

GroupManagerAssumption ==
  /\ IsFiniteSet(Users) /\ MaxMembers \in Nat /\ MaxVersion \in Nat
  /\ Public \in BOOLEAN /\ MayFail \in BOOLEAN

VARIABLES
  group,       \* the record: owner, state, version
  memberships, \* role and state of each user's membership
  replica,     \* the stored replica state: version and memberships it shows
  work,        \* writes of the operation that holds the lock
  draft,       \* the snapshot it has built for the replica
  refreshing,  \* what a refresh outside the lock has read
  torn         \* whether an operation failed between two writes

vars == <<group, memberships, replica, work, draft, refreshing, torn>>

\* Moderators and guests have fewer permissions than administrators and
\* change nothing of their own: these three stand for the five roles.
Roles == {"owner", "administrator", "member"}
Rank == [owner |-> 100, administrator |-> 80, member |-> 40, nobody |-> 0]

InGroup == {"active", "muted", "archived"}

\* MEMBERSHIP_TRANSITIONS
Moves ==
  [none     |-> {},
   invited  |-> {"active", "left", "removed", "banned", "deleted"},
   pending  |-> {"active", "removed", "banned", "deleted"},
   active   |-> {"muted", "archived", "left", "removed", "banned", "deleted"},
   muted    |-> {"active", "archived", "left", "removed", "banned", "deleted"},
   archived |-> {"active", "muted", "left", "removed", "banned", "deleted"},
   left     |-> {"active", "invited", "removed", "banned", "deleted"},
   removed  |-> {"active", "invited", "banned", "deleted"},
   banned   |-> {"removed", "deleted"},
   deleted  |-> {}]

NoMembership == [state |-> "none", role |-> "member"]
Nothing == [version |-> 0, memberships |-> [u \in Users |-> NoMembership]]
NoRefresh == [step |-> "none"]

Init ==
  /\ group = [owner |-> "nobody", state |-> "none", version |-> 0]
  /\ memberships = [u \in Users |-> NoMembership]
  /\ replica = Nothing /\ draft = Nothing
  /\ work = <<>> /\ refreshing = NoRefresh /\ torn = FALSE

\* transitionMembership; the same state again is no change.
CanBecome(u, state) ==
  state \in Moves[memberships[u].state] \cup ({memberships[u].state} \ {"none"})

\* _role and the default permissions.
RoleOf(u) == IF u = group.owner THEN "owner"
             ELSE IF memberships[u].state \in InGroup THEN memberships[u].role
             ELSE "nobody"
Manages(u) == RoleOf(u) \in {"owner", "administrator"}

\* canManageMember
CanManage(a, u) == RoleOf(a) = "owner" \/ Rank[RoleOf(a)] > Rank[memberships[u].role]

\* canAssignRole
CanAssign(a, u, role) ==
  /\ role # "owner"
  /\ CanManage(a, u)
  /\ RoleOf(a) = "owner" \/ Rank[RoleOf(a)] > Rank[role]

\* _assertCapacity
HasRoom == Cardinality({u \in Users : memberships[u].state \in InGroup}) < MaxMembers

(***************************************************************************)
(* Operations: what they check and what they are going to write.           *)
(***************************************************************************)

Unlocked == work = <<>> /\ group.version < MaxVersion
Active == Unlocked /\ group.state = "active"

Do(writes) ==
  /\ work' = writes
  /\ UNCHANGED <<group, memberships, replica, draft, refreshing, torn>>

Member(u, state, role) ==
  [write |-> "membership", user |-> u, state |-> state, role |-> role]

\* _applyVersion: the record with its next version, then _refreshReplica.
Record(owner, state) ==
  <<[write |-> "group", owner |-> owner, state |-> state],
    [write |-> "list"], [write |-> "replica"]>>

\* Mutation: the replica is built before the membership is written.
BecomeLast(u, state, role) ==
  Do(Record(group.owner, group.state) \o <<Member(u, state, role)>>)

Become(u, state, role) ==
  Do(<<Member(u, state, role)>> \o Record(group.owner, group.state))

\* createGroup, with at most one of the initial members it may name.
Create(u) ==
  /\ work = <<>> /\ group.state = "none"
  /\ \E others \in {<<>>} \cup {<<Member(o, "active", r)>> :
                                  o \in Users \ {u}, r \in Roles} :
       Do(<<Record(u, "active")[1], Member(u, "active", "owner")>> \o others
          \o <<[write |-> "list"], [write |-> "replica"]>>)

Invite(a, u, role) ==
  /\ Active /\ Manages(a)
  /\ \/ memberships[u].state = "none"
     \/ memberships[u].state # "invited" /\ CanBecome(u, "invited")
  /\ Become(u, "invited", role)

Accept(u) ==
  /\ Active /\ memberships[u].state = "invited" /\ HasRoom
  /\ Become(u, "active", memberships[u].role)

Reject(u) ==
  /\ Active /\ memberships[u].state = "invited"
  /\ Become(u, "left", memberships[u].role)

\* joinGroup: a public group takes the user in, otherwise it is a request.
Join(u) ==
  /\ Active /\ memberships[u].state \notin InGroup
  /\ IF Public
       THEN /\ HasRoom
            /\ memberships[u].state = "none" \/ CanBecome(u, "active")
            /\ Become(u, "active", memberships[u].role)
       ELSE /\ memberships[u].state \in {"none", "pending"}
            /\ Become(u, "pending", memberships[u].role)

Approve(a, u) ==
  /\ Active /\ Manages(a) /\ memberships[u].state = "pending" /\ HasRoom
  /\ Become(u, "active", memberships[u].role)

\* Mutation: in every state of the group, and whoever it is.
LeaveAnyone(u) ==
  /\ Unlocked /\ CanBecome(u, "left")
  /\ Become(u, "left", memberships[u].role)

\* leaveGroup: not the owner, but whatever the state of the group.
Leave(u) ==
  /\ Unlocked /\ group.state # "none" /\ u # group.owner
  /\ CanBecome(u, "left")
  /\ Become(u, "left", memberships[u].role)

\* removeMember, banMember, muteMember, unmuteMember
Administer(a, u, state) ==
  /\ Active /\ Manages(a) /\ u # group.owner
  /\ CanBecome(u, state) /\ CanManage(a, u)
  /\ Become(u, state, memberships[u].role)

\* Mutation: the new owner need not be in the group.
TransferToAnyone(u) ==
  /\ Active /\ u # group.owner /\ memberships[u].state # "none"
  /\ Do(<<Member(u, memberships[u].state, "owner"),
          Member(group.owner, memberships[group.owner].state, "administrator")>>
        \o Record(u, group.state))

\* transferOwnership, by the owner.
Transfer(u) ==
  /\ Active /\ u # group.owner /\ memberships[u].state \in InGroup
  /\ Do(<<Member(u, memberships[u].state, "owner"),
          Member(group.owner, memberships[group.owner].state, "administrator")>>
        \o Record(u, group.state))

ChangeRole(a, u, role) ==
  /\ Active /\ Manages(a) /\ u # group.owner
  /\ memberships[u].state # "none" /\ memberships[u].role # role
  /\ CanAssign(a, u, role)
  /\ Become(u, memberships[u].state, role)

\* updateMetadata, updatePermissions: the record only.
Edit(a) == Active /\ Manages(a) /\ Do(Record(group.owner, group.state))

\* archiveGroup, restoreGroup
Archive(a) == Active /\ Manages(a) /\ Do(Record(group.owner, "archived"))

Restore(a) == /\ Unlocked /\ group.state = "archived" /\ Manages(a)
              /\ Do(Record(group.owner, "active"))

\* Mutation: the memberships are left as they are.
DeleteRecordOnly(a) ==
  /\ Unlocked /\ group.state # "none" /\ RoleOf(a) = "owner"
  /\ Do(Record(group.owner, "deleted"))

\* deleteGroup: the record, then each membership.
Delete(a) ==
  /\ Unlocked /\ group.state # "none" /\ RoleOf(a) = "owner"
  /\ Do(Record(group.owner, "deleted") \o <<[write |-> "tombstones"]>>)

(***************************************************************************)
(* Writes.                                                                 *)
(***************************************************************************)

Snapshot(version) == [version |-> version, memberships |-> memberships]

WriteMembership(w) ==
  /\ w.write = "membership"
  /\ memberships' = [memberships EXCEPT ![w.user] = [state |-> w.state, role |-> w.role]]
  /\ work' = Tail(work)
  /\ UNCHANGED <<group, replica, draft>>

WriteGroup(w) ==
  /\ w.write = "group"
  /\ group' = [owner |-> w.owner, state |-> w.state, version |-> group.version + 1]
  /\ work' = Tail(work)
  /\ UNCHANGED <<memberships, replica, draft>>

ListMemberships(w) ==
  /\ w.write = "list"
  /\ draft' = Snapshot(group.version)
  /\ work' = Tail(work)
  /\ UNCHANGED <<group, memberships, replica>>

WriteReplica(w) ==
  /\ w.write = "replica"
  /\ replica' = draft /\ draft' = Nothing
  /\ work' = Tail(work)
  /\ UNCHANGED <<group, memberships>>

\* The memberships, one after the other, become tombstones.
WriteTombstone(w) ==
  LET left == {u \in Users : memberships[u].state \notin {"none", "deleted"}}
  IN /\ w.write = "tombstones"
     /\ IF left = {}
          THEN work' = Tail(work) /\ UNCHANGED memberships
          ELSE /\ \E u \in left : memberships' = [memberships EXCEPT ![u].state = "deleted"]
               /\ UNCHANGED work
     /\ UNCHANGED <<group, replica, draft>>

Write ==
  /\ work # <<>>
  /\ LET w == Head(work)
     IN \/ WriteMembership(w) \/ WriteGroup(w) \/ ListMemberships(w)
        \/ WriteReplica(w) \/ WriteTombstone(w)
  /\ UNCHANGED <<refreshing, torn>>

\* A write fails or the process ends; the lock is free again.  Not while the
\* group is being created: see the README.  Bound: once.
Tear ==
  /\ MayFail /\ ~ torn /\ work # <<>> /\ group.state # "none"
  /\ memberships[group.owner].state # "none"
  /\ work' = <<>> /\ torn' = TRUE /\ draft' = Nothing
  /\ UNCHANGED <<group, memberships, replica, refreshing>>

\* refreshReplicaState, getReplicaState: the record, the memberships, the
\* replica, without the lock.  Bound: one refresh.
Refresh ==
  /\ group.state # "none" /\ refreshing.step # "done"
  /\ CASE refreshing.step = "none" ->
            /\ refreshing' = [step |-> "list", version |-> group.version]
            /\ UNCHANGED replica
       [] refreshing.step = "list" ->
            /\ refreshing' = [step |-> "store", replica |-> Snapshot(refreshing.version)]
            /\ UNCHANGED replica
       [] refreshing.step = "store" ->
            replica' = refreshing.replica /\ refreshing' = [refreshing EXCEPT !.step = "done"]
  /\ UNCHANGED <<group, memberships, work, draft, torn>>

Next ==
  \/ Write \/ Tear \/ Refresh
  \/ \E u \in Users :
       \/ Create(u) \/ Accept(u) \/ Reject(u) \/ Join(u) \/ Leave(u) \/ Transfer(u)
       \/ Edit(u) \/ Archive(u) \/ Restore(u) \/ Delete(u)
       \/ \E a \in Users :
            \/ Approve(a, u)
            \/ \E state \in {"removed", "banned", "muted", "active"} : Administer(a, u, state)
            \/ \E role \in Roles : Invite(a, u, role) \/ ChangeRole(a, u, role)

Spec == Init /\ [][Next]_vars

-----------------------------------------------------------------------------

TypeOK ==
  /\ group \in [owner : Users \cup {"nobody"}, version : 0..MaxVersion,
                state : {"none", "active", "archived", "deleted"}]
  /\ memberships \in [Users -> [state : DOMAIN Moves, role : Roles]]
  /\ replica.version \in 0..MaxVersion /\ draft.version \in 0..MaxVersion
  /\ refreshing.step \in {"none", "list", "store", "done"} /\ torn \in BOOLEAN

\* Whoever the group names its owner is in it, once its membership was first
\* stored: no sequence of transfers, departures and failed operations leaves
\* a group to somebody outside (assertNotOwner, transferOwnership).
OwnerIsIn ==
  group.state \in {"active", "archived"} =>
    memberships[group.owner].state \in InGroup \cup {"none"}

\* Between operations the stored replica shows a living group as it is, however
\* many writes each operation made and whatever refreshes read meanwhile.  The
\* exceptions: an operation failed half way, or a refresh outside the lock has
\* stored last, which may have read the group before an operation changed it.
\* Not a deleted group: deleteGroup stores the replica before the tombstones.
Refreshed == refreshing.step = "done" /\ replica = refreshing.replica
ReplicaShowsGroup ==
  work = <<>> /\ ~ torn /\ group.state \in {"active", "archived"} =>
    replica = Snapshot(group.version) \/ Refreshed

\* "refreshReplicaState reports in-sync when nothing changed": between operations
\* the first replica that is built anew is the one that is stored.
ReplicaInSync ==
  work = <<>> /\ ~ torn /\ group.state # "none" /\ refreshing.step = "none" =>
    replica = Snapshot(group.version)

\* "version bumps never interleave or lose a write (deterministic, monotonic
\* versions)": no write takes the stored replica back to an older version.
ReplicaNeverBack == [][replica'.version >= replica.version]_vars

\* Nobody is in a deleted group or comes into it, unless its deletion failed
\* half way.
DeletedIsEmpty ==
  group.state = "deleted" /\ work = <<>> /\ ~ torn =>
    \A u \in Users : memberships[u].state \in {"none", "deleted"}

\* "the single ultimate authority; exactly one per group"
OneOwner ==
  work = <<>> /\ ~ torn => \A u, v \in Users :
    memberships[u].role = "owner" /\ memberships[v].role = "owner" => u = v
=============================================================================
