------------------------------ MODULE GroupChat ------------------------------
(***************************************************************************)
(* The membership of one chat group                                        *)
(* (server/controllers/groupController.js, server/models/Group.model.js).  *)
(* Each request reads the group's document, changes its copy and saves it. *)
(* Mongoose saves what changed: an element pushed on an array is pushed on *)
(* whatever the array is by now, an array that was assigned replaces the   *)
(* stored one, provided the document's version is still the one read.      *)
(***************************************************************************)
EXTENDS Naturals

CONSTANTS
  Users,      \* one of them, Admin, creates the group
  Admin,
  Callers,    \* requests that may be in flight at the same time
  MaxChanges  \* bound: saves that count up the document's version

GroupChatAssumption == Admin \in Users /\ MaxChanges \in Nat

VARIABLES
  members, \* how often each user is in the members array
  pending, \* how often each user is in the pendingMembers array
  version, \* the document's version
  calls    \* what each request has read and is about to save

vars == <<members, pending, version, calls>>

Idle == [op |-> "idle"]
Free(c) == calls[c] = Idle
Busy(c, call) == calls' = [calls EXCEPT ![c] = call]

\* createGroup: whoever is named, once or twice, is invited.
Init ==
  /\ members = [u \in Users |-> IF u = Admin THEN 1 ELSE 0]
  /\ pending \in [Users -> 0..2]
  /\ version = 0
  /\ calls = [c \in Callers |-> Idle]

\* inviteToGroup up to the save: a member or an invited user is refused.
Invite(c, u) ==
  /\ Free(c) /\ members[u] = 0 /\ pending[u] = 0
  /\ Busy(c, [op |-> "invite", user |-> u])
  /\ UNCHANGED <<members, pending, version>>

SaveInvite(c) ==
  /\ calls[c].op = "invite"
  /\ pending' = [pending EXCEPT ![calls[c].user] = @ + 1]
  /\ version' = version + 1
  /\ Busy(c, Idle)
  /\ UNCHANGED members

\* acceptInvite, rejectInvite up to the save.  Without an invitation there
\* is nothing to save.
Answer(c, u, accepts) ==
  /\ Free(c) /\ pending[u] > 0
  /\ Busy(c, [op |-> "answer", user |-> u, accepts |-> accepts,
              pending |-> [pending EXCEPT ![u] = 0], version |-> version])
  /\ UNCHANGED <<members, pending, version>>

\* Mutation: the version of the document is not compared.
SaveAnswerUnversioned(c) ==
  LET call == calls[c]
  IN /\ call.op = "answer"
     /\ pending' = call.pending
     /\ members' = IF call.accepts THEN [members EXCEPT ![call.user] = @ + 1]
                   ELSE members
     /\ version' = version + 1
     /\ Busy(c, Idle)

\* The array of invitations is replaced, a new member is pushed.
SaveAnswer(c) ==
  LET call == calls[c]
  IN /\ call.op = "answer" /\ call.version = version
     /\ pending' = call.pending
     /\ members' = IF call.accepts THEN [members EXCEPT ![call.user] = @ + 1]
                   ELSE members
     /\ version' = version + 1
     /\ Busy(c, Idle)

\* VersionError: the request fails.
SaveRefused(c) ==
  /\ calls[c].op = "answer" /\ calls[c].version # version
  /\ Busy(c, Idle)
  /\ UNCHANGED <<members, pending, version>>

Next ==
  \E c \in Callers :
    \/ SaveAnswer(c) \/ SaveRefused(c) \/ SaveInvite(c)
    \/ /\ version < MaxChanges
       /\ \E u \in Users :
            Invite(c, u) \/ Answer(c, u, TRUE) \/ Answer(c, u, FALSE)

Spec == Init /\ [][Next]_vars

-----------------------------------------------------------------------------

TypeOK ==
  /\ members \in [Users -> Nat] /\ pending \in [Users -> Nat]
  /\ version \in Nat
  /\ \A c \in Callers : calls[c].op \in {"idle", "invite", "answer"}

\* An invitation stays until the invited user's own answer is saved: answers
\* and invitations that are saved meanwhile do not lose it (acceptInvite and
\* rejectInvite replace the whole array).
KeepsInvitations ==
  \A u \in Users : pending[u] > 0 /\ pending'[u] = 0 =>
     \E c \in Callers : /\ calls[c].op = "answer" /\ calls[c].user = u
                        /\ calls'[c] = Idle

\* A user joins by saving an acceptance of an invitation that was there until
\* then: an answer that was given twice at the same time counts once.
JoinsByInvitation ==
  \A u \in Users : members'[u] > members[u] =>
     members'[u] = members[u] + 1 /\ pending[u] > 0
InvitationsKept == [][KeepsInvitations /\ JoinsByInvitation]_vars

=============================================================================
