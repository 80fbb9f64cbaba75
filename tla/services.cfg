SPECIFICATION PartSpec
CONSTANTS
  Actors = {c1, c2}
  People = {u1, u2}
  Admin = admin
SYMMETRY Symmetry
INVARIANTS
  TypeOK NothingTwice NotForgotten KeysLastUntilUsed RecordsAreTrue MembersMatchGroup
  ChainWithinBudget EndedHasNoKeys TickIsEarned KeyFitsMembers
  ReplicaShowsGroup
PROPERTIES
  NothingGoesBack InvitationsKept
CHECK_DEADLOCK FALSE
