SPECIFICATION FairSpec
CONSTANTS
  Replicas = {1, 2, 3}
  Readers = {u1, u2}
  Categories = {"messages", "read-receipts"}
  Authority = 0
  Times = {1, 2}
  Sources = {3}
  CategoryChoices = {{"messages", "read-receipts"}}
  Counts = {1}
  MaxCalls = 1
  MaxEdits = 3
  MaxIncidents = 1
INVARIANTS TypeOK ReadsKept
PROPERTIES NeverBack Converges
CHECK_DEADLOCK FALSE
