SPECIFICATION Spec
CONSTANTS
  Callers = {c1}
  MaxOps = 2
  MaxOpRetries = 1
  Drains = 1
  MayFail = TRUE
  MayPause = TRUE
  MayEnd = FALSE
  MaxRestarts = 0
  MaxQueues = 1
INVARIANTS AdvancedIsApplied
CHECK_DEADLOCK FALSE
