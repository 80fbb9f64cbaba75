SPECIFICATION Spec
CONSTANTS
  Transfers = {t1, t2}
  ChunkCount = 2
  Controls = {}
  MayFail = FALSE
INVARIANT RelayedIsKept
CHECK_DEADLOCK FALSE
