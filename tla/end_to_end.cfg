SPECIFICATION EndsSpec
CONSTANTS
  Senders = {s1}
  MaxSeq = 2
  MaxAcks = 1
  MaxRetries = 1
  MaxRestarts = 0
  BufferLimit = 2
  DedupeSize = 1
  Sweepers = {tick}
  Allowed = {}
  Loss = TRUE
  Duplication = FALSE
INVARIANTS AcknowledgedIsHeld
PROPERTIES KeepsPromise ReachesAppInTheEnd
CHECK_DEADLOCK FALSE
