SPECIFICATION SendingSpec
CONSTANTS
  Senders = {s1}
  MaxSeq = 1
  MaxAcks = 1
  MaxRetries = 1
  MaxRestarts = 1
  Sweepers = {tick}
  Allowed = {}
  BufferLimit = 1
  DedupeSize = 1
  Loss = FALSE
  Duplication = FALSE
INVARIANTS
  TypeOK NotStranded FailedAfterAllRetries QueueForgets
PROPERTIES SettlesRunning
CHECK_DEADLOCK FALSE
