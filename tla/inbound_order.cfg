SPECIFICATION Spec
CONSTANTS
  Senders = {s1}
  MaxSeq = 4
  MaxAcks = 1
  BufferLimit = 2
  DedupeSize = 2
  MaxRestarts = 1
  RecordMayFail = TRUE
INVARIANTS TypeOK ReleasedInOrder BufferWaitsForHole BufferIsBounded AtMostOnce
CHECK_DEADLOCK FALSE
