SPECIFICATION Spec
CONSTANTS
  Senders = {s1}
  MaxSeq = 3
  MaxAcks = 1
  BufferLimit = 3
  DedupeSize = 3
  MaxRestarts = 0
  RecordMayFail = FALSE
INVARIANTS AppInOrder
CHECK_DEADLOCK FALSE
