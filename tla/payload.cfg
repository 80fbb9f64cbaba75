SPECIFICATION PartSpec
CONSTANTS
  Transfers = {t1}
  ChunkCount = 2
  Window = 2
  AdvertisedWindows = {2}
  MaxInFlight = 2
  MaxChunkRetries = 1
  MaxPumps = 1
  Allowed = {}
  LateSends = FALSE
  MaxRequeued = 1
  UniqueRecords = TRUE
  StoreMayFail = FALSE
  InboundEnds = {}
  MaxContexts = 2
INVARIANTS
  TypeOK ChunksAccounted EndsWhenAcked
  PayloadOnce ConfirmedIsHeld CompletedHasArrived
CHECK_DEADLOCK FALSE
