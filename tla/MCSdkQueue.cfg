\* Five events, a queue of two and batches of two, so that a failed batch comes
\* back to a full queue; two attempts at either level.
SPECIFICATION FairSpec
CONSTANTS
  MaxQueueSize = 2
  MaxBatchSize = 2
  MaxAttempts = 2
  MaxEvents = 5
INVARIANTS TypeOK BoundedMemory NothingStranded CaptureOrder SendsBounded
PROPERTY EveryEventLeaves
\* Once every event is captured and the SDK is closed nothing is left to do.
CHECK_DEADLOCK FALSE
