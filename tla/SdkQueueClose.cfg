\* What the comment in performClose says of a failing drain, against a transport
\* that fails while the queue closes.
SPECIFICATION Spec
CONSTANTS
  MaxQueueSize = 2
  MaxBatchSize = 2
  MaxAttempts = 2
  MaxEvents = 1
INVARIANT CloseNeverThrows
CHECK_DEADLOCK FALSE
