\* What the outbox comment and ADR 0001 promise of every accepted event, against
\* a handler that throws until the job's retries are used up.
SPECIFICATION FairSpec
CONSTANTS
  Event = {e1}
  Malformed = {}
  dispatcher = dispatcher
  reconciler = reconciler
  Pass <- MCPass
  Reconciler <- MCReconciler
  Slot = {w1}
  BatchSize = 1
  RetryLimit = 1
  MaxTime = 1
  MaxFaults = 0
PROPERTY EveryEventIsProcessed
CHECK_DEADLOCK FALSE
