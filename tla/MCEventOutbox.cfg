\* Batches of one row, so that one row can hold up the other; one consumer whose
\* job can expire and be delivered again; one crash or lost connection.
SPECIFICATION FairSpec
CONSTANTS
  Event = {e1, e2}
  Malformed = {e2}
  dispatcher = dispatcher
  reconciler = reconciler
  Pass <- MCPass
  Reconciler <- MCReconciler
  Slot = {w1}
  BatchSize = 1
  RetryLimit = 1
  MaxTime = 2
  MaxFaults = 1
INVARIANTS TypeOK NoSilentOrphan
PROPERTIES DispatchedRowsSettle EveryEventEnds
\* Once every event is ingested and settled nothing is left to do.
CHECK_DEADLOCK FALSE
