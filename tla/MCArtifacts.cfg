\* Two runs of two files, two deletion loops, two faults.
SPECIFICATION FairSpec
CONSTANTS
  p1 = p1
  p2 = p2
  a = a
  b = b
  r1 = r1
  r2 = r2
  Path = {p1, p2}
  Content = {a, b}
  Run = {r1, r2}
  BuildOf <- MCBuildOf
  Worker = {w1, w2}
  BatchSize = 1
  MaxFaults = 2
INVARIANTS TypeOK SuccessMeansStored RecordHasFile NoFileOutlivesProject
PROPERTIES EveryDeletionEnds
CHECK_DEADLOCK FALSE
