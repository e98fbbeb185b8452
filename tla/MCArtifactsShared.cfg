\* Two runs, one build with one content at both paths, no faults.
SPECIFICATION Spec
CONSTANTS
  p1 = p1
  p2 = p2
  a = a
  b = b
  r1 = r1
  r2 = r2
  Path = {p1, p2}
  Content = {a, b}
  Run = {r1, r2}
  BuildOf <- MCBuildOf
  Worker = {w1}
  BatchSize = 1
  MaxFaults = 0
INVARIANTS RowsHaveFiles
CHECK_DEADLOCK FALSE
