\* Two queries on screen, two types of updates about two issues; a queue of one,
\* two changes, one fault.
SPECIFICATION FairSpec
CONSTANTS
  i1 = i1
  i2 = i2
  Issue <- TwoIssues
  UpdateType <- TwoTypes
  Open <- HistoryAndBell
  MaxPending = 1
  MaxChanges = 2
  MaxFaults = 1
INVARIANTS TypeOK ChangesAreOnTheirWay
PROPERTIES LatestChangeIsShown
CHECK_DEADLOCK FALSE
