\* Two consumers, four events, two triage actions and one rollback.
SPECIFICATION Spec
CONSTANTS
  e1 = e1
  e2 = e2
  e3 = e3
  e4 = e4
  f1 = f1
  f2 = f2
  m1 = m1
  m2 = m2
  w1 = w1
  w2 = w2
  r1 = r1
  r2 = r2
  None = None
  Event <- MCEvent
  Worker <- MCWorker
  Fingerprint <- MCFingerprint
  Member <- MCMember
  Plans <- MCPlans
  SessionOf <- MCSessionOf
  OccurredAt <- MCOccurredAt
  ReleaseOf <- MCReleaseOf
  MaxTriage = 2
  MaxFaults = 1
SYMMETRY MCSymmetry
INVARIANTS TypeOK ReleasesFollowTimes TimelineExplainsIssue RegressionsAreNotified
PROPERTIES RefinesAccounting OccurrenceReopens
