\* One identity requested twice, two loops, two consumers, one retry.
SPECIFICATION Spec
CONSTANTS
  k1 = k1
  k2 = k2
  e1 = e1
  c1 = c1
  c2 = c2
  c3 = c3
  dispatcher = dispatcher
  reconciler = reconciler
  Key = {k1}
  Event = {e1}
  Call = {c1, c2}
  Pass = {dispatcher, reconciler}
  Reconciler = {reconciler}
  Slot = {w1, w2}
  EventOf <- MCEventOf
  KeyOf <- MCKeyOf
  BatchSize = 2
  RetryLimit = 1
  MaxFaults = 1
  None = None
  Unsafe = "unsafe"
  Home = "/"
  Secret = "secret"
  StableId = {"email"}
  StableName = {"field", "city"}
  TimelineWindow = 5
  MaxCandidates = 2
  MaxActions = 3
  Sessions <- MCSessions
INVARIANTS TypeOK NoLostRequest ToldOnce PendingKeepsEvidence CreatedOnce OutageEndsAnalysis PlanFollowsSession PlanIsDeterministic LocatorIsStrongest
PROPERTIES OutcomeIsFinal
CHECK_DEADLOCK FALSE
