\* Windows of five events; the second failure has none but clicks in its window.
SPECIFICATION Spec
CONSTANTS
  None = None
  Unsafe = "unsafe"
  Home = "/"
  Secret = "secret"
  StableId = {"email"}
  StableName = {"field"}
  TimelineWindow = 5
  MaxCandidates = 2
  MaxActions = 5
  Sessions <- MCSessions
INVARIANT NavigatesAsDocumented
CHECK_DEADLOCK FALSE
