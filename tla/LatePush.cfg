\* README.md:182: pendingResync after a push during an active Job.
SPECIFICATION Spec
CONSTANTS
  MaxGen = 1
  MaxPush = 2
  MaxTick = 1
  MaxStamp = 2
  MaxFaults = 0
  Instances = {i1}
  Handlers = {h1}
  NoHost = NoHost
  Lagging = {}
  LegacyJobs = FALSE
  Expiring = FALSE
  Fallback = FALSE
  LostAnswers = FALSE
INVARIANTS
  LatePushIsPending
