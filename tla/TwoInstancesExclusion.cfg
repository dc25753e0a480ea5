\* README.md:14: the Lease excludes concurrent sync Jobs across instances.
SPECIFICATION Spec
CONSTANTS
  MaxGen = 1
  MaxPush = 1
  MaxTick = 1
  MaxStamp = 3
  MaxFaults = 0
  Instances = {i1, i2}
  Handlers = {h1}
  NoHost = NoHost
  Lagging = {}
  LegacyJobs = FALSE
  Expiring = FALSE
  Fallback = FALSE
  LostAnswers = FALSE
INVARIANTS
  OneActiveJob
