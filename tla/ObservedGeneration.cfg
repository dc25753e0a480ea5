\* README.md:184: a spec change gets a fresh Job.
SPECIFICATION Spec
CONSTANTS
  MaxGen = 2
  MaxPush = 1
  MaxTick = 1
  MaxStamp = 2
  MaxFaults = 1
  Instances = {i1}
  Handlers = {h1}
  NoHost = NoHost
  Lagging = {}
  LegacyJobs = FALSE
  Expiring = FALSE
  Fallback = FALSE
  LostAnswers = FALSE
INVARIANTS
  ObservedGenerationHasJob
