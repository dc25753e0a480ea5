\* A spec change over an upgrade from an operator that left an unannotated Job.
SPECIFICATION Spec
CONSTANTS
  MaxGen = 2
  MaxPush = 1
  MaxTick = 1
  MaxStamp = 3
  MaxFaults = 1
  Instances = {i1}
  Handlers = {h1}
  NoHost = NoHost
  Lagging = {}
  LegacyJobs = TRUE
  Expiring = FALSE
  Fallback = FALSE
  LostAnswers = FALSE
INVARIANTS
  OneActiveJob
  SettledMeansDone
