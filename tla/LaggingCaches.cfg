\* The caches of mirrors, Jobs and Leases are any number of events behind.
SPECIFICATION Spec
CONSTANTS
  MaxGen = 1
  MaxPush = 1
  MaxTick = 1
  MaxStamp = 2
  MaxFaults = 0
  Instances = {i1}
  Handlers = {h1}
  NoHost = NoHost
  Lagging = {"mirror", "jobs", "lease"}
  LegacyJobs = FALSE
  Expiring = FALSE
  Fallback = FALSE
  LostAnswers = FALSE
INVARIANTS
  MirroredRevisionDelivered
  SettledMeansDone
CONSTRAINTS
  StampsLeft
  FewJobs
PROPERTIES
  KeepsContract
