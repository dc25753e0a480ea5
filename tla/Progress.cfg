\* Liveness, with faults, create calls whose answer is lost and Jobs that expire.
SPECIFICATION FairSpec
CONSTANTS
  MaxGen = 1
  MaxPush = 1
  MaxTick = 1
  MaxStamp = 4
  MaxFaults = 2
  Instances = {i1}
  Handlers = {h1}
  NoHost = NoHost
  Lagging = {}
  LegacyJobs = FALSE
  Expiring = TRUE
  Fallback = FALSE
  LostAnswers = TRUE
PROPERTIES
  EventuallySettled
  
