\* A fallback schedule with two instants beside a push.
SPECIFICATION Spec
CONSTANTS
  MaxGen = 1
  MaxPush = 1
  MaxTick = 2
  MaxStamp = 4
  MaxFaults = 0
  Instances = {i1}
  Handlers = {h1}
  NoHost = NoHost
  Lagging = {}
  LegacyJobs = FALSE
  Expiring = FALSE
  Fallback = TRUE
  LostAnswers = FALSE
INVARIANTS
  OneActiveJob
  ScheduledTwiceAtMost
PROPERTIES
  ScheduleKept
