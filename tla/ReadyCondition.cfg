\* status_update_test.go:16: a status patch preserves current fields.
SPECIFICATION Spec
CONSTANTS
  MaxGen = 1
  MaxPush = 2
  MaxTick = 1
  MaxStamp = 2
  MaxFaults = 0
  Instances = {i1}
  Handlers = {h1}
  NoHost = NoHost
  Lagging = {}
  LegacyJobs = FALSE
  Expiring = FALSE
  Fallback = FALSE
  LostAnswers = FALSE
PROPERTIES
  IntentKeepsReady
