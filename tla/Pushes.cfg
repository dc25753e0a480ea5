\* One instance with prompt caches, two pushes, one fault of any kind.
SPECIFICATION Spec
CONSTANTS
  MaxGen = 1
  MaxPush = 2
  MaxTick = 1
  MaxStamp = 4
  MaxFaults = 1
  Instances = {i1}
  Handlers = {h1}
  NoHost = NoHost
  Lagging = {}
  LegacyJobs = FALSE
  Expiring = FALSE
  Fallback = FALSE
  LostAnswers = FALSE
INVARIANTS
  TypeOK
  OneActiveJob
  OutcomeMatchesJob
PROPERTIES
  TargetNeverRegresses
  IntentKeepsOutcome
  KeepsStrictContract
