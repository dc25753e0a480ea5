\* Two GitMirrors of one repository, two generations each, one push.
SPECIFICATION FairSpec
CONSTANTS
  a = a
  b = b
  s1 = s1
  s2 = s2
  Mirrors = {a, b}
  NoMirror = NoMirror
  Secrets = {s1, s2}
  NoSecret = NoSecret
  SecretOf <- MCSecretOf
  Hooks <- MCHooks
  Changing = {a}
  Leaving = {b}
  MaxGen = 2
  MaxPush = 1
  MaxTick = 1
  MaxStamp = 2
INVARIANTS
  TypeOK
  OnlySigned
  OneActiveJob
PROPERTIES
  EventuallySettled
  RequestScheduled
CHECK_DEADLOCK FALSE
