\* Two GitMirrors of one repository that nobody changes, one push.
SPECIFICATION FairSpec
CONSTANTS
  a = a
  b = b
  s1 = s1
  s2 = s2
  Mirrors = {a, b}
  NoMirror = NoMirror
  Secrets = {s1, s2}
  NoSecret = NoSecret
  SecretOf <- MCSecretOf
  Hooks <- MCHooks
  Changing = {}
  Leaving = {}
  MaxGen = 1
  MaxPush = 1
  MaxTick = 1
  MaxStamp = 2
INVARIANT
  FollowupIsScheduled
CHECK_DEADLOCK FALSE
