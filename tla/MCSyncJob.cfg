\* A sync Job with one retry, from its spec to its end, over repositories of two
\* branches and a tag.
SPECIFICATION FairJobSpec
CONSTANTS
  c1 = c1
  c2 = c2
  NoCommit = NoCommit
  Branches = {main, feature}
  Tags = {v1}
  Commits = {c1, c2}
  IsAncestor <- MCIsAncestor
  MirrorSpecs <- MCMirrorSpecs
  BackoffLimit = 1
INVARIANTS
  TypeOK
  DoneMeansMirrored
  AdmittedIsBuilt
  BuiltIsAccepted
  SpecifiedIsMirrored
PROPERTIES
  AdditiveKeepsTarget
  TagsAfterHeads
  TagsOnlyIfAsked
  JobEnds
CHECK_DEADLOCK FALSE
