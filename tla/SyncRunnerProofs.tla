--------------------------- MODULE SyncRunnerProofs ---------------------------
(***************************************************************************)
(* What SyncRunner keeps for every repository, configuration and backoff   *)
(* limit.                                                                  *)
(***************************************************************************)
EXTENDS SyncRunner, TLAPS

\* What a pushed set of refs is to the clone's, in each mode.
Mirrors(c, old, new) ==
  IF c.mode = "exact" THEN old = new ELSE Contains(old, new)

\* The pod's progress: a pod that got past its checks has a known mode, and one
\* that got past its branches has them all in the target.
Progress ==
  /\ pc \in {"clone", "pushHeads", "pushTags", "done"} =>
       config.mode \in {"exact", "additive"}
  /\ pc = "pushTags" => Mirrors(config, target.heads, clone.heads)
  /\ DoneMeansMirrored

IInv == TypeOK /\ Progress

(***************************************************************************)
(* Pushes.                                                                 *)
(***************************************************************************)

\* A push moves refs within their names (PushedHeads, PushedTags).
LEMMA PushedType ==
  ASSUME NEW c \in Config, NEW H \in Refs(Branches), NEW K \in Refs(Branches),
         NEW T \in Refs(Tags), NEW U \in Refs(Tags)
  PROVE  /\ PushedHeads(c, H, K) \in Refs(Branches)
         /\ PushedTags(c, T, U) \in Refs(Tags)
BY DEF PushedHeads, PushedTags, Overwritten, Extended, Refs

\* A push that breaks off leaves refs of the same names.
LEMMA PartlyType ==
  ASSUME NEW names, NEW old \in Refs(names), NEW new \in Refs(names)
  PROVE  \A mid \in Partly(old, new) :
           mid \in Refs(names) /\ \A r \in names : mid[r] \in {old[r], new[r]}
BY DEF Partly, Refs

\* A push that is not refused mirrors the branches, and the tags.
LEMMA PushedMirrors ==
  ASSUME NEW c \in Config, c.mode \in {"exact", "additive"},
         NEW H \in Refs(Branches), NEW K \in Refs(Branches),
         NEW T \in Refs(Tags), NEW U \in Refs(Tags)
  PROVE  /\ c.mode = "exact" \/ ~Refused(H, K, FastForward)
              => Mirrors(c, PushedHeads(c, H, K), K)
         /\ c.mode = "exact" \/ ~Refused(T, U, SameTag)
              => Mirrors(c, PushedTags(c, T, U), U)
BY DEF Mirrors, PushedHeads, PushedTags, Overwritten, Extended, Refused, Contains,
       Refs

\* In additive mode a push, whole or in part, only extends.
LEMMA PushedExtends ==
  ASSUME NEW c \in Config, c.mode = "additive",
         NEW H \in Refs(Branches), NEW K \in Refs(Branches),
         NEW T \in Refs(Tags), NEW U \in Refs(Tags)
  PROVE  /\ \A b \in Branches : FastForward(H[b], PushedHeads(c, H, K)[b])
         /\ \A t \in Tags : SameTag(T[t], PushedTags(c, T, U)[t])
BY DEF PushedHeads, PushedTags, Extended, FastForward, SameTag, Refs

------------------------------------------------------------------------------
\* Every environment makes a configuration (ConfigFromEnv).
LEMMA EnvType == ASSUME NEW env \in Env PROVE ConfigFromEnv(env) \in Config
<1>1. ASSUME NEW e \in EndpointEnv PROVE EndpointAuthFromEnv(e) \in Endpoint
  BY <1>1 DEF EndpointEnv, Endpoint, EndpointAuthFromEnv
<1> QED
  BY <1>1 DEF Env, Config, ConfigFromEnv

\* The pod starts with its types and nothing done.
LEMMA InitIInv == Init => IInv
<1> SUFFICES ASSUME Init PROVE IInv
  OBVIOUS
<1>1. config \in Config
  <2>1. PICK env \in Env : config = ConfigFromEnv(env)
    BY DEF Init
  <2> QED
    BY <2>1, EnvType
<1> QED
  BY <1>1, BackoffLimitAssumption
     DEF Init, IInv, TypeOK, Progress, DoneMeansMirrored, EmptyRepository, Repository,
         NoRefs, Refs

\* Every step keeps types and progress.
LEMMA NextIInv == IInv /\ [Next]_vars => IInv'
<1> SUFFICES ASSUME IInv, [Next]_vars PROVE IInv'
  OBVIOUS
<1> USE DEF IInv, TypeOK, Progress, DoneMeansMirrored, Mirrors
<1>1. config \in Config
  OBVIOUS
<1>2. EmptyRepository \in Repository
  BY DEF EmptyRepository, Repository, NoRefs, Refs
<1>3. /\ target.heads \in Refs(Branches) /\ target.tags \in Refs(Tags)
      /\ clone.heads \in Refs(Branches) /\ clone.tags \in Refs(Tags)
  BY DEF Repository
<1>4. CASE Prepare
  BY <1>4 DEF Prepare, Accepted
<1>5. CASE PrepareFails
  BY <1>5 DEF PrepareFails
<1>6. CASE Clone
  BY <1>6 DEF Clone, NextCommand
<1>7. CASE CloneFails
  BY <1>7 DEF CloneFails
<1>8. CASE PushHeads
  <2>1. /\ PushedHeads(config, target.heads, clone.heads) \in Refs(Branches)
        /\ Mirrors(config, PushedHeads(config, target.heads, clone.heads), clone.heads)
    BY <1>1, <1>3, <1>8, PushedType, PushedMirrors DEF PushHeads
  <2>2. /\ target' \in Repository
        /\ target'.heads = PushedHeads(config, target.heads, clone.heads)
    BY <1>8, <2>1 DEF PushHeads, Repository
  <2>3. pc' = "done" => config.mode = "additive" /\ ~config.includeTags
    BY <1>8 DEF PushHeads, NextCommand, PushesTags
  <2> QED
    BY <1>8, <2>1, <2>2, <2>3 DEF PushHeads, NextCommand
<1>9. CASE PushHeadsFails
  BY <1>1, <1>3, <1>9, PushedType, PartlyType DEF PushHeadsFails, Repository
<1>10. CASE SkipTags
  BY <1>3, <1>10 DEF SkipTags, ShouldSkipEmptyTagPush, NextCommand, Contains, NoRefs,
                     Repository
<1>11. CASE PushTags
  <2>1. /\ PushedTags(config, target.tags, clone.tags) \in Refs(Tags)
        /\ Mirrors(config, PushedTags(config, target.tags, clone.tags), clone.tags)
    BY <1>1, <1>3, <1>11, PushedType, PushedMirrors DEF PushTags
  <2>2. /\ target' \in Repository
        /\ target'.heads = target.heads
        /\ target'.tags = PushedTags(config, target.tags, clone.tags)
    BY <1>11, <2>1 DEF PushTags, Repository
  <2>3. target'.heads = clone.heads /\ target'.tags = clone.tags => target' = clone
    BY <2>2 DEF Repository
  <2> QED
    BY <1>11, <2>1, <2>2, <2>3 DEF PushTags, NextCommand
<1>12. CASE PushTagsFails
  BY <1>1, <1>3, <1>12, PushedType, PartlyType DEF PushTagsFails, Repository
<1>13. CASE Retry
  BY <1>2, <1>13, BackoffLimitAssumption DEF Retry, RetriesLeft
<1>14. CASE UNCHANGED vars
  BY <1>14 DEF vars
<1> QED
  BY <1>4, <1>5, <1>6, <1>7, <1>8, <1>9, <1>10, <1>11, <1>12, <1>13, <1>14 DEF Next

\* The inductive invariant holds throughout.
THEOREM Invariance == Spec => []IInv
BY InitIInv, NextIInv, PTL DEF Spec

\* The runner's variables keep their types (Run and the commands it runs).
THEOREM TypeCorrect == Spec => []TypeOK
<1>1. IInv => TypeOK
  BY DEF IInv
<1> QED
  BY <1>1, Invariance, PTL

\* A Job that succeeds leaves the target with what it cloned.
THEOREM DoneMirrors == Spec => []DoneMeansMirrored
<1>1. IInv => DoneMeansMirrored
  BY DEF IInv, Progress
<1> QED
  BY <1>1, Invariance, PTL

\* The target's tags change only once all cloned branches are there.
THEOREM TagsFollowHeads == Spec => TagsAfterHeads
<1>1. IInv /\ [Next]_vars =>
        [target'.tags # target.tags => Contains(target.heads, clone.heads)]_vars
  <2> SUFFICES ASSUME IInv, Next, target'.tags # target.tags
               PROVE  Contains(target.heads, clone.heads)
    OBVIOUS
  <2> USE DEF IInv, TypeOK, Repository
  <2>1. PushTags \/ PushTagsFails
    BY DEF Next, Prepare, PrepareFails, Clone, CloneFails, PushHeads, PushHeadsFails,
           SkipTags, Retry
  <2> QED
    BY <2>1 DEF PushTags, PushTagsFails, Progress, Mirrors, Contains
<1> QED
  BY <1>1, Invariance, PTL DEF Spec, TagsAfterHeads

\* In additive mode no step loses history of the target.
THEOREM AdditiveKeeps == Spec => AdditiveKeepsTarget
<1>1. IInv /\ [Next]_vars =>
        [config.mode = "additive" =>
           /\ \A b \in Branches :
                target.heads[b] # NoCommit
                  => FastForward(target.heads[b], target'.heads[b])
           /\ \A t \in Tags :
                target.tags[t] # NoCommit => target'.tags[t] = target.tags[t]]_vars
  <2> SUFFICES ASSUME IInv, Next, config.mode = "additive"
               PROVE  /\ \A b \in Branches : FastForward(target.heads[b], target'.heads[b])
                      /\ \A t \in Tags : SameTag(target.tags[t], target'.tags[t])
    BY DEF SameTag
  <2>1. config \in Config
    BY DEF IInv, TypeOK
  <2>2. /\ target.heads \in Refs(Branches) /\ target.tags \in Refs(Tags)
        /\ clone.heads \in Refs(Branches) /\ clone.tags \in Refs(Tags)
        /\ target \in Repository
    BY DEF IInv, TypeOK, Repository
  <2> DEFINE heads0 == PushedHeads(config, target.heads, clone.heads)
             tags0 == PushedTags(config, target.tags, clone.tags)
  <2>3. heads0 \in Refs(Branches) /\ tags0 \in Refs(Tags)
    BY <2>1, <2>2, PushedType
  <2>4. /\ \A b \in Branches : FastForward(target.heads[b], heads0[b])
        /\ \A t \in Tags : SameTag(target.tags[t], tags0[t])
    BY <2>1, <2>2, PushedExtends
  <2>5. CASE target' = target
    BY <2>5 DEF FastForward, SameTag
  <2>6. CASE PushHeads
    BY <2>2, <2>4, <2>6 DEF PushHeads, Repository, SameTag
  <2>7. CASE PushHeadsFails
    <3>1. PICK heads \in Partly(target.heads, heads0) :
            target' = [target EXCEPT !.heads = heads]
      BY <2>7 DEF PushHeadsFails
    <3>2. \A b \in Branches : heads[b] \in {target.heads[b], heads0[b]}
      BY <2>2, <2>3, PartlyType
    <3> QED
      BY <2>2, <2>4, <3>1, <3>2 DEF Repository, FastForward, SameTag
  <2>8. CASE PushTags
    BY <2>2, <2>4, <2>8 DEF PushTags, Repository, FastForward
  <2>9. CASE PushTagsFails
    <3>1. PICK tags \in Partly(target.tags, tags0) :
            target' = [target EXCEPT !.tags = tags]
      BY <2>9 DEF PushTagsFails
    <3>2. \A t \in Tags : tags[t] \in {target.tags[t], tags0[t]}
      BY <2>2, <2>3, PartlyType
    <3> QED
      BY <2>2, <2>4, <3>1, <3>2 DEF Repository, FastForward, SameTag
  <2> QED
    BY <2>5, <2>6, <2>7, <2>8, <2>9
       DEF Next, Prepare, PrepareFails, Clone, CloneFails, SkipTags, Retry
<1> QED
  BY <1>1, Invariance, PTL DEF Spec, AdditiveKeepsTarget
==============================================================================
