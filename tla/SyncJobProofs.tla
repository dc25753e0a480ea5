---------------------------- MODULE SyncJobProofs ----------------------------
(***************************************************************************)
(* A sync Job is a sync runner: what SyncRunnerProofs shows of the runner  *)
(* holds in the Job, and with what the builder puts in the environment it  *)
(* gives what the spec asks for.                                           *)
(***************************************************************************)
EXTENDS SyncJob, SyncRunnerProofs

\* The pod's environment stays the one built, and the Job's state follows from
\* the builder's answer and the runner's end.
JobIInv ==
  /\ spec \in MirrorSpec
  /\ set \in [Endpoints -> BOOLEAN]
  /\ config = ConfigFromEnv(BuiltEnv(spec, set))
  /\ job \in {"none", "refused", "active", "complete", "failed"}
  /\ job = "refused" => ~Built(spec)
  /\ job \in {"active", "complete", "failed"} => Built(spec)
  /\ job = "complete" => pc = "done"

\* The builder's environment is one the runner can read (BuildSyncJob).
LEMMA BuiltEnvType ==
  ASSUME NEW s \in MirrorSpec, Mode(s) # "", NEW b \in [Endpoints -> BOOLEAN]
  PROVE  BuiltEnv(s, b) \in Env
<1>1. ASSUME NEW e \in EndpointSpec, NEW c \in BOOLEAN
      PROVE  BuiltEndpointEnv(e, c) \in EndpointEnv
  BY <1>1 DEF EndpointSpec, EndpointEnv, BuiltEndpointEnv, AuthType, AuthTypes
<1>2. b["source"] \in BOOLEAN /\ b["target"] \in BOOLEAN
  BY DEF Endpoints
<1>3. /\ BuiltEndpointEnv(s.source, b["source"]) \in EndpointEnv
      /\ BuiltEndpointEnv(s.target, b["target"]) \in EndpointEnv
  BY <1>1, <1>2 DEF MirrorSpec
<1>4. /\ Mode(s) \in {"", "exact", "additive", "other"}
      /\ IncludeTagsEnv(s) \in {"", "true", "false"}
  BY DEF MirrorSpec, Mode, IncludeTagsEnv
<1> QED
  BY <1>3, <1>4 DEF Env, BuiltEnv

\* The Job starts as a runner with the environment of the builder.
LEMMA JobInitIInv == JobInit => Init /\ JobIInv
<1> SUFFICES ASSUME JobInit PROVE Init /\ JobIInv
  OBVIOUS
<1>1. spec \in MirrorSpec /\ set \in [Endpoints -> BOOLEAN]
  BY MirrorSpecsAssumption DEF JobInit
<1>2. Mode(spec) # ""
  BY <1>1 DEF Mode
<1>3. BuiltEnv(spec, set) \in Env
  BY <1>1, <1>2, BuiltEnvType
<1> QED
  BY <1>1, <1>3 DEF JobInit, Init, JobIInv

\* A step of the Job is a step of the runner, or leaves the runner alone.
LEMMA JobNextRuns == [JobNext]_jobVars => [Next]_vars
<1> SUFFICES ASSUME [JobNext]_jobVars PROVE Next \/ UNCHANGED vars
  OBVIOUS
<1>1. CASE PodStep
  BY <1>1 DEF PodStep
<1>2. CASE DeadlinePasses
  BY <1>2 DEF DeadlinePasses, Next
<1>3. CASE Build \/ Refuse \/ CreateSecret \/ JobCompletes \/ JobFails
  BY <1>3 DEF Build, Refuse, CreateSecret, JobCompletes, JobFails, vars
<1>4. CASE UNCHANGED jobVars
  BY <1>4 DEF jobVars, vars
<1> QED
  BY <1>1, <1>2, <1>3, <1>4 DEF JobNext

\* No step of the runner changes the pod's environment, or leaves done.
LEMMA RunnerKeeps ==
  [Next]_vars => config' = config /\ (pc = "done" => pc' = "done")
BY DEF Next, vars, Prepare, PrepareFails, Clone, CloneFails, PushHeads, PushHeadsFails,
       SkipTags, PushTags, PushTagsFails, Retry

\* Every step of the Job keeps what follows from the builder's answer.
LEMMA JobNextIInv == JobIInv /\ [JobNext]_jobVars => JobIInv'
<1> SUFFICES ASSUME JobIInv, [JobNext]_jobVars PROVE JobIInv'
  OBVIOUS
<1>1. config' = config /\ (pc = "done" => pc' = "done")
  BY JobNextRuns, RunnerKeeps
<1>2. spec' = spec /\ set' = set
  BY DEF JobNext, jobVars, Build, Refuse, CreateSecret, PodStep, JobCompletes, JobFails,
         DeadlinePasses
<1>3. \/ job' = job
      \/ job = "none" /\ Built(spec) /\ job' = "active"
      \/ job = "none" /\ ~Built(spec) /\ job' = "refused"
      \/ job = "active" /\ pc = "done" /\ job' = "complete"
      \/ job = "active" /\ job' = "failed"
  BY DEF JobNext, jobVars, Build, Refuse, CreateSecret, PodStep, JobCompletes, JobFails,
         DeadlinePasses
<1> QED
  BY <1>1, <1>2, <1>3 DEF JobIInv

\* A sync Job, killed pods, missing Secrets and all, implements the runner.
THEOREM RunsRunner == JobSpec => Spec
BY JobInitIInv, JobNextRuns, PTL DEF JobSpec, Spec

\* The invariant of the Job beside the runner's own.
THEOREM JobInvariance == JobSpec => []JobIInv
BY JobInitIInv, JobNextIInv, PTL DEF JobSpec

\* The builder refuses no spec that the rules of the CRD let through.
THEOREM AdmittedBuilt == JobSpec => []AdmittedIsBuilt
<1>1. JobIInv => AdmittedIsBuilt
  <2> SUFFICES ASSUME JobIInv, Admitted(spec) PROVE Built(spec)
    BY DEF JobIInv, AdmittedIsBuilt
  <2>1. ASSUME NEW e, AdmittedEndpoint(e) PROVE EndpointBuilt(e)
    BY <2>1 DEF AdmittedEndpoint, EndpointBuilt, AuthType, AuthTypes
  <2> QED
    BY <2>1 DEF Admitted, Built, Mode
<1> QED
  BY <1>1, JobInvariance, PTL

\* The runner refuses a built Job only for the user's URL or an empty Secret.
THEOREM BuiltAccepted == JobSpec => []BuiltIsAccepted
<1>1. JobIInv => BuiltIsAccepted
  <2> SUFFICES ASSUME JobIInv, Built(spec)
               PROVE  Accepted(config) <=> \A e \in Endpoints : Usable(e)
    BY DEF JobIInv, BuiltIsAccepted
  <2>1. ASSUME NEW e \in EndpointSpec, EndpointBuilt(e), NEW b \in BOOLEAN
        PROVE  ValidEndpoint(EndpointAuthFromEnv(BuiltEndpointEnv(e, b)))
                 <=> e.url # "" /\ (e.auth \in {"basic", "githubApp"} => e.url = "https" /\ b)
    BY <2>1 DEF EndpointSpec, EndpointBuilt, ValidEndpoint, EndpointAuthFromEnv,
                BuiltEndpointEnv, AuthType, AuthTypes
  <2>2. /\ spec.source \in EndpointSpec /\ spec.target \in EndpointSpec
        /\ set["source"] \in BOOLEAN /\ set["target"] \in BOOLEAN
        /\ EndpointBuilt(spec.source) /\ EndpointBuilt(spec.target)
    BY DEF JobIInv, MirrorSpec, Endpoints, Built
  <2>3. /\ config.source = EndpointAuthFromEnv(BuiltEndpointEnv(spec.source, set["source"]))
        /\ config.target = EndpointAuthFromEnv(BuiltEndpointEnv(spec.target, set["target"]))
        /\ config.mode \in {"exact", "additive"}
    BY DEF JobIInv, ConfigFromEnv, BuiltEnv, Built, Mode
  <2>4. /\ ValidEndpoint(config.source) <=> Usable("source")
        /\ ValidEndpoint(config.target) <=> Usable("target")
    BY <2>1, <2>2, <2>3 DEF Usable
  <2> QED
    BY <2>3, <2>4 DEF Accepted, Endpoints
<1> QED
  BY <1>1, JobInvariance, PTL

\* A complete Job left the target as the spec asks.
THEOREM SpecifiedMirrored == JobSpec => []SpecifiedIsMirrored
<1>1. JobIInv /\ DoneMeansMirrored => SpecifiedIsMirrored
  <2> SUFFICES ASSUME JobIInv, DoneMeansMirrored, job = "complete"
               PROVE  SpecifiedIsMirrored
    BY DEF SpecifiedIsMirrored
  <2>1. /\ config.mode = Mode(spec)
        /\ Mode(spec) = "additive" => config.includeTags = spec.includeTags
        /\ Mode(spec) \in {"exact", "additive"}
    BY DEF JobIInv, ConfigFromEnv, BuiltEnv, IncludeTagsEnv, Built, MirrorSpec, Mode
  <2> QED
    BY <2>1 DEF JobIInv, DoneMeansMirrored, SpecifiedIsMirrored, Mode
<1> QED
  BY <1>1, JobInvariance, RunsRunner, DoneMirrors, PTL

\* A pod gets to its tags only if the configuration asks for them.
AtTagsIfAsked == pc = "pushTags" => PushesTags(config)

LEMMA NextAtTagsIfAsked == AtTagsIfAsked /\ [Next]_vars => AtTagsIfAsked'
BY DEF AtTagsIfAsked, Next, vars, Prepare, PrepareFails, Clone, CloneFails, PushHeads,
       PushHeadsFails, SkipTags, PushTags, PushTagsFails, Retry, NextCommand, PushesTags

\* The tags of the target are pushed at no other command.
LEMMA TagsMoveAtTags ==
  ASSUME target \in Repository, [Next]_vars, pc # "pushTags"
  PROVE  target'.tags = target.tags
BY DEF Repository, Next, vars, Prepare, PrepareFails, Clone, CloneFails, PushHeads,
       PushHeadsFails, SkipTags, PushTags, PushTagsFails, Retry

\* Whatever pods are killed, tags that the spec does not ask for stay out.
THEOREM TagsAsked == JobSpec => TagsOnlyIfAsked
<1>1. JobInit => AtTagsIfAsked
  BY DEF JobInit, AtTagsIfAsked
<1>2. AtTagsIfAsked /\ [JobNext]_jobVars => AtTagsIfAsked'
  BY JobNextRuns, NextAtTagsIfAsked
<1>3. JobIInv /\ TypeOK /\ AtTagsIfAsked /\ [JobNext]_jobVars
        => [spec.mode = "additive" /\ ~spec.includeTags => target'.tags = target.tags]_jobVars
  <2> SUFFICES ASSUME JobIInv, TypeOK, AtTagsIfAsked, [JobNext]_jobVars,
                      spec.mode = "additive", ~spec.includeTags
               PROVE  target'.tags = target.tags
    OBVIOUS
  <2>1. config.mode = "additive" /\ ~config.includeTags
    BY DEF JobIInv, ConfigFromEnv, BuiltEnv, IncludeTagsEnv, Mode
  <2>2. pc # "pushTags"
    BY <2>1 DEF AtTagsIfAsked, PushesTags
  <2> QED
    BY <2>2, JobNextRuns, TagsMoveAtTags DEF TypeOK
<1> QED
  BY <1>1, <1>2, <1>3, JobInvariance, RunsRunner, TypeCorrect, PTL
     DEF JobSpec, TagsOnlyIfAsked
==============================================================================
