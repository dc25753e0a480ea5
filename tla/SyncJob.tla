------------------------------- MODULE SyncJob -------------------------------
(***************************************************************************)
(* One sync Job from the GitMirror's spec to its end: BuildSyncJob builds  *)
(* it (module JobBuilder) or refuses, its pods wait for the Secrets they   *)
(* refer to and run the sync runner (module SyncRunner), and the Job       *)
(* controller ends it when a pod succeeds, when the retries are used up,   *)
(* or at the deadline, whatever the pod is doing.                          *)
(***************************************************************************)
EXTENDS SyncRunner, JobBuilder

CONSTANT MirrorSpecs   \* specs of the GitMirror

ASSUME MirrorSpecsAssumption == MirrorSpecs \subseteq MirrorSpec

VARIABLES
  spec,      \* the spec when the Job is built
  set,       \* endpoints whose Secrets hold values that are not empty
  present,   \* endpoints whose Secrets exist
  job        \* none, refused, active, complete or failed

jobVars == <<config, pc, attempt, clone, target, spec, set, present, job>>

Endpoints == {"source", "target"}

JobInit ==
  /\ spec \in MirrorSpecs
  /\ set \in [Endpoints -> BOOLEAN]
  /\ present \in [Endpoints -> BOOLEAN]
  /\ job = "none"
  /\ config = ConfigFromEnv(BuiltEnv(spec, set))
  /\ pc = "start"
  /\ attempt = 1
  /\ clone = EmptyRepository
  /\ target \in Repository

------------------------------------------------------------------------------
Build ==
  /\ job = "none" /\ Built(spec)
  /\ job' = "active"
  /\ UNCHANGED <<config, pc, attempt, clone, target, spec, set, present>>

Refuse ==
  /\ job = "none" /\ ~Built(spec)
  /\ job' = "refused"
  /\ UNCHANGED <<config, pc, attempt, clone, target, spec, set, present>>

\* A user creates a Secret that the spec refers to.
CreateSecret ==
  /\ \E e \in Endpoints : ~present[e] /\ present' = [present EXCEPT ![e] = TRUE]
  /\ UNCHANGED <<config, pc, attempt, clone, target, spec, set, job>>

\* The pod's volumes and variables refer to Secrets that are not optional.
PodStarts == \A e \in Endpoints : present[e]

PodStep ==
  /\ job = "active" /\ PodStarts
  /\ Next
  /\ UNCHANGED <<spec, set, present, job>>

JobCompletes ==
  /\ job = "active" /\ pc = "done"
  /\ job' = "complete"
  /\ UNCHANGED <<config, pc, attempt, clone, target, spec, set, present>>

JobFails ==
  /\ job = "active" /\ pc = "failed" /\ ~RetriesLeft
  /\ job' = "failed"
  /\ UNCHANGED <<config, pc, attempt, clone, target, spec, set, present>>

\* The pod is killed in the middle of its command, if it has not ended.
DeadlinePasses ==
  /\ job = "active" /\ HasDeadline(spec)
  /\ \/ PrepareFails \/ CloneFails \/ PushHeadsFails \/ PushTagsFails
     \/ pc \in {"done", "failed"} /\ UNCHANGED vars
  /\ job' = "failed"
  /\ UNCHANGED <<spec, set, present>>

JobNext ==
  Build \/ Refuse \/ CreateSecret \/ PodStep \/ JobCompletes \/ JobFails \/ DeadlinePasses

JobSpec == JobInit /\ [][JobNext]_jobVars

\* The Job controller runs.  That a git command ends is assumed of Jobs without a
\* deadline only.
FairJobSpec ==
  /\ JobSpec
  /\ WF_jobVars(Build \/ Refuse)
  /\ WF_jobVars(JobCompletes \/ JobFails)
  /\ WF_jobVars(DeadlinePasses)
  /\ WF_jobVars(~HasDeadline(spec) /\ PodStep)

------------------------------------------------------------------------------
\* A spec the API server took is never one the builder refuses: such a mirror
\* would fail every Reconcile and never sync (BuildSyncJob, endpointAuth).
AdmittedIsBuilt == job = "refused" => ~Admitted(spec)

\* What a user of the endpoint has to get right, and no rule of the CRD checks.
Usable(e) ==
  LET s == spec[e]
  IN  s.url # "" /\ (s.auth \in {"basic", "githubApp"} => s.url = "https" /\ set[e])

\* Builder and runner agree: the runner refuses what it finds in the environment
\* of a built Job only for an URL or an empty Secret that is the user's mistake
\* (endpointAuth, endpointAuthFromEnv, validateEndpointAuth).
BuiltIsAccepted ==
  job \notin {"none", "refused"} => (Accepted(config) <=> \A e \in Endpoints : Usable(e))

\* A complete Job did what the spec asks for, a mode left out being exact,
\* however many pods were killed before (BuildSyncJob, ConfigFromEnv, Run).
SpecifiedIsMirrored ==
  job = "complete" =>
    IF spec.mode # "additive" THEN target = clone
    ELSE /\ Contains(target.heads, clone.heads)
         /\ spec.includeTags => Contains(target.tags, clone.tags)

\* The target's tags are left alone in additive mode with includeTags: false, although
\* the runner's own default is to push them, as is the CRD's for a spec that leaves
\* includeTags out, which is stored as TRUE (IncludeTags, envBoolDefault).
TagsOnlyIfAsked ==
  [][spec.mode = "additive" /\ ~spec.includeTags => target'.tags = target.tags]_jobVars

\* A Job ends, and with it the wait of every later sync, if it has a deadline or
\* the Secrets it refers to exist (ActiveDeadlineSeconds, secretVolume).
JobEnds ==
  job = "active" /\ (spec.deadline \/ PodStarts) ~> job \in {"complete", "failed"}
==============================================================================
