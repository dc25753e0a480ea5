---------------------------- MODULE ContractProofs ----------------------------
(***************************************************************************)
(* GitMirrorOperator implements SyncContract, for every set of instances   *)
(* and handlers, every choice of lagging caches and every bound: each step *)
(* is a step of the contract, or one the contract does not see.            *)
(***************************************************************************)
EXTENDS OperatorProofs

------------------------------------------------------------------------------
(***************************************************************************)
(* The status.                                                             *)
(***************************************************************************)

\* A merge patch leaves alone a field that the mutation left alone.
LEMMA PatchFields ==
  ASSUME NEW base, NEW new, mirror \in Mirror, PatchMirror(base, new)
  PROVE  /\ new.status.requested = base.status.requested
              => mirror'.status.requested = mirror.status.requested
         /\ new.status.mirrored = base.status.mirrored
              => mirror'.status.mirrored = mirror.status.mirrored
         /\ UNCHANGED jobs => UNCHANGED Syncs
BY DEF PatchMirror, MergePatch, Patched, Mirror, Status, Syncs, SyncState

\* Recording a webhook mutates no mirrored revision.
LEMMA IntentFields ==
  ASSUME NEW m \in Mirror, NEW d, NEW r
  PROVE  ApplyWebhookIntent(m, d, r).status.mirrored = m.status.mirrored
BY DEF ApplyWebhookIntent, Mirror, Status

\* Recording a completion mutates no requested revision.
LEMMA CompletionFields ==
  ASSUME NEW m \in Mirror, NEW name, NEW job, NEW now
  PROVE  ApplyCompletion(m, name, job, now).status.requested = m.status.requested
<1>1. ASSUME NEW k, DOMAIN k = {"gen", "status"}, "requested" \in DOMAIN k.status,
             NEW gen
      PROVE  LET o == ApplyOutcome(k, name, job, gen) IN
             /\ DOMAIN o = {"gen", "status"} /\ "requested" \in DOMAIN o.status
             /\ o.status.requested = k.status.requested
  BY <1>1 DEF ApplyOutcome
<1>2. ASSUME NEW k, DOMAIN k = {"gen", "status"}, "requested" \in DOMAIN k.status
      PROVE  ApplyFollowup(k, now).status.requested = k.status.requested
  BY <1>2 DEF ApplyFollowup
<1>3. DOMAIN m = {"gen", "status"} /\ "requested" \in DOMAIN m.status
  BY DEF Mirror, Status
<1> DEFINE n == [m EXCEPT !.status.observed = m.gen]
<1>4. /\ DOMAIN n = {"gen", "status"} /\ "requested" \in DOMAIN n.status
      /\ n.status.requested = m.status.requested
  BY DEF Mirror, Status
<1>5. ApplyCompletedLegacyJobStatus(m, name, job).status.requested = m.status.requested
  BY <1>1, <1>3 DEF ApplyCompletedLegacyJobStatus
<1>6. ApplyCompletedJobStatus(m, name, job, now).status.requested = m.status.requested
  BY <1>1, <1>2, <1>4 DEF ApplyCompletedJobStatus
<1> QED
  BY <1>5, <1>6 DEF ApplyCompletion

\* Recording a scheduled Job mutates neither.
LEMMA AppliedFields ==
  ASSUME NEW m \in Mirror, NEW op \in Op, NEW plan
  PROVE  LET a == ApplyScheduled(m, op, plan) IN
         /\ a.status.requested = m.status.requested
         /\ a.status.mirrored = m.status.mirrored
<1> DEFINE Like(k) == /\ DOMAIN k = {"gen", "status"}
                      /\ {"requested", "mirrored"} \subseteq DOMAIN k.status
                      /\ k.status.requested = m.status.requested
                      /\ k.status.mirrored = m.status.mirrored
<1>1. Like(m)
  BY DEF Mirror, Status
<1>2. ASSUME NEW k, Like(k), NEW name, NEW gen, NEW now
      PROVE  Like(ApplySyncScheduledForGeneration(k, name, gen, now))
  BY <1>2 DEF ApplySyncScheduledForGeneration, ApplySyncScheduled
<1>3. ASSUME NEW d, NEW now, NEW active
      PROVE  Like(ApplyWebhookState(m, d, now, active))
  BY <1>1 DEF ApplyWebhookState
<1> HIDE DEF Like
<1>4. Like(ApplyScheduled(m, op, plan))
  BY <1>1, <1>2, <1>3 DEF ApplyScheduled
<1> QED
  BY <1>4 DEF Like
------------------------------------------------------------------------------
(***************************************************************************)
(* Jobs.                                                                   *)
(***************************************************************************)

\* The phase of a Job determines the state of its sync.
LEMMA SyncStates ==
  /\ SyncState("absent") = "none" /\ SyncState("created") = "asked"
  /\ SyncState("cloned") = "fetched" /\ SyncState("pushed") = "delivered"
  /\ SyncState("complete") = "succeeded" /\ SyncState("failed") = "failed"
BY DEF SyncState

\* The contract sees one Job change, as a whole or in phase and clone.
LEMMA OneSync ==
  ASSUME jobs \in [JobNames -> Job], NEW n \in JobNames, NEW job \in Job,
         jobs' = [jobs EXCEPT ![n] = job]
  PROVE  Syncs' = [Syncs EXCEPT ![n] = [state |-> SyncState(job.phase),
                                        rev |-> job.rev, got |-> job.got]]
BY DEF Syncs, SyncState

\* A change of a Job's phase and clone is a move of its sync.
LEMMA SyncMoves ==
  ASSUME jobs \in [JobNames -> Job], NEW n \in JobNames, NEW phase, NEW got,
         jobs' = [jobs EXCEPT ![n].phase = phase, ![n].got = got],
         NEW state, state = SyncState(phase)
  PROVE  Contract!Move(n, state, got)
<1> SUFFICES
      Syncs' = [Syncs EXCEPT ![n] = [state |-> SyncState(phase), rev |-> jobs[n].rev,
                                     got |-> got]]
  BY DEF Contract!Move, Syncs
<1>1. /\ jobs'[n].phase = phase /\ jobs'[n].rev = jobs[n].rev /\ jobs'[n].got = got
      /\ \A k \in JobNames : k # n => jobs'[k] = jobs[k]
  BY DEF Job
<1> QED
  BY <1>1 DEF Syncs, SyncState

\* A step that leaves Jobs, repositories and the two fields alone is not seen.
LEMMA NotSeen ==
  ASSUME UNCHANGED <<source, target, delivered, jobs>>,
         mirror'.status.requested = mirror.status.requested,
         mirror'.status.mirrored = mirror.status.mirrored
  PROVE  UNCHANGED Contract!vars
BY DEF Contract!vars, Syncs, SyncState

------------------------------------------------------------------------------
(***************************************************************************)
(* Steps.                                                                  *)
(***************************************************************************)

\* A webhook's patch is a request.
LEMMA HookPatchRequests ==
  ASSUME IInv, IInv', NEW h \in Handlers, HookPatch(h)
  PROVE  Contract!Request
<1> DEFINE base == hook[h].base
           new == ApplyWebhookIntent(base, hook[h].delivery, hook[h].delivery)
<1>1. mirror \in Mirror /\ base \in Mirror
  BY BoundedTypes DEF TypeOK, Hook
<1>2. PatchMirror(base, new) /\ UNCHANGED <<source, target, delivered, jobs>>
  BY DEF HookPatch, repositories
<1>3. new.status.mirrored = base.status.mirrored
  BY <1>1, IntentFields
<1> HIDE DEF base, new
<1>4. mirror'.status.mirrored = mirror.status.mirrored /\ UNCHANGED Syncs
  BY <1>1, <1>2, <1>3, PatchFields
<1>5. mirror'.status.requested \in 0..source
  BY <1>2 DEF IInv, BoundedMirror, Mirror, Status, Revisions, RepositoryTypes
<1> QED
  BY <1>2, <1>4, <1>5 DEF Contract!Request

\* The patch of a completion is a report.
LEMMA CompletedPatchReports ==
  ASSUME IInv, IInv', NEW i \in Instances, CompletedPatch(i)
  PROVE  Contract!Report
<1> DEFINE base == rec[i].base
           new == ApplyCompletion(base, rec[i].done.name, rec[i].done.job, rec[i].plan.now)
<1>1. mirror \in Mirror /\ base \in Mirror
  BY BoundedTypes DEF TypeOK, Rec
<1>2. PatchMirror(base, new) /\ UNCHANGED <<source, target, delivered, jobs>>
  BY DEF CompletedPatch, repositories
<1>3. new.status.requested = base.status.requested
  BY <1>1, CompletionFields
<1> HIDE DEF base, new
<1>4. mirror'.status.requested = mirror.status.requested /\ UNCHANGED Syncs
  BY <1>1, <1>2, <1>3, PatchFields
<1>5. mirror'.status.mirrored \in 0..delivered
  BY <1>2 DEF IInv, BoundedMirror, Mirror, Status, Revisions, RepositoryTypes
<1> QED
  BY <1>2, <1>4, <1>5 DEF Contract!Report

\* The patch that records a scheduled Job is not seen.
LEMMA ScheduledPatchNotSeen ==
  ASSUME IInv, NEW i \in Instances, ScheduledPatch(i)
  PROVE  UNCHANGED Contract!vars
<1> DEFINE base == rec[i].base
           new == ApplyScheduled(base, rec[i].op, rec[i].plan)
<1>1. mirror \in Mirror /\ base \in Mirror /\ rec[i].op \in Op
  BY BoundedTypes DEF TypeOK, Rec
<1>2. PatchMirror(base, new) /\ UNCHANGED <<source, target, delivered, jobs>>
  BY DEF ScheduledPatch, repositories
<1>3. /\ new.status.requested = base.status.requested
      /\ new.status.mirrored = base.status.mirrored
  BY <1>1, AppliedFields
<1> HIDE DEF base, new
<1>4. /\ mirror'.status.requested = mirror.status.requested
      /\ mirror'.status.mirrored = mirror.status.mirrored
  BY <1>1, <1>2, <1>3, PatchFields
<1> QED
  BY <1>2, <1>4, NotSeen

\* A Job the operator creates is a scheduled sync for a pushed revision; one that
\* exists under the name stays as it is.
LEMMA CreationSchedules ==
  ASSUME IInv, NEW op \in Op, op.rev <= source,
         jobs' \in {jobs, JobsWith(op.name, op.gen, op.rev)},
         UNCHANGED <<mirror, source, target, delivered>>
  PROVE  \/ UNCHANGED Contract!vars
         \/ op.name \in JobNames /\ ~JobExists(jobs[op.name]) /\ Contract!Schedule(op.name)
<1>1. CASE jobs' = jobs
  BY <1>1, NotSeen
<1>2. CASE jobs' # jobs
  <2>1. /\ op.name \in JobNames
        /\ jobs' = [jobs EXCEPT ![op.name] = NewJob(op.gen, op.rev)]
        /\ ~JobExists(jobs[op.name])
    BY <1>2 DEF JobsWith, IInv, BoundedJobs
  <2>2. jobs \in [JobNames -> Job] /\ op.rev \in 0..source /\ op.gen \in 0..MaxGen
    BY BoundedTypes DEF TypeOK, Op, Revisions
  <2>3. NewJob(op.gen, op.rev) \in Job
    BY <2>2, NewJobBounded, BoundedTypes DEF TypeOK, BoundedJob, Op
  <2>4. Syncs' = [Syncs EXCEPT ![op.name] = Contract!NewSync(op.rev)]
    BY <2>1, <2>2, <2>3, OneSync DEF NewJob, SyncState, Contract!NewSync
  <2>5. Syncs[op.name].state = "none"
    BY <2>1 DEF Syncs, SyncState, JobExists
  <2>6. Contract!Schedule(op.name)
    BY <2>2, <2>4, <2>5 DEF Contract!Schedule
  <2> QED
    BY <2>1, <2>6
<1> QED
  BY <1>1, <1>2

\* The runner's and the Job controller's steps are steps of the sync.
LEMMA JobStepsSeen ==
  ASSUME IInv, NEW n \in JobNames,
         JobClones(n) \/ JobPushes(n) \/ JobSucceeds(n) \/ JobFails(n) \/ JobExpires(n)
  PROVE  \/ Contract!Fetch(n) \/ Contract!Deliver(n) \/ Contract!Succeed(n)
         \/ Contract!Fail(n) \/ Contract!Forget(n)
<1>1. /\ jobs \in [JobNames -> Job] /\ jobs[n] \in Job
      /\ source \in Revisions /\ delivered \in Revisions
  BY BoundedTypes DEF TypeOK
<1>2. Syncs[n] = [state |-> SyncState(jobs[n].phase), rev |-> jobs[n].rev,
                  got |-> jobs[n].got]
  BY DEF Syncs
<1>3. /\ JobRunning(jobs[n]) => Syncs[n].state \in {"asked", "fetched", "delivered"}
      /\ JobFinished(jobs[n]) => Syncs[n].state \in {"succeeded", "failed"}
  BY <1>2, SyncStates DEF JobRunning, JobFinished, RunningPhases, FinishedPhases
<1>4. CASE JobClones(n)
  <2>1. jobs' = [jobs EXCEPT ![n].phase = "cloned", ![n].got = source]
    BY <1>1, <1>4 DEF JobClones, Job
  <2>2. Contract!Move(n, "fetched", source)
    BY <1>1, <2>1, SyncMoves, SyncStates
  <2>3. Contract!Fetch(n)
    BY <1>2, <1>3, <1>4, <2>2, SyncStates
       DEF JobClones, repositories, Contract!Underway, Contract!Fetch
  <2> QED
    BY <2>3
<1>5. CASE JobPushes(n)
  <2>1. jobs' = [jobs EXCEPT ![n].phase = "pushed", ![n].got = 0]
    BY <1>1, <1>5 DEF JobPushes, Job
  <2>2. Contract!Move(n, "delivered", 0)
    BY <1>1, <2>1, SyncMoves, SyncStates
  <2>3. Contract!Deliver(n)
    BY <1>2, <1>3, <1>5, <2>2, SyncStates
       DEF JobPushes, Contract!Deliver
  <2> QED
    BY <2>3
<1>6. CASE JobSucceeds(n)
  <2>1. jobs' = [jobs EXCEPT ![n].phase = "complete", ![n].got = jobs[n].got]
    BY <1>1, <1>6 DEF JobSucceeds, SetJob, Job
  <2>2. Contract!Move(n, "succeeded", jobs[n].got)
    BY <1>1, <2>1, SyncMoves, SyncStates
  <2>3. Contract!Succeed(n)
    BY <1>2, <1>3, <1>6, <2>2, SyncStates
       DEF JobSucceeds, SetJob, repositories, Contract!Succeed
  <2> QED
    BY <2>3
<1>7. CASE JobFails(n)
  <2>1. jobs' = [jobs EXCEPT ![n].phase = "failed", ![n].got = 0]
    BY <1>1, <1>7 DEF JobFails, SetJob, Job
  <2>2. Contract!Move(n, "failed", 0)
    BY <1>1, <2>1, SyncMoves, SyncStates
  <2>3. Contract!Fail(n)
    BY <1>2, <1>3, <1>7, <2>2, SyncStates
       DEF JobFails, SetJob, repositories, Contract!Underway, Contract!Fail
  <2> QED
    BY <2>3
<1>8. CASE JobExpires(n)
  <2>1. AbsentJob \in Job /\ jobs' = [jobs EXCEPT ![n] = AbsentJob]
    BY <1>8, MaxPushAssumption, MaxGenAssumption
       DEF JobExpires, SetJob, AbsentJob, Job, Revisions
  <2>2. Syncs' = [Syncs EXCEPT ![n] = Contract!NoSync]
    BY <1>1, <2>1, OneSync, SyncStates DEF AbsentJob, Contract!NoSync
  <2> QED
    BY <1>3, <1>8, <2>2 DEF JobExpires, SetJob, repositories, Contract!Ended, Contract!Forget
<1> QED
  BY <1>4, <1>5, <1>6, <1>7, <1>8

\* What of the cluster's steps is seen: pushes and how Jobs go on.
ClusterSees ==
  \/ Contract!Push
  \/ \E n \in JobNames :
       \/ Contract!Fetch(n) \/ Contract!Deliver(n) \/ Contract!Succeed(n)
       \/ Contract!Fail(n) \/ Contract!Forget(n)

\* Informers, timers, users of the spec and the ways of deliveries are not seen.
LEMMA ClusterSeen ==
  ASSUME IInv, ClusterNext
  PROVE  [ClusterSees]_(Contract!vars)
<1> USE DEF objects, repositories
<1>1. ASSUME NEW i \in Instances,
             \/ RefreshMirror(i) \/ RefreshJobs(i) \/ RefreshLease(i)
             \/ TimerFires(i) \/ Resync(i)
      PROVE  UNCHANGED Contract!vars
  BY <1>1, NotSeen DEF RefreshMirror, RefreshJobs, RefreshLease, TimerFires, Resync
<1>2. CASE Tick
  BY <1>2, NotSeen DEF Tick
<1>3. CASE ChangeSpec
  <2>1. mirror \in Mirror
    BY BoundedTypes DEF TypeOK
  <2> QED
    BY <1>3, <2>1, NotSeen DEF ChangeSpec, Mirror
<1>4. CASE Push
  BY <1>4 DEF Push, ClusterSees, Contract!Push, Syncs, SyncState
<1>5. ASSUME NEW d \in Deliveries, Redeliver(d) \/ LoseDelivery(d)
      PROVE  UNCHANGED Contract!vars
  BY <1>5, NotSeen DEF Redeliver, LoseDelivery
<1>6. ASSUME NEW n \in JobNames,
             JobClones(n) \/ JobPushes(n) \/ JobSucceeds(n) \/ JobFails(n) \/ JobExpires(n)
      PROVE  ClusterSees
  BY <1>6, JobStepsSeen DEF ClusterSees
<1> QED
  BY <1>1, <1>2, <1>3, <1>4, <1>5, <1>6 DEF ClusterNext

\* The handlers' steps: only the patch is seen.
LEMMA WebhookSeen ==
  ASSUME IInv, IInv', WebhookNext
  PROVE  [Contract!Request]_(Contract!vars)
<1> USE DEF objects, repositories
<1>1. ASSUME NEW h \in Handlers, HookPatch(h) PROVE Contract!Request
  BY <1>1, HookPatchRequests
<1>2. ASSUME NEW h \in Handlers, HookGet(h) \/ HookFails(h)
      PROVE  UNCHANGED Contract!vars
  BY <1>2, NotSeen DEF HookGet, HookFails
<1>3. ASSUME NEW h \in Handlers, NEW i \in Instances, NEW d \in Deliveries,
             HandleGitHub(h, i, d)
      PROVE  UNCHANGED Contract!vars
  BY <1>3, NotSeen DEF HandleGitHub
<1> QED
  BY <1>1, <1>2, <1>3 DEF WebhookNext

\* The reconcilers' steps: creates and patches are seen.
LEMMA ReconcilerHides ==
  ASSUME IInv, NEW i \in Instances,
         \/ Start(i) \/ ListJobs(i) \/ CompletedGet(i) \/ ReleaseGet(i) \/ ReleaseDelete(i)
         \/ ReconcileUnobservedGeneration(i) \/ ReconcilePendingResync(i)
         \/ ReconcileFallback(i) \/ UntilNext(i)
         \/ CreateLease(i) \/ GetLease(i) \/ GetHolder(i) \/ UpdateLease(i)
         \/ UndoGet(i) \/ UndoDelete(i)
         \/ ScheduledGet(i) \/ ScheduledPatch(i)
         \/ Abort(i) \/ Crash(i)
  PROVE  UNCHANGED Contract!vars
<1> USE DEF objects, repositories
<1>1. CASE \/ Start(i) \/ ListJobs(i) \/ CompletedGet(i) \/ ReleaseGet(i) \/ ReleaseDelete(i)
  BY <1>1, NotSeen DEF Start, ListJobs, CompletedGet, ReleaseGet, ReleaseDelete
<1>2. CASE \/ ReconcileUnobservedGeneration(i) \/ ReconcilePendingResync(i)
           \/ ReconcileFallback(i) \/ UntilNext(i) \/ ScheduledGet(i)
  BY <1>2, NotSeen
     DEF ReconcileUnobservedGeneration, ReconcilePendingResync, ReconcileFallback, UntilNext,
         ScheduledGet
<1>3. CASE \/ CreateLease(i) \/ GetLease(i) \/ GetHolder(i) \/ UpdateLease(i)
           \/ UndoGet(i) \/ UndoDelete(i)
  BY <1>3, NotSeen DEF CreateLease, GetLease, GetHolder, UpdateLease, UndoGet, UndoDelete
<1>4. CASE Abort(i) \/ Crash(i)
  BY <1>4, NotSeen DEF Abort, Crash
<1>5. CASE ScheduledPatch(i)
  BY <1>5, ScheduledPatchNotSeen
<1> QED
  BY <1>1, <1>2, <1>3, <1>4, <1>5

\* What a create makes of the Jobs: nothing, or those with the new one.
LEMMA Creates ==
  ASSUME IInv, NEW i \in Instances, CreateJob(i) \/ CreateJobFails(i)
  PROVE  /\ rec[i].op \in Op /\ rec[i].op.rev <= source
         /\ jobs' \in {jobs, JobsWith(rec[i].op.name, rec[i].op.gen, rec[i].op.rev)}
         /\ UNCHANGED <<mirror, source, target, delivered>>
BY DEF IInv, BoundedRec, BoundedOp, CreateJob, CreateJobFails, repositories

\* So each step of a reconciler schedules one sync, makes one report, or is not seen.
LEMMA ReconcilerSeen ==
  ASSUME IInv, IInv', ReconcilerNext
  PROVE  [Contract!Next]_(Contract!vars)
<1>1. ASSUME NEW i \in Instances, CreateJob(i) \/ CreateJobFails(i)
      PROVE  [Contract!Next]_(Contract!vars)
  BY <1>1, Creates, CreationSchedules DEF Contract!Next
<1>2. ASSUME NEW i \in Instances, CompletedPatch(i)
      PROVE  [Contract!Next]_(Contract!vars)
  BY <1>2, CompletedPatchReports DEF Contract!Next
<1> QED
  BY <1>1, <1>2, ReconcilerHides DEF ReconcilerNext

------------------------------------------------------------------------------
(***************************************************************************)
(* The refinement.                                                         *)
(***************************************************************************)

\* A cluster the operator starts in is one the contract starts in.
LEMMA InitSeen == Init => Contract!Init
BY DEF Init, ClusterInit, NewMirror, AbsentJob, NewJob, Syncs, SyncState,
       Contract!Init, Contract!NoSync, Contract!NewSync

\* Whatever the operator does keeps the contract: requests, reports and syncs
\* change one at a time, each within what was pushed and shown.
THEOREM Contracted == Spec => KeepsContract
<1>1. IInv /\ IInv' /\ [Next]_vars => [Contract!Next]_(Contract!vars)
  <2> SUFFICES ASSUME IInv, IInv', [Next]_vars PROVE [Contract!Next]_(Contract!vars)
    OBVIOUS
  <2>1. CASE UNCHANGED vars
    BY <2>1, NotSeen DEF vars
  <2> QED
    BY <2>1, ClusterSeen, WebhookSeen, ReconcilerSeen
       DEF Next, ClusterSees, Contract!Next
<1> QED
  BY <1>1, InitSeen, Invariance, PTL DEF Spec, KeepsContract, Contract!Spec

\* A handler's patch leaves alone the outcome that reconcilers recorded since the
\* handler read its copy (HandleGitHub, PatchGitMirrorStatus), whatever the copy is.
LEMMA HookPatchKeepsOutcome ==
  ASSUME IInv, NEW h \in Handlers, HookPatch(h)
  PROVE  Outcome(mirror') = Outcome(mirror)
<1> DEFINE base == hook[h].base
           new == ApplyWebhookIntent(base, hook[h].delivery, hook[h].delivery)
<1>1. mirror \in Mirror /\ base \in Mirror
  BY BoundedTypes DEF TypeOK, Hook
<1>2. PatchMirror(base, new)
  BY DEF HookPatch
<1>3. Outcome(new) = Outcome(base)
  BY <1>1 DEF ApplyWebhookIntent, Outcome, Mirror, Status
<1> HIDE DEF base, new
<1>4. mirror' = MergePatch(base, new, mirror)
  BY <1>2 DEF PatchMirror
<1> QED
  BY <1>1, <1>3, <1>4 DEF MergePatch, Patched, Outcome, Mirror, Status

\* Recording a webhook never undoes what a reconciler recorded, with any number of
\* instances and handlers and any caches.
THEOREM IntentKept == Spec => IntentKeepsOutcome
<1>1. IInv => [(\E h \in Handlers : HookPatch(h)) => Outcome(mirror') = Outcome(mirror)]_<<mirror, hook>>
  BY HookPatchKeepsOutcome
<1> QED
  BY <1>1, Invariance, PTL DEF IntentKeepsOutcome
==============================================================================
