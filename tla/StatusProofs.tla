----------------------------- MODULE StatusProofs -----------------------------
(***************************************************************************)
(* What the status of the mirror tells of its Jobs and of the work left,   *)
(* for every bound, any number of handlers and, where nothing else is      *)
(* said, any number of instances that read the mirror as it is: lastError  *)
(* agrees with the Job it is of, no wake-up is lost, a schedule is lost in *)
(* one way only.                                                           *)
(***************************************************************************)
EXTENDS OperatorProofs

Kind(i) == rec[i].op.kind

\* Reconcile has listed the Jobs.
Past(i) == rec[i].pc \notin {"idle", "list"}

------------------------------------------------------------------------------
(***************************************************************************)
(* Patches of the status, field by field.                                  *)
(***************************************************************************)

\* The API server takes from a patch the fields the mutation changed.
LEMMA PatchTakes ==
  ASSUME mirror \in Mirror, NEW base, NEW new, PatchMirror(base, new)
  PROVE  /\ mirror'.gen = mirror.gen
         /\ mirror'.status.observed
              = Patched(base.status.observed, new.status.observed, mirror.status.observed)
         /\ mirror'.status.delivery
              = Patched(base.status.delivery, new.status.delivery, mirror.status.delivery)
         /\ mirror'.status.pending
              = Patched(base.status.pending, new.status.pending, mirror.status.pending)
         /\ mirror'.status.lastJob
              = Patched(base.status.lastJob, new.status.lastJob, mirror.status.lastJob)
         /\ mirror'.status.completed
              = Patched(base.status.completed, new.status.completed, mirror.status.completed)
         /\ mirror'.status.error
              = Patched(base.status.error, new.status.error, mirror.status.error)
BY DEF PatchMirror, MergePatch, Mirror, Status

\* ApplyWebhookIntent asks for a sync and names the delivery, no more.
LEMMA IntentChanges ==
  ASSUME NEW m \in Mirror, NEW d, NEW r
  PROVE  LET a == ApplyWebhookIntent(m, d, r) IN
         /\ a.status.observed = m.status.observed /\ a.status.lastJob = m.status.lastJob
         /\ a.status.completed = m.status.completed /\ a.status.error = m.status.error
         /\ a.status.pending /\ a.status.delivery = d
BY DEF ApplyWebhookIntent, Mirror, Status

\* reconcileCompletedJobs records an outcome, and what it hands over is no
\* longer pending.
LEMMA CompletionChanges ==
  ASSUME NEW m \in Mirror, NEW name, NEW job, NEW now
  PROVE  LET a == ApplyCompletion(m, name, job, now) IN
         /\ a.status.delivery = m.status.delivery
         /\ a.status.pending \in BOOLEAN
         /\ CompletionApplies(m, name, job) =>
              /\ a.status.lastJob = name /\ a.status.completed = name
              /\ a.status.error = (job.phase = "failed")
              /\ a.status.observed = IF job.gen = 0 THEN m.status.observed ELSE m.gen
              /\ a.status.pending <=> job.gen = 0 /\ m.status.pending
         /\ ~CompletionApplies(m, name, job) => a.status = m.status
<1> DEFINE n == [m EXCEPT !.status.observed = m.gen]
           Shaped(k) == DOMAIN k = {"gen", "status"} /\ DOMAIN k.status = DOMAIN m.status
<1>1. ASSUME NEW k, Shaped(k), NEW gen
      PROVE  LET o == ApplyOutcome(k, name, job, gen) IN
             /\ Shaped(o)
             /\ o.status.delivery = k.status.delivery
             /\ o.status.lastJob = name /\ o.status.completed = name
             /\ o.status.error = (job.phase = "failed")
             /\ o.status.observed = k.status.observed
             /\ o.status.pending = k.status.pending
  BY <1>1 DEF ApplyOutcome, ErrorAfter, Mirror, Status
<1>2. ASSUME NEW k, Shaped(k), k.status.pending \in BOOLEAN
      PROVE  LET a == ApplyFollowup(k, now) IN
             /\ a.status.delivery = k.status.delivery /\ a.status.lastJob = k.status.lastJob
             /\ a.status.completed = k.status.completed /\ a.status.error = k.status.error
             /\ a.status.observed = k.status.observed /\ ~a.status.pending
             /\ a.status.pending \in BOOLEAN
  BY <1>2 DEF ApplyFollowup, Mirror, Status
<1>3. /\ Shaped(m) /\ Shaped(n) /\ m.status.pending \in BOOLEAN
      /\ n.status.observed = m.gen /\ n.status.pending = m.status.pending
      /\ n.status.delivery = m.status.delivery
  BY DEF Mirror, Status
<1>4. ApplyCompletedJobStatus(m, name, job, now)
        = ApplyFollowup(ApplyOutcome(n, name, job, m.gen), now)
  BY DEF ApplyCompletedJobStatus
<1>5. ApplyCompletedLegacyJobStatus(m, name, job)
        = ApplyOutcome(m, name, job, m.status.observed)
  BY DEF ApplyCompletedLegacyJobStatus
<1> HIDE DEF n, Shaped
<1>6. LET a == ApplyCompletedLegacyJobStatus(m, name, job) IN
      /\ a.status.delivery = m.status.delivery
      /\ a.status.lastJob = name /\ a.status.completed = name
      /\ a.status.error = (job.phase = "failed")
      /\ a.status.observed = m.status.observed /\ a.status.pending = m.status.pending
  BY <1>1, <1>3, <1>5
<1>7. LET a == ApplyCompletedJobStatus(m, name, job, now) IN
      /\ a.status.delivery = m.status.delivery
      /\ a.status.lastJob = name /\ a.status.completed = name
      /\ a.status.error = (job.phase = "failed")
      /\ a.status.observed = m.gen /\ ~a.status.pending /\ a.status.pending \in BOOLEAN
  <2> DEFINE o == ApplyOutcome(n, name, job, m.gen)
  <2>1. /\ Shaped(o) /\ o.status.pending \in BOOLEAN
        /\ o.status.delivery = m.status.delivery
        /\ o.status.lastJob = name /\ o.status.completed = name
        /\ o.status.error = (job.phase = "failed") /\ o.status.observed = m.gen
    BY <1>1, <1>3
  <2>2. ApplyCompletedJobStatus(m, name, job, now) = ApplyFollowup(o, now)
    BY <1>4
  <2> HIDE DEF o
  <2>3. LET a == ApplyFollowup(o, now) IN
        /\ a.status.delivery = o.status.delivery /\ a.status.lastJob = o.status.lastJob
        /\ a.status.completed = o.status.completed /\ a.status.error = o.status.error
        /\ a.status.observed = o.status.observed /\ ~a.status.pending
        /\ a.status.pending \in BOOLEAN
    BY <1>2, <2>1
  <2> QED
    BY <2>1, <2>2, <2>3
<1> QED
  BY <1>3, <1>6, <1>7 DEF ApplyCompletion

\* What the patch for a scheduled Job changes, by the kind of its trigger.
LEMMA ScheduledChanges ==
  ASSUME NEW m \in Mirror, NEW op \in Op, NEW plan
  PROVE  LET a == ApplyScheduled(m, op, plan) IN
         /\ a.status.completed = m.status.completed /\ a.status.error = m.status.error
         /\ op.kind = "coalesce" => a.status.lastJob = m.status.lastJob
         /\ op.kind # "coalesce" =>
              a.status.lastJob = IF m.gen = op.gen THEN op.name ELSE m.status.lastJob
         /\ op.kind # "coalesce" /\ m.gen = op.gen =>
              a.status.observed = m.gen /\ ~a.status.pending
         /\ a.status.delivery \in {m.status.delivery, Scheduled}
         /\ op.kind = "coalesce" => a.status.delivery = Scheduled
         /\ a.status.pending \in BOOLEAN
         /\ op.kind # "coalesce" /\ a.status.pending => m.status.pending
<1> DEFINE Shaped(k) == DOMAIN k = {"gen", "status"} /\ DOMAIN k.status = DOMAIN m.status
<1>1. ASSUME NEW k, Shaped(k), k.gen = m.gen, k.status.pending \in BOOLEAN, NEW now
      PROVE  LET a == ApplySyncScheduledForGeneration(k, op.name, op.gen, now) IN
             /\ a.status.completed = k.status.completed /\ a.status.error = k.status.error
             /\ a.status.lastJob = IF m.gen = op.gen THEN op.name ELSE k.status.lastJob
             /\ m.gen = op.gen => a.status.observed = m.gen /\ ~a.status.pending
             /\ a.status.delivery = k.status.delivery
             /\ a.status.pending \in BOOLEAN /\ (a.status.pending => k.status.pending)
  BY <1>1 DEF ApplySyncScheduledForGeneration, ApplySyncScheduled, Mirror, Status
<1>2. ASSUME NEW now, NEW active \in BOOLEAN
      PROVE  LET a == ApplyWebhookState(m, Scheduled, now, active) IN
             /\ Shaped(a) /\ a.gen = m.gen /\ a.status.completed = m.status.completed
             /\ a.status.error = m.status.error /\ a.status.lastJob = m.status.lastJob
             /\ a.status.delivery = Scheduled
             /\ a.status.pending \in BOOLEAN /\ (a.status.pending <=> active)
  BY DEF ApplyWebhookState, Mirror, Status
<1> HIDE DEF Shaped
<1>3. CASE op.kind = "coalesce"
  BY <1>2, <1>3 DEF ApplyScheduled
<1>4. CASE op.kind = "fallback"
  <2> DEFINE k == ApplyWebhookState(m, Scheduled, plan.now, FALSE)
  <2>1. /\ Shaped(k) /\ k.gen = m.gen /\ k.status.completed = m.status.completed
        /\ k.status.error = m.status.error /\ k.status.lastJob = m.status.lastJob
        /\ k.status.delivery = Scheduled /\ k.status.pending \in BOOLEAN /\ ~k.status.pending
    BY <1>2
  <2>2. ApplyScheduled(m, op, plan)
          = ApplySyncScheduledForGeneration(k, op.name, op.gen, plan.now)
    BY <1>4 DEF ApplyScheduled
  <2> HIDE DEF k
  <2>3. LET a == ApplySyncScheduledForGeneration(k, op.name, op.gen, plan.now) IN
        /\ a.status.completed = k.status.completed /\ a.status.error = k.status.error
        /\ a.status.lastJob = IF m.gen = op.gen THEN op.name ELSE k.status.lastJob
        /\ m.gen = op.gen => a.status.observed = m.gen /\ ~a.status.pending
        /\ a.status.delivery = k.status.delivery
        /\ a.status.pending \in BOOLEAN /\ (a.status.pending => k.status.pending)
    BY <1>1, <2>1
  <2> QED
    BY <1>4, <2>1, <2>2, <2>3
<1>5. CASE op.kind \notin {"coalesce", "fallback"}
  <2>1. ApplyScheduled(m, op, plan)
          = ApplySyncScheduledForGeneration(m, op.name, op.gen, plan.now)
    BY <1>5 DEF ApplyScheduled
  <2>2. Shaped(m) /\ m.status.pending \in BOOLEAN
    BY DEF Mirror, Status, Shaped
  <2>3. LET a == ApplySyncScheduledForGeneration(m, op.name, op.gen, plan.now) IN
        /\ a.status.completed = m.status.completed /\ a.status.error = m.status.error
        /\ a.status.lastJob = IF m.gen = op.gen THEN op.name ELSE m.status.lastJob
        /\ m.gen = op.gen => a.status.observed = m.gen /\ ~a.status.pending
        /\ a.status.delivery = m.status.delivery
        /\ a.status.pending \in BOOLEAN /\ (a.status.pending => m.status.pending)
    BY <1>1, <2>2
  <2> QED
    BY <1>5, <2>1, <2>3
<1> QED
  BY <1>3, <1>4, <1>5

------------------------------------------------------------------------------
(***************************************************************************)
(* Steps of a reconciler: which of the objects each of them touches.       *)
(***************************************************************************)
\* A step of the reconcilers is a step of one of them.
LEMMA StepsOfInstances == ReconcilerNext <=> \E i \in Instances : StepOf(i)
BY DEF ReconcilerNext, StepOf, ReconcileStep

\* Jobs are created, the status patched, the Lease written in a few places; no
\* step reaches a repository, and only a crash resets handlers or caches.
LEMMA Touches ==
  ASSUME NEW i \in Instances, StepOf(i)
  PROVE  /\ CreateJob(i) \/ CreateJobFails(i) \/ jobs' = jobs
         /\ CompletedPatch(i) \/ ScheduledPatch(i) \/ mirror' = mirror
         /\ CreateLease(i) \/ UpdateLease(i) \/ ReleaseDelete(i) \/ UndoDelete(i)
              \/ lease' = lease
         /\ Crash(i) \/ (hook' = hook /\ cache' = cache)
         /\ UNCHANGED <<repositories, clock>>
<1> USE DEF objects, repositories
<1>1. CASE \/ Start(i) \/ ListJobs(i) \/ CompletedGet(i) \/ CompletedPatch(i)
           \/ ReleaseGet(i) \/ ReleaseDelete(i)
  BY <1>1 DEF Start, ListJobs, CompletedGet, CompletedPatch, ReleaseGet, ReleaseDelete
<1>2. CASE \/ ReconcileUnobservedGeneration(i) \/ ReconcilePendingResync(i)
           \/ ReconcileFallback(i) \/ UntilNext(i) \/ ScheduledGet(i) \/ ScheduledPatch(i)
  BY <1>2 DEF ReconcileUnobservedGeneration, ReconcilePendingResync, ReconcileFallback,
              UntilNext, ScheduledGet, ScheduledPatch
<1>3. CASE \/ CreateLease(i) \/ GetLease(i) \/ GetHolder(i) \/ UpdateLease(i)
           \/ CreateJob(i) \/ CreateJobFails(i) \/ UndoGet(i) \/ UndoDelete(i)
  BY <1>3 DEF CreateLease, GetLease, GetHolder, UpdateLease, CreateJob, CreateJobFails,
              UndoGet, UndoDelete
<1>4. CASE Abort(i) \/ Crash(i)
  BY <1>4 DEF Abort, Crash
<1> QED
  BY <1>1, <1>2, <1>3, <1>4 DEF StepOf, ReconcileStep

------------------------------------------------------------------------------
(***************************************************************************)
(* The outcome.  The copies of Jobs may be of any age, and Jobs expire: a  *)
(* copy of a finished Job is then one of a Job that is gone.  The argument *)
(* is that no other Job comes in its place.  Names are used again only for *)
(* a mirror's generation and for a delivery, which RecordsUndisturbed      *)
(* keeps from hitting the recorded name or one that is cached as finished; *)
(* a Reconcile that schedules while it still has Jobs to record schedules  *)
(* a follow-up, whose name is new.                                         *)
(***************************************************************************)

\* The finished Jobs whose outcome the Reconcile has yet to record.
ToRecord(i) ==
  rec[i].todo \cup (IF At(i, "completedPatch") THEN {rec[i].done} ELSE {})

\* A copy of a finished Job that is the Job still, unless that has expired.
GoodCopy(js, n, j) == JobFinished(j) /\ (JobExists(js[n]) => js[n] = j)

CopiesGood(i) ==
  /\ \A n \in JobNames : JobFinished(SeenJobs(i)[n]) => GoodCopy(jobs, n, SeenJobs(i)[n])
  /\ Past(i) => \A l \in ToRecord(i) : GoodCopy(jobs, l.name, l.job)

\* No one else records an outcome between the read and the patch.
PatchFits(i) ==
  At(i, "completedPatch") =>
    /\ rec[i].base.status.completed = mirror.status.completed
    /\ rec[i].base.status.error = mirror.status.error

Stages == {"generation", "pending", "fallback", "untilNext"}
Recorders == {"completed", "completedPatch"}
Creating == {"leaseCreate", "leaseGet", "holderGet", "leaseUpdate", "createJob"}

\* What is scheduled while Jobs are left to record is a follow-up, under a new name.
OneByOne(i) ==
  LET r == rec[i] IN
  /\ r.pc \in Stages \/ r.op.kind \notin {"none", "followup"} => r.todo = {}
  /\ r.pc \in Recorders => r.op.kind = "none"
  /\ r.pc \in Creating => r.op.kind # "none"
  /\ r.pc \in {"releaseGet", "releaseDelete"} => (r.followup <=> r.op.kind = "followup")
  /\ r.op.kind = "followup" => r.op.name = ResyncJob(r.plan.stamp)
  /\ \A l \in ToRecord(i) : l.name # ResyncJob(r.plan.stamp)

OutcomeKept ==
  \A n \in JobNames :
    mirror.status.completed = n /\ JobExists(jobs[n]) =>
      JobFinished(jobs[n]) /\ mirror.status.error = (jobs[n].phase = "failed")

OutcomeInv(i) == CopiesGood(i) /\ PatchFits(i) /\ OneByOne(i) /\ OutcomeKept

\* What shows of a finished Job is the Job.
LEMMA FinishedVisible ==
  ASSUME NEW j \in Job
  PROVE  /\ JobFinished(Visible(j)) => Visible(j) = j
         /\ JobFinished(j) => Visible(j) = j /\ ~JobRunning(j)
BY DEF JobFinished, JobRunning, Visible, NewJob, Job, RunningPhases, FinishedPhases

\* A finished Job stays as it is until it expires, and the place of a Job that is
\* gone is taken by a create alone.
LEMMA FinishedStays ==
  ASSUME TypeOK, [Next]_vars, NEW n \in JobNames, ~JobRunning(jobs[n])
  PROVE  \/ jobs'[n] = jobs[n]
         \/ JobExists(jobs[n]) /\ ~JobExists(jobs'[n])
         \/ /\ ~JobExists(jobs[n]) /\ jobs' # jobs
            /\ \E k \in Instances : rec[k].op.name = n /\ (CreateJob(k) \/ CreateJobFails(k))
<1> USE DEF TypeOK, objects, repositories
<1> DEFINE Kept == jobs'[n] = jobs[n]
<1>1. jobs[n] \in Job /\ jobs[n].phase \notin {"cloned", "pushed"}
  BY DEF JobRunning, RunningPhases
<1>2. CASE ClusterNext
  <2>1. ASSUME NEW k \in JobNames, JobClones(k) \/ JobPushes(k) \/ JobSucceeds(k) \/ JobFails(k)
        PROVE  Kept
    BY <1>1, <2>1 DEF JobClones, JobPushes, JobSucceeds, JobFails, SetJob
  <2>2. ASSUME NEW k \in JobNames, JobExpires(k)
        PROVE  Kept \/ (JobExists(jobs[n]) /\ ~JobExists(jobs'[n]))
    BY <1>1, <2>2 DEF JobExpires, SetJob, JobExists, JobFinished, AbsentJob, FinishedPhases
  <2>3. ASSUME NEW k \in Instances, RefreshMirror(k) \/ RefreshJobs(k) \/ RefreshLease(k)
                                      \/ TimerFires(k) \/ Resync(k)
        PROVE  Kept
    BY <2>3 DEF RefreshMirror, RefreshJobs, RefreshLease, TimerFires, Resync
  <2>4. ASSUME \/ Tick \/ ChangeSpec \/ Push
               \/ \E d \in Deliveries : Redeliver(d) \/ LoseDelivery(d)
        PROVE  Kept
    BY <2>4 DEF Tick, ChangeSpec, Push, Redeliver, LoseDelivery
  <2> QED
    BY <1>2, <2>1, <2>2, <2>3, <2>4 DEF ClusterNext
<1>3. CASE WebhookNext
  BY <1>3 DEF WebhookNext, HandleGitHub, HookGet, HookPatch, HookFails
<1>4. CASE ReconcilerNext
  <2>1. PICK k \in Instances : StepOf(k)
    BY <1>4, StepsOfInstances
  <2>2. CASE jobs' = jobs
    BY <2>2
  <2>3. CASE jobs' # jobs
    <3>1. /\ CreateJob(k) \/ CreateJobFails(k)
          /\ jobs' = JobsWith(rec[k].op.name, rec[k].op.gen, rec[k].op.rev)
      BY <2>1, <2>3, Touches DEF CreateJob, CreateJobFails
    <3> QED
      BY <2>3, <3>1 DEF JobsWith
  <2> QED
    BY <2>2, <2>3
<1>5. CASE UNCHANGED vars
  BY <1>5 DEF vars
<1> QED
  BY <1>2, <1>3, <1>4, <1>5 DEF Next

\* The mirror, but for its status patches, changes in its spec alone.
LEMMA StatusFields ==
  ASSUME TypeOK, [Next]_vars
  PROVE  \/ mirror'.status = mirror.status
         \/ \E h \in Handlers : HookPatch(h)
         \/ \E i \in Instances : CompletedPatch(i) \/ ScheduledPatch(i)
<1>1. CASE ClusterNext
  BY <1>1 DEF ClusterNext, RefreshMirror, RefreshJobs, RefreshLease, TimerFires, Resync, Tick,
       ChangeSpec, Push, Redeliver, LoseDelivery, JobClones, JobPushes, JobSucceeds, JobFails,
       JobExpires, SetJob, objects, TypeOK, Mirror
<1>2. CASE WebhookNext
  BY <1>2 DEF WebhookNext, HandleGitHub, HookGet, HookFails, objects
<1>3. CASE ReconcilerNext
  BY <1>3, StepsOfInstances, Touches
<1> QED
  BY <1>1, <1>2, <1>3 DEF Next, vars

\* Handlers and the patches of scheduled Jobs leave the outcome alone.
LEMMA OutcomeFields ==
  ASSUME TypeOK, [Next]_vars, ~\E i \in Instances : CompletedPatch(i)
  PROVE  /\ mirror'.status.completed = mirror.status.completed
         /\ mirror'.status.error = mirror.status.error
<1> USE DEF TypeOK
<1>2. CASE \E h \in Handlers : HookPatch(h)
  <2>1. PICK h \in Handlers : HookPatch(h)
    BY <1>2
  <2> DEFINE base == hook[h].base
             new == ApplyWebhookIntent(base, hook[h].delivery, hook[h].delivery)
  <2>2. base \in Mirror
    BY DEF Hook
  <2>3. PatchMirror(base, new)
    BY <2>1 DEF HookPatch
  <2>4. new.status.completed = base.status.completed /\ new.status.error = base.status.error
    BY <2>2, IntentChanges
  <2> HIDE DEF base, new
  <2>5. /\ mirror'.status.completed
             = Patched(base.status.completed, new.status.completed, mirror.status.completed)
        /\ mirror'.status.error
             = Patched(base.status.error, new.status.error, mirror.status.error)
    BY <2>3, PatchTakes
  <2> QED
    BY <2>4, <2>5 DEF Patched
<1>3. CASE \E i \in Instances : ScheduledPatch(i)
  <2>1. PICK i \in Instances : ScheduledPatch(i)
    BY <1>3
  <2> DEFINE base == rec[i].base
             new == ApplyScheduled(base, rec[i].op, rec[i].plan)
  <2>2. base \in Mirror /\ rec[i].op \in Op
    BY DEF Rec
  <2>3. PatchMirror(base, new)
    BY <2>1 DEF ScheduledPatch
  <2>4. new.status.completed = base.status.completed /\ new.status.error = base.status.error
    BY <2>2, ScheduledChanges
  <2> HIDE DEF base, new
  <2>5. /\ mirror'.status.completed
             = Patched(base.status.completed, new.status.completed, mirror.status.completed)
        /\ mirror'.status.error
             = Patched(base.status.error, new.status.error, mirror.status.error)
    BY <2>3, PatchTakes
  <2> QED
    BY <2>4, <2>5 DEF Patched
<1> QED
  BY <1>2, <1>3, StatusFields

\* A cache of Jobs stays or catches up.
LEMMA CachedJobs ==
  ASSUME TypeOK, [Next]_vars, NEW i \in Instances
  PROVE  \/ cache'[i].jobs = cache[i].jobs
         \/ cache'[i].jobs = VisibleJobs(jobs) /\ jobs' = jobs
<1> USE DEF TypeOK, Caches, objects
<1>1. CASE ClusterNext
  <2>1. ASSUME NEW k \in Instances, RefreshMirror(k) \/ RefreshJobs(k) \/ RefreshLease(k)
        PROVE  \/ cache'[i].jobs = cache[i].jobs
               \/ cache'[i].jobs = VisibleJobs(jobs) /\ jobs' = jobs
    BY <2>1 DEF RefreshMirror, RefreshJobs, RefreshLease
  <2>2. CASE ~\E k \in Instances : RefreshMirror(k) \/ RefreshJobs(k) \/ RefreshLease(k)
    BY <1>1, <2>2 DEF ClusterNext, TimerFires, Resync, Tick, ChangeSpec, Push, Redeliver,
         LoseDelivery, JobClones, JobPushes, JobSucceeds, JobFails, JobExpires, SetJob
  <2> QED
    BY <2>1, <2>2
<1>2. CASE WebhookNext
  BY <1>2 DEF WebhookNext, HandleGitHub, HookGet, HookPatch, HookFails
<1>3. ASSUME NEW k \in Instances, Crash(k)
      PROVE  \/ cache'[i].jobs = cache[i].jobs
             \/ cache'[i].jobs = VisibleJobs(jobs) /\ jobs' = jobs
  BY <1>3 DEF Crash, SyncCache
<1>4. CASE ReconcilerNext
  BY <1>3, <1>4, StepsOfInstances, Touches
<1> QED
  BY <1>1, <1>2, <1>4 DEF Next, vars

\* The stages that follow one another.
LEMMA RestoredStage ==
  ASSUME NEW plan, NEW todo
  PROVE  /\ CompletedStage(plan, todo) \in {"completed", "generation", "pending", "fallback"}
         /\ CompletedStage(plan, todo) # "completed" => todo = {}
         /\ CompletedStage(plan, todo) \in {"generation", "pending"} => ~plan.active
         /\ CompletedStage(plan, todo) = "generation" => plan.unobserved
         /\ CompletedStage(plan, todo) = "pending" => plan.pending /\ ~plan.unobserved
         /\ CompletedStage(plan, todo) = "fallback" =>
              plan.active \/ (~plan.unobserved /\ ~plan.pending)
BY DEF CompletedStage, GenerationStage, PendingStage, FallbackStage

\* Once it has listed the Jobs, Reconcile is at the first stage with something to do.
LEMMA ListsStage ==
  ASSUME TypeOK, NEW i \in Instances, ListJobs(i)
  PROVE  \E plan, todo : rec'[i].pc = CompletedStage(plan, todo)
<1>1. PICK plan, todo :
        rec' = [rec EXCEPT ![i] = [IdleRec EXCEPT !.pc = CompletedStage(plan, todo),
                                                  !.plan = plan, !.todo = todo]]
  BY DEF ListJobs
<1>2. rec'[i].pc = CompletedStage(plan, todo)
  BY <1>1 DEF IdleRec, TypeOK
<1> QED
  BY <1>2

\* A reconciler's list of Jobs to record only shrinks until it lists again.
LEMMA ListShrinks ==
  ASSUME TypeOK, NEW i \in Instances, StepOf(i), Past(i)'
  PROVE  ListJobs(i) \/ (Past(i) /\ ToRecord(i)' \subseteq ToRecord(i))
<1> USE DEF TypeOK, Rec, Past, ToRecord, At
<1>1. CASE Start(i)
  BY <1>1 DEF Start
<1>8. ASSUME Past(i), NextCompleted(i) PROVE Past(i) /\ ToRecord(i)' \subseteq ToRecord(i)
  <2>1. rec'[i].todo = rec[i].todo /\ rec'[i].pc # "completedPatch"
    BY <1>8, RestoredStage DEF NextCompleted, IdleRec
  <2> QED
    BY <1>8, <2>1
<1>9. CASE ReleaseGet(i) \/ ReleaseDelete(i)
  BY <1>8, <1>9 DEF ReleaseGet, ReleaseDelete, AfterRelease
<1>2. CASE CompletedGet(i)
  <2>1. PICK l \in rec[i].todo :
          rec' = [rec EXCEPT ![i].pc = "completedPatch", ![i].todo = @ \ {l},
                             ![i].done = l, ![i].base = SeenMirror(i)]
    BY <1>2 DEF CompletedGet
  <2>2. rec'[i].todo = rec[i].todo \ {l} /\ rec'[i].done = l
    BY <2>1
  <2> QED
    BY <1>2, <2>2 DEF CompletedGet
<1>3. CASE CompletedPatch(i)
  BY <1>3 DEF CompletedPatch
<1>4. CASE ReconcileUnobservedGeneration(i) \/ ReconcilePendingResync(i)
             \/ ReconcileFallback(i) \/ UntilNext(i) \/ ScheduledGet(i)
  BY <1>4 DEF ReconcileUnobservedGeneration, ReconcilePendingResync, ReconcileFallback,
       UntilNext, ScheduledGet, Schedule, Return, IdleRec, PendingStage, FallbackStage
<1>5. CASE \/ CreateLease(i) \/ GetLease(i) \/ GetHolder(i) \/ UpdateLease(i)
           \/ CreateJob(i) \/ CreateJobFails(i) \/ UndoGet(i) \/ UndoDelete(i)
  BY <1>5 DEF CreateLease, GetLease, GetHolder, UpdateLease, CreateJob, CreateJobFails,
       UndoGet, UndoDelete, Return, ReturnError, IdleRec
<1>6. CASE ScheduledPatch(i)
  <2>1. CASE NextCompleted(i)
    BY <1>6, <1>8, <2>1 DEF ScheduledPatch
  <2>2. CASE rec' = [rec EXCEPT ![i] = [IdleRec EXCEPT !.pc = FallbackStage,
                                                       !.plan = rec[i].plan]]
    BY <1>6, <2>2 DEF ScheduledPatch, IdleRec, FallbackStage
  <2>3. CASE \E requeue \in BOOLEAN : Return(i, requeue)
    BY <2>3 DEF Return, IdleRec
  <2> QED
    BY <1>6, <2>1, <2>2, <2>3 DEF ScheduledPatch, AfterScheduled
<1>7. CASE Abort(i) \/ Crash(i)
  BY <1>7 DEF Abort, Crash, ReturnError, IdleRec
<1> QED
  BY <1>1, <1>2, <1>3, <1>4, <1>5, <1>6, <1>7, <1>9 DEF StepOf, ReconcileStep

\* Only reconcileCompletedJobs is at its patch, and it has just read the mirror.
LEMMA PatchAfterGet ==
  ASSUME TypeOK, NEW i \in Instances, StepOf(i), At(i, "completedPatch")'
  PROVE  CompletedGet(i) /\ rec'[i].base = SeenMirror(i)
<1> USE DEF TypeOK, Rec, At
<1>1. CASE Start(i)
  BY <1>1 DEF Start
<1>9. CASE ListJobs(i)
  BY <1>9, ListsStage, RestoredStage
<1>2. CASE CompletedGet(i)
  <2>1. PICK l \in rec[i].todo :
          rec' = [rec EXCEPT ![i].pc = "completedPatch", ![i].todo = @ \ {l},
                             ![i].done = l, ![i].base = SeenMirror(i)]
    BY <1>2 DEF CompletedGet
  <2> QED
    BY <1>2, <2>1
<1>3. NextCompleted(i) => rec'[i].pc # "completedPatch"
  BY RestoredStage DEF NextCompleted, IdleRec
<1>4. CASE CompletedPatch(i) \/ ReleaseGet(i) \/ ReleaseDelete(i)
  BY <1>3, <1>4 DEF CompletedPatch, ReleaseGet, ReleaseDelete, AfterRelease
<1>5. CASE ReconcileUnobservedGeneration(i) \/ ReconcilePendingResync(i)
             \/ ReconcileFallback(i) \/ UntilNext(i) \/ ScheduledGet(i)
  BY <1>5 DEF ReconcileUnobservedGeneration, ReconcilePendingResync, ReconcileFallback,
       UntilNext, ScheduledGet, Schedule, Return, IdleRec, PendingStage, FallbackStage
<1>6. CASE \/ CreateLease(i) \/ GetLease(i) \/ GetHolder(i) \/ UpdateLease(i)
           \/ CreateJob(i) \/ CreateJobFails(i) \/ UndoGet(i) \/ UndoDelete(i)
  BY <1>6 DEF CreateLease, GetLease, GetHolder, UpdateLease, CreateJob, CreateJobFails,
       UndoGet, UndoDelete, Return, ReturnError, IdleRec
<1>7. CASE ScheduledPatch(i)
  <2>1. CASE NextCompleted(i)
    BY <1>3, <2>1
  <2>2. CASE rec' = [rec EXCEPT ![i] = [IdleRec EXCEPT !.pc = FallbackStage,
                                                       !.plan = rec[i].plan]]
    BY <2>2 DEF IdleRec, FallbackStage
  <2>3. CASE \E requeue \in BOOLEAN : Return(i, requeue)
    BY <2>3 DEF Return, IdleRec
  <2> QED
    BY <1>7, <2>1, <2>2, <2>3 DEF ScheduledPatch, AfterScheduled
<1>8. CASE Abort(i) \/ Crash(i)
  BY <1>8 DEF Abort, Crash, ReturnError, IdleRec
<1> QED
  BY <1>1, <1>2, <1>4, <1>5, <1>6, <1>7, <1>8, <1>9 DEF StepOf, ReconcileStep

\* A list is made of the copies seen: the finished ones as they are.
LEMMA ListsFinished ==
  ASSUME TypeOK, NEW i \in Instances, ListJobs(i),
         \A n \in JobNames : JobFinished(SeenJobs(i)[n]) => GoodCopy(jobs, n, SeenJobs(i)[n])
  PROVE  \A l \in ToRecord(i)' : GoodCopy(jobs, l.name, l.job)
<1> DEFINE listed == JobsForGeneration(SeenJobs(i), rec[i].base.gen)
           todo == {[name |-> n, job |-> listed[n]] :
                      n \in {n \in JobNames : RecordsCompletion(rec[i].base, listed, n)}}
<1>1. rec'[i].todo = todo /\ rec'[i].pc # "completedPatch"
  BY RestoredStage DEF ListJobs, TypeOK, IdleRec
<1>2. ASSUME NEW n \in JobNames, RecordsCompletion(rec[i].base, listed, n)
      PROVE  GoodCopy(jobs, n, listed[n])
  <2>1. JobFinished(listed[n])
    BY <1>2 DEF RecordsCompletion
  <2>2. listed[n] = SeenJobs(i)[n]
    BY <2>1 DEF JobsForGeneration, JobFinished, AbsentJob, FinishedPhases
  <2> QED
    BY <2>1, <2>2
<1> HIDE DEF listed
<1> QED
  BY <1>1, <1>2 DEF ToRecord, At

\* The stamp of a Reconcile that lists names no Job of the list.
LEMMA ListsOtherNames ==
  ASSUME TypeOK, TypeOK', NEW i \in Instances, ListJobs(i)
  PROVE  OneByOne(i)'
<1> USE DEF TypeOK
<1>1. PICK k, plan, todo :
        /\ k \in Stamps /\ k \in FreshStamps
        /\ rec' = [rec EXCEPT ![i] = [IdleRec EXCEPT !.pc = CompletedStage(plan, todo),
                                                     !.plan = plan, !.todo = todo]]
        /\ plan.stamp = k
        /\ \A l \in todo : l.name \in JobNames /\ JobFinished(SeenJobs(i)[l.name])
  <2>1. PICK k \in Stamps :
          LET m == rec[i].base
              listed == JobsForGeneration(SeenJobs(i), m.gen)
              plan == [gen |-> m.gen, unobserved |-> m.status.observed # m.gen,
                       pending |-> m.status.pending, triggered |-> m.status.triggered,
                       active |-> ActiveJobExists(listed), now |-> clock, stamp |-> k]
              todo == {[name |-> n, job |-> listed[n]] :
                         n \in {n \in JobNames : RecordsCompletion(m, listed, n)}}
          IN /\ k \in FreshStamps
             /\ rec' = [rec EXCEPT ![i] = [IdleRec EXCEPT !.pc = CompletedStage(plan, todo),
                                                          !.plan = plan, !.todo = todo]]
    BY DEF ListJobs, NextStamp
  <2> DEFINE m == rec[i].base
             listed == JobsForGeneration(SeenJobs(i), m.gen)
             plan == [gen |-> m.gen, unobserved |-> m.status.observed # m.gen,
                      pending |-> m.status.pending, triggered |-> m.status.triggered,
                      active |-> ActiveJobExists(listed), now |-> clock, stamp |-> k]
             todo == {[name |-> n, job |-> listed[n]] :
                        n \in {n \in JobNames : RecordsCompletion(m, listed, n)}}
  <2>2. ASSUME NEW n \in JobNames, RecordsCompletion(m, listed, n)
        PROVE  JobFinished(SeenJobs(i)[n])
    BY <2>2 DEF RecordsCompletion, JobsForGeneration, JobFinished, AbsentJob, FinishedPhases
  <2>3. \A l \in todo : l.name \in JobNames /\ JobFinished(SeenJobs(i)[l.name])
    BY <2>2
  <2>4. plan.stamp = k
    OBVIOUS
  <2> HIDE DEF plan, todo
  <2>5. /\ k \in FreshStamps
        /\ rec' = [rec EXCEPT ![i] = [IdleRec EXCEPT !.pc = CompletedStage(plan, todo),
                                                     !.plan = plan, !.todo = todo]]
    BY <2>1 DEF plan, todo
  <2> QED
    BY <2>3, <2>4, <2>5
<1>2. /\ rec'[i].pc = CompletedStage(plan, todo) /\ rec'[i].todo = todo
      /\ rec'[i].op = NoOp /\ rec'[i].plan.stamp = k
  BY <1>1 DEF IdleRec
<1>3. /\ rec'[i].pc \in {"completed"} \cup Stages
      /\ rec'[i].pc # "completed" => rec'[i].todo = {}
  BY <1>2, RestoredStage DEF Stages
<1>4. ASSUME NEW n \in JobNames, JobFinished(SeenJobs(i)[n]) PROVE n # ResyncJob(k)
  <2>1. JobExists(jobs[n]) \/ JobExists(cache[i].jobs[n])
    BY <1>4 DEF SeenJobs, VisibleJobs, Visible, NewJob, JobFinished, JobRunning, JobExists,
         FinishedPhases, RunningPhases
  <2>2. n \in PresentJobs(jobs) \/ n \in PresentJobs(cache[i].jobs)
    BY <2>1 DEF PresentJobs
  <2>3. n \in UNION {PresentJobs(cache[o].jobs) \cup MirrorNames(cache[o].mirror)
                       \cup {cache[o].lease} : o \in Instances} \/ n \in PresentJobs(jobs)
    BY <2>2
  <2>4. n \in NamesInUse
    BY <2>3 DEF NamesInUse
  <2> QED
    BY <1>1, <2>4 DEF FreshStamps
<1> QED
  BY <1>1, <1>2, <1>3, <1>4 DEF OneByOne, ToRecord, At, Stages, Recorders, Creating, NoOp

\* And no other step makes the follow-up one of the Jobs left to record.
LEMMA SchedulesAlone ==
  ASSUME TypeOK, TypeOK', NEW i \in Instances, StepOf(i), OneByOne(i)
  PROVE  OneByOne(i)'
<1> DEFINE r == rec[i]
           Was == OneByOne(i)
<1> USE DEF TypeOK, Rec, Op, OneByOne, ToRecord, At, Stages, Recorders, Creating
<1>1. CASE Start(i)
  <2>1. /\ rec'[i].pc = "list" /\ rec'[i].todo = rec[i].todo /\ rec'[i].op = rec[i].op
        /\ rec'[i].plan = rec[i].plan /\ rec[i].pc = "idle"
    BY <1>1 DEF Start
  <2> QED
    BY <2>1
<1>2. CASE ListJobs(i)
  BY <1>2, ListsOtherNames
<1>3. ASSUME rec'[i] = IdleRec PROVE OneByOne(i)'
  BY <1>3 DEF IdleRec, NoOp
<1>4. ASSUME NextCompleted(i) PROVE OneByOne(i)'
  <2>1. /\ rec'[i].pc = CompletedStage(rec[i].plan, rec[i].todo) /\ rec'[i].op = NoOp
        /\ rec'[i].todo = rec[i].todo /\ rec'[i].plan = rec[i].plan
    BY <1>4 DEF NextCompleted, IdleRec
  <2>2. /\ rec'[i].pc \in {"completed"} \cup Stages
        /\ rec'[i].pc # "completed" => rec'[i].todo = {}
    BY <2>1, RestoredStage
  <2> QED
    BY <2>1, <2>2 DEF NoOp
<1>5. CASE CompletedGet(i)
  <2>1. PICK l \in rec[i].todo :
          rec' = [rec EXCEPT ![i].pc = "completedPatch", ![i].todo = @ \ {l},
                             ![i].done = l, ![i].base = SeenMirror(i)]
    BY <1>5 DEF CompletedGet
  <2>2. /\ rec'[i].pc = "completedPatch" /\ rec'[i].todo = rec[i].todo \ {l}
        /\ rec'[i].done = l /\ rec'[i].op = rec[i].op /\ rec'[i].plan = rec[i].plan
        /\ rec[i].pc = "completed"
    BY <1>5, <2>1 DEF CompletedGet
  <2> QED
    BY <2>2
<1>6. CASE CompletedPatch(i)
  <2> DEFINE followup == NeedsFollowup(r.base, r.done.name, r.done.job)
  <2>1. /\ rec'[i].pc = "releaseGet" /\ rec'[i].todo = rec[i].todo
        /\ rec'[i].op = (IF followup THEN FollowupOp(r) ELSE NoOp)
        /\ rec'[i].followup = followup /\ rec'[i].plan = rec[i].plan
    BY <1>6 DEF CompletedPatch
  <2> HIDE DEF followup
  <2>2. rec'[i].followup <=> rec'[i].op.kind = "followup"
    BY <2>1 DEF FollowupOp, NoOp
  <2>3. rec'[i].op.kind \in {"none", "followup"}
        /\ (rec'[i].op.kind = "followup" => rec'[i].op.name = ResyncJob(r.plan.stamp))
    BY <2>1 DEF FollowupOp, NoOp
  <2> QED
    BY <2>1, <2>2, <2>3
<1>7. CASE ReleaseGet(i) \/ ReleaseDelete(i)
  <2>1. CASE NextCompleted(i)
    BY <1>4, <2>1
  <2>2. CASE rec' = [rec EXCEPT ![i].pc = "releaseDelete"] /\ ReleaseGet(i)
    <3>1. /\ rec'[i].pc = "releaseDelete" /\ rec'[i].todo = rec[i].todo
          /\ rec'[i].op = rec[i].op /\ rec'[i].plan = rec[i].plan
          /\ rec'[i].followup = rec[i].followup /\ rec[i].pc = "releaseGet"
      BY <2>2 DEF ReleaseGet
    <3> QED
      BY <3>1
  <2>3. CASE /\ rec[i].followup
             /\ rec' = [rec EXCEPT ![i].pc = "leaseCreate", ![i].done = NoListed,
                                   ![i].followup = FALSE]
    <3>1. /\ rec'[i].pc = "leaseCreate" /\ rec'[i].todo = rec[i].todo
          /\ rec'[i].op = rec[i].op /\ rec'[i].plan = rec[i].plan
          /\ rec[i].pc \in {"releaseGet", "releaseDelete"} /\ rec[i].op.kind = "followup"
      BY <1>7, <2>3 DEF ReleaseGet, ReleaseDelete
    <3> QED
      BY <3>1
  <2> QED
    BY <1>7, <2>1, <2>2, <2>3 DEF ReleaseGet, ReleaseDelete, AfterRelease
<1>8. ASSUME rec'[i].op.kind \in {"generation", "pending", "fallback", "coalesce"},
             rec'[i].pc \in Creating \cup {"scheduledGet"}, rec[i].pc \in Stages,
             rec'[i].todo = rec[i].todo, rec'[i].plan = rec[i].plan
      PROVE  OneByOne(i)'
  BY <1>8
<1>9. ASSUME NEW pc \in Stages, rec[i].pc \in Stages, rec' = [rec EXCEPT ![i].pc = pc]
      PROVE  OneByOne(i)'
  <2>1. /\ rec'[i].pc = pc /\ rec'[i].op = rec[i].op
        /\ rec'[i].todo = rec[i].todo /\ rec'[i].plan = rec[i].plan
    BY <1>9
  <2> QED
    BY <1>9, <2>1
<1>10. ASSUME rec[i].pc \in Stages, NEW kind \in {"generation", "pending", "fallback"},
              NEW op, op.kind = kind, Schedule(i, op)
       PROVE  OneByOne(i)'
  <2>1. /\ rec'[i].pc = "leaseCreate" /\ rec'[i].op = op
        /\ rec'[i].todo = rec[i].todo /\ rec'[i].plan = rec[i].plan
    BY <1>10 DEF Schedule
  <2> QED
    BY <1>8, <1>10, <2>1
<1>11. CASE \/ ReconcileUnobservedGeneration(i) \/ ReconcilePendingResync(i)
            \/ ReconcileFallback(i) \/ UntilNext(i)
  <2> HIDE DEF OneByOne
  <2>1. CASE ReconcileUnobservedGeneration(i)
    <3> DEFINE m == SeenMirror(i)
    <3>1. CASE rec' = [rec EXCEPT ![i].pc = PendingStage(rec[i].plan)]
      BY <1>9, <2>1, <3>1 DEF ReconcileUnobservedGeneration, PendingStage, FallbackStage
    <3>2. PICK op : op = [NoOp EXCEPT !.kind = "generation", !.name = GenerationJob(m.gen),
                                      !.gen = m.gen, !.rev = m.status.requested]
      OBVIOUS
    <3>3. op.kind = "generation"
      BY <3>2 DEF NoOp
    <3>4. CASE Schedule(i, op)
      BY <1>10, <2>1, <3>3, <3>4 DEF ReconcileUnobservedGeneration
    <3> QED
      BY <2>1, <3>1, <3>2, <3>4 DEF ReconcileUnobservedGeneration
  <2>2. CASE ReconcilePendingResync(i)
    <3> DEFINE m == SeenMirror(i)
    <3>1. CASE rec' = [rec EXCEPT ![i].pc = FallbackStage]
      BY <1>9, <2>2, <3>1 DEF ReconcilePendingResync, FallbackStage
    <3>2. PICK op : op = [NoOp EXCEPT !.kind = "pending",
                                      !.name = PendingJobName(m, rec[i].plan.stamp),
                                      !.gen = m.gen, !.rev = m.status.requested]
      OBVIOUS
    <3>3. op.kind = "pending"
      BY <3>2 DEF NoOp
    <3>4. CASE Schedule(i, op)
      BY <1>10, <2>2, <3>3, <3>4 DEF ReconcilePendingResync
    <3> QED
      BY <2>2, <3>1, <3>2, <3>4 DEF ReconcilePendingResync
  <2>3. CASE ReconcileFallback(i)
    <3> DEFINE plan == rec[i].plan
    <3>1. CASE Return(i, FALSE)
      BY <1>3, <3>1 DEF Return
    <3>2. CASE rec' = [rec EXCEPT ![i].pc = "untilNext"]
      BY <1>9, <2>3, <3>2 DEF ReconcileFallback
    <3>3. CASE rec' = [rec EXCEPT ![i].pc = "scheduledGet",
                                  ![i].op = [NoOp EXCEPT !.kind = "coalesce"]]
      <4>1. /\ rec'[i].pc = "scheduledGet" /\ rec'[i].op.kind = "coalesce"
            /\ rec'[i].todo = rec[i].todo /\ rec'[i].plan = rec[i].plan
        BY <3>3 DEF NoOp
      <4> QED
        BY <1>8, <2>3, <4>1 DEF ReconcileFallback
    <3>4. PICK op : op = [NoOp EXCEPT !.kind = "fallback", !.name = ScheduledJob(plan.stamp),
                                      !.gen = plan.gen]
      OBVIOUS
    <3>5. op.kind = "fallback"
      BY <3>4 DEF NoOp
    <3>6. CASE Schedule(i, op)
      BY <1>10, <2>3, <3>5, <3>6 DEF ReconcileFallback
    <3> QED
      BY <2>3, <3>1, <3>2, <3>3, <3>4, <3>6 DEF ReconcileFallback
  <2>4. CASE UntilNext(i)
    BY <1>3, <2>4 DEF UntilNext, Return
  <2> QED
    BY <1>11, <2>1, <2>2, <2>3, <2>4
<1>12. CASE \/ CreateLease(i) \/ GetLease(i) \/ GetHolder(i) \/ UpdateLease(i)
            \/ CreateJob(i) \/ CreateJobFails(i) \/ UndoGet(i) \/ UndoDelete(i)
            \/ ScheduledGet(i)
  <2>1. CASE rec'[i] = IdleRec
    BY <1>3, <2>1
  <2>2. CASE rec'[i] # IdleRec
    <3>1. /\ rec'[i].todo = rec[i].todo /\ rec'[i].plan = rec[i].plan
          /\ rec'[i].op.kind = rec[i].op.kind /\ rec'[i].op.name = rec[i].op.name
          /\ rec'[i].pc \in {"leaseGet", "holderGet", "leaseUpdate", "createJob", "undoGet",
                             "undoDelete", "scheduledGet", "scheduledPatch"}
          /\ rec'[i].pc \in Creating => rec[i].pc \in Creating
          /\ rec[i].pc # "completedPatch"
      BY <1>12, <2>2 DEF CreateLease, GetLease, GetHolder, UpdateLease, CreateJob,
         CreateJobFails, UndoGet, UndoDelete, ScheduledGet, Return, ReturnError
    <3> QED
      BY <3>1
  <2> QED
    BY <2>1, <2>2
<1>13. CASE ScheduledPatch(i)
  <2>1. CASE NextCompleted(i)
    BY <1>4, <2>1
  <2>2. CASE rec' = [rec EXCEPT ![i] = [IdleRec EXCEPT !.pc = FallbackStage,
                                                       !.plan = rec[i].plan]]
    BY <2>2 DEF IdleRec, FallbackStage, NoOp
  <2>3. CASE \E requeue \in BOOLEAN : Return(i, requeue)
    BY <1>3, <2>3 DEF Return
  <2> QED
    BY <1>13, <2>1, <2>2, <2>3 DEF ScheduledPatch, AfterScheduled
<1>14. CASE Abort(i) \/ Crash(i)
  BY <1>3, <1>14 DEF Abort, Crash, ReturnError
<1> QED
  BY <1>1, <1>2, <1>5, <1>6, <1>7, <1>11, <1>12, <1>13, <1>14 DEF StepOf, ReconcileStep

\* The patch of a finished Job leaves its outcome, and its name beside it.
LEMMA RecordsOutcome ==
  ASSUME TypeOK, NEW i \in Instances, CompletedPatch(i), OutcomeInv(i)
  PROVE  \/ /\ mirror'.status.completed = mirror.status.completed
            /\ mirror'.status.error = mirror.status.error
         \/ /\ mirror'.status.completed = rec[i].done.name
            /\ mirror'.status.error = (rec[i].done.job.phase = "failed")
<1> DEFINE base == rec[i].base
           done == rec[i].done
           new == ApplyCompletion(base, done.name, done.job, rec[i].plan.now)
<1>1. /\ base \in Mirror /\ mirror \in Mirror /\ PatchMirror(base, new)
      /\ base.status.completed = mirror.status.completed
      /\ base.status.error = mirror.status.error
  BY DEF TypeOK, Rec, CompletedPatch, OutcomeInv, PatchFits
<1>2. /\ mirror'.status.completed
           = Patched(base.status.completed, new.status.completed, mirror.status.completed)
      /\ mirror'.status.error
           = Patched(base.status.error, new.status.error, mirror.status.error)
  BY <1>1, PatchTakes
<1>3. \/ new.status = base.status
      \/ /\ new.status.completed = done.name
         /\ new.status.error = (done.job.phase = "failed")
  BY <1>1, CompletionChanges
<1> HIDE DEF base, done, new
<1>4. CASE new.status = base.status
  BY <1>2, <1>4 DEF Patched
<1>5. CASE /\ new.status.completed = done.name
           /\ new.status.error = (done.job.phase = "failed")
  BY <1>1, <1>2, <1>5 DEF Patched, done
<1> QED
  BY <1>3, <1>4, <1>5

\* What only the Reconciles of instance i do is done by a step of i.
LEMMA StepsAlone ==
  ASSUME NEW i \in Instances, Alone(i), ReconcilerNext
  PROVE  StepOf(i)
BY StepsOfInstances DEF Alone

\* A good copy stays good, unless its name is used again.
LEMMA GoodStays ==
  ASSUME TypeOK, [Next]_vars, NEW i \in Instances, [RecordsUndisturbed(i)]_vars,
         NEW n \in JobNames, NEW j, GoodCopy(jobs, n, j),
         (CreateJob(i) \/ CreateJobFails(i)) /\ jobs' # jobs => rec[i].op.name # n
  PROVE  GoodCopy(jobs', n, j)
<1>1. ~JobRunning(jobs[n])
  BY DEF GoodCopy, JobExists, JobFinished, JobRunning, FinishedPhases, RunningPhases
<1>2. CASE jobs'[n] = jobs[n]
  BY <1>2 DEF GoodCopy
<1>3. CASE ~JobExists(jobs'[n])
  BY <1>3 DEF GoodCopy
<1>4. ASSUME jobs' # jobs, NEW k \in Instances, rec[k].op.name = n,
             CreateJob(k) \/ CreateJobFails(k)
      PROVE  FALSE
  <2>1. Alone(i)
    BY <1>4 DEF vars, RecordsUndisturbed
  <2>2. k = i
    BY <1>4, <2>1 DEF Alone, StepOf, ReconcileStep
  <2> QED
    BY <1>4, <2>2
<1> QED
  BY <1>1, <1>2, <1>3, <1>4, FinishedStays

\* The copies of finished Jobs stay good over every step.
LEMMA CopiesStayGood ==
  ASSUME TypeOK, TypeOK', NEW i \in Instances, CopiesGood(i), OneByOne(i), [Next]_vars,
         [RecordsUndisturbed(i)]_vars
  PROVE  CopiesGood(i)'
<1>1. ASSUME NEW n \in JobNames, JobFinished(VisibleJobs(jobs')[n])
      PROVE  GoodCopy(jobs', n, VisibleJobs(jobs')[n])
  <2>1. jobs'[n] \in Job /\ VisibleJobs(jobs')[n] = Visible(jobs'[n])
    BY DEF TypeOK, VisibleJobs
  <2> QED
    BY <1>1, <2>1, FinishedVisible DEF GoodCopy
<1>2. ASSUME NEW n \in JobNames, JobFinished(SeenJobs(i)'[n])
      PROVE  GoodCopy(jobs', n, SeenJobs(i)'[n])
  <2>1. CASE "jobs" \notin Lagging
    <3>1. SeenJobs(i)' = VisibleJobs(jobs')
      BY <2>1 DEF SeenJobs, VisibleJobs, Visible
    <3> QED
      BY <1>1, <1>2, <3>1
  <2>2. CASE "jobs" \in Lagging /\ cache'[i].jobs = VisibleJobs(jobs) /\ jobs' = jobs
    <3>1. SeenJobs(i)' = VisibleJobs(jobs')
      BY <2>2 DEF SeenJobs
    <3> QED
      BY <1>1, <1>2, <3>1
  <2>3. CASE "jobs" \in Lagging /\ cache'[i].jobs = cache[i].jobs
    <3>1. PICK j : j = cache[i].jobs[n]
      OBVIOUS
    <3>2. SeenJobs(i)'[n] = j /\ SeenJobs(i)[n] = j
      BY <2>3, <3>1 DEF SeenJobs
    <3>3. GoodCopy(jobs, n, j)
      BY <1>2, <3>2 DEF CopiesGood
    <3>4. (CreateJob(i) \/ CreateJobFails(i)) /\ jobs' # jobs => rec[i].op.name # n
      BY <1>2, <3>2 DEF vars, RecordsUndisturbed, CreatesNewNames
    <3> QED
      BY <3>2, <3>3, <3>4, GoodStays
  <2> QED
    BY <2>1, <2>2, <2>3, CachedJobs
<1>3. ASSUME Past(i)', NEW l \in ToRecord(i)' PROVE GoodCopy(jobs', l.name, l.job)
  <2>1. l.name \in JobNames
    BY <1>3 DEF ToRecord, TypeOK, Rec, Listed
  <2>2. GoodCopy(jobs, l.name, l.job)
    <3>1. CASE rec' = rec
      BY <1>3, <3>1 DEF CopiesGood, Past, ToRecord, At
    <3>2. CASE rec' # rec /\ ReconcilerNext
      <4>1. StepOf(i)
        BY <3>2, StepsAlone DEF vars, RecordsUndisturbed
      <4>2. CASE ListJobs(i)
        BY <1>3, <4>2, ListsFinished DEF CopiesGood
      <4> QED
        BY <1>3, <4>1, <4>2, ListShrinks DEF CopiesGood
    <3> QED
      BY <3>1, <3>2 DEF Next, vars
  <2>3. (CreateJob(i) \/ CreateJobFails(i)) => rec[i].op.name # l.name
    <3> SUFFICES ASSUME CreateJob(i) \/ CreateJobFails(i) PROVE rec[i].op.name # l.name
      OBVIOUS
    <3>1. rec[i].pc = "createJob" /\ StepOf(i) /\ ~ListJobs(i)
      BY DEF CreateJob, CreateJobFails, StepOf, ReconcileStep, ListJobs, At
    <3>2. l \in rec[i].todo
      BY <1>3, <3>1, ListShrinks DEF ToRecord, At
    <3>3. rec[i].op.kind = "followup"
      BY <3>1, <3>2 DEF OneByOne, Creating
    <3> QED
      BY <3>2, <3>3 DEF OneByOne, ToRecord
  <2>4. CASE UNCHANGED vars
    BY <2>2, <2>4 DEF vars, GoodCopy
  <2> QED
    BY <2>1, <2>2, <2>3, GoodStays
<1> QED
  BY <1>2, <1>3 DEF CopiesGood

\* The copy a completion is patched from stays as good as the mirror.
LEMMA PatchStaysFit ==
  ASSUME TypeOK, NEW i \in Instances, PatchFits(i), Next, RecordsUndisturbed(i)
  PROVE  PatchFits(i)'
<1> SUFFICES ASSUME At(i, "completedPatch")'
             PROVE  /\ rec'[i].base.status.completed = mirror'.status.completed
                    /\ rec'[i].base.status.error = mirror'.status.error
  BY DEF PatchFits
<1>1. CASE StepOf(i)
  <2>1. CompletedGet(i) /\ rec'[i].base = mirror
    BY <1>1, PatchAfterGet DEF RecordsUndisturbed
  <2> QED
    BY <2>1 DEF CompletedGet, objects
<1>2. CASE ~StepOf(i)
  <2>1. rec' = rec /\ ~ReconcilerNext
    BY <1>2, StepsAlone DEF Next, RecordsUndisturbed
  <2>2. ~\E k \in Instances : CompletedPatch(k)
    BY <2>1 DEF ReconcilerNext
  <2> QED
    BY <2>1, <2>2, OutcomeFields DEF PatchFits, At
<1> QED
  BY <1>1, <1>2

\* lastError stays the outcome of the Job lastCompletedJobName names.
LEMMA OutcomeStays ==
  ASSUME TypeOK, NEW i \in Instances, OutcomeInv(i), Next, RecordsUndisturbed(i)
  PROVE  OutcomeKept'
<1>1. CASE /\ mirror'.status.completed = mirror.status.completed
           /\ mirror'.status.error = mirror.status.error
  <2> SUFFICES ASSUME NEW n \in JobNames, mirror.status.completed = n, JobExists(jobs'[n])
               PROVE  /\ JobFinished(jobs'[n])
                      /\ mirror.status.error = (jobs'[n].phase = "failed")
    BY <1>1 DEF OutcomeKept
  <2>1. ~JobRunning(jobs[n])
    BY DEF OutcomeInv, OutcomeKept, JobExists, JobFinished, JobRunning, RunningPhases,
       FinishedPhases
  <2>2. ASSUME jobs' # jobs, NEW k \in Instances, rec[k].op.name = n,
               CreateJob(k) \/ CreateJobFails(k)
        PROVE  FALSE
    <3>1. k = i
      BY <2>2 DEF RecordsUndisturbed, Alone, StepOf, ReconcileStep
    <3> QED
      BY <2>2, <3>1 DEF RecordsUndisturbed, CreatesNewNames
  <2>3. jobs'[n] = jobs[n]
    BY <2>1, <2>2, FinishedStays
  <2> QED
    BY <2>3 DEF OutcomeInv, OutcomeKept
<1>2. CASE /\ CompletedPatch(i)
           /\ mirror'.status.completed = rec[i].done.name
           /\ mirror'.status.error = (rec[i].done.job.phase = "failed")
  <2>1. rec[i].done \in ToRecord(i) /\ Past(i)
    BY <1>2 DEF CompletedPatch, ToRecord, At, Past
  <2>2. GoodCopy(jobs, rec[i].done.name, rec[i].done.job)
    BY <2>1 DEF OutcomeInv, CopiesGood
  <2>3. jobs' = jobs
    BY <1>2 DEF CompletedPatch
  <2> QED
    BY <1>2, <2>2, <2>3 DEF OutcomeKept, GoodCopy
<1>3. CASE ~CompletedPatch(i)
  <2>1. ~\E k \in Instances : CompletedPatch(k)
    BY <1>3 DEF RecordsUndisturbed, Alone, StepOf, ReconcileStep
  <2> QED
    BY <1>1, <2>1, OutcomeFields
<1> QED
  BY <1>1, <1>2, <1>3, RecordsOutcome

\* lastError agrees with the Job lastCompletedJobName names, however late Jobs show,
\* whatever fails, and with Jobs that expire, as long as one instance reconciles, a
\* completion is patched from the mirror there is, and no Job is created under the
\* name of one that has expired and is recorded or cached still.
THEOREM OutcomeMatches ==
  ASSUME NEW i \in Instances
  PROVE  Spec /\ [][RecordsUndisturbed(i)]_vars => []OutcomeMatchesJob
<1>1. Init => OutcomeInv(i)
  <2> SUFFICES ASSUME Init PROVE OutcomeInv(i)
    OBVIOUS
  <2>1. mirror.status.completed = NoJob /\ NoJob \notin JobNames
    BY DEF Init, ClusterInit, NewMirror, NoJob, JobNames, LegacyJob, GenerationJob,
           DeliveryJob, ResyncJob, ScheduledJob
  <2>2. rec[i] = IdleRec
    BY DEF Init, ReconcilerInit
  <2>3. ASSUME NEW n \in JobNames PROVE ~JobFinished(SeenJobs(i)[n])
    <3>1. jobs[n] \in {AbsentJob, NewJob(0, 0)} /\ cache[i].jobs = jobs
      BY DEF Init, ClusterInit
    <3> QED
      BY <3>1 DEF SeenJobs, VisibleJobs, Visible, JobFinished, JobRunning, AbsentJob, NewJob,
         FinishedPhases, RunningPhases
  <2> QED
    BY <2>1, <2>2, <2>3 DEF OutcomeInv, CopiesGood, PatchFits, OneByOne, OutcomeKept, Past,
       At, ToRecord, IdleRec, NoOp, Stages, Recorders, Creating
<1>2. TypeOK /\ TypeOK' /\ OutcomeInv(i) /\ Next /\ RecordsUndisturbed(i) => OutcomeInv(i)'
  <2> SUFFICES ASSUME TypeOK, TypeOK', OutcomeInv(i), Next, RecordsUndisturbed(i)
               PROVE  OutcomeInv(i)'
    OBVIOUS
  <2>1. OneByOne(i)'
    <3>1. CASE StepOf(i)
      BY <3>1, SchedulesAlone DEF OutcomeInv
    <3>2. CASE ~StepOf(i)
      <4>1. rec' = rec
        BY <3>2, StepsAlone DEF Next, RecordsUndisturbed
      <4> QED
        BY <4>1 DEF OutcomeInv, OneByOne, ToRecord, At
    <3> QED
      BY <3>1, <3>2
  <2> QED
    BY <2>1, CopiesStayGood, PatchStaysFit, OutcomeStays DEF OutcomeInv
<1>3. OutcomeInv(i) /\ UNCHANGED vars => OutcomeInv(i)'
  BY DEF vars, OutcomeInv, CopiesGood, GoodCopy, SeenJobs, PatchFits, OneByOne, OutcomeKept,
     Past, At, ToRecord
<1>4. OutcomeInv(i) => OutcomeMatchesJob
  BY DEF OutcomeInv, OutcomeKept, OutcomeMatchesJob, JobExists, JobFinished, FinishedPhases
<1>5. TypeOK /\ TypeOK' /\ OutcomeInv(i) /\ [Next]_vars /\ [RecordsUndisturbed(i)]_vars
        => OutcomeInv(i)'
  BY <1>2, <1>3
<1> QED
  BY <1>1, <1>4, <1>5, TypeCorrect, PTL DEF Spec

------------------------------------------------------------------------------
(***************************************************************************)
(* Wake-ups.  Any number of instances that read the mirror as it is; their *)
(* copies of Jobs and of the Lease may be of any age.  The argument:       *)
(* whatever changes what an instance reads puts the mirror in its queue,   *)
(* so while the queue stays empty the Reconcile works on what there is,    *)
(* and its plan says truly what is left to do.                             *)
(***************************************************************************)
SeenListed(i) == JobsForGeneration(SeenJobs(i), mirror.gen)

SeesActive(i) == ActiveJobExists(SeenListed(i))

NothingToRecord(i) == \A n \in JobNames : ~RecordsCompletion(mirror, SeenListed(i), n)

\* The plan agrees with the mirror and the Jobs the instance reads.
PlanCurrent(i) ==
  LET plan == rec[i].plan IN
  /\ plan.gen = mirror.gen
  /\ plan.unobserved <=> mirror.status.observed # mirror.gen
  /\ plan.pending <=> mirror.status.pending
  /\ plan.active <=> SeesActive(i)
  /\ mirror.status.lastJob # ScheduledJob(plan.stamp)

\* Recording this finished Job will change the status.
Unrecorded(i, l) ==
  /\ mirror.status.completed # l.name
  /\ JobGenerationMatches(l.job, mirror.gen)

\* A Job being scheduled: recording it will change the status, too.
Asks(i) ==
  LET op == rec[i].op
      plan == rec[i].plan
  IN \/ op.kind = "generation" /\ op.gen = mirror.gen /\ plan.unobserved
     \/ op.kind = "pending" /\ op.gen = mirror.gen /\ plan.pending
     \/ op.kind = "fallback" /\ op.gen = mirror.gen /\ op.name = ScheduledJob(plan.stamp)
     \/ op.kind = "coalesce" /\ plan.active

\* An instance may rest: its timer or a Job will wake it, or all is done.
MayRest(i) ==
  \/ armed[i]
  \/ SeesActive(i)
  \/ ~mirror.status.pending /\ mirror.status.observed = mirror.gen /\ NothingToRecord(i)

AwakeInv(i) ==
  ~queued[i] =>
    /\ At(i, "idle") => MayRest(i)
    /\ rec[i].pc \in {"list", "completedPatch", "scheduledPatch"} => rec[i].base = mirror
    /\ Past(i) => PlanCurrent(i)
    /\ rec[i].pc \notin {"releaseGet", "releaseDelete"}
    /\ rec[i].pc \in Recorders => \A l \in ToRecord(i) : Unrecorded(i, l)
    /\ Past(i) /\ rec[i].pc \notin Recorders => NothingToRecord(i)
    /\ At(i, "generation") => rec[i].plan.unobserved
    /\ At(i, "pending") => rec[i].plan.pending /\ ~rec[i].plan.unobserved
    /\ At(i, "fallback") \/ At(i, "untilNext") =>
         rec[i].plan.active \/ (~rec[i].plan.unobserved /\ ~rec[i].plan.pending)
    /\ Past(i) /\ rec[i].pc \notin Recorders \cup Stages => Asks(i)

\* The runner's progress does not show in the Job.
LEMMA ProgressHidden ==
  ASSUME TypeOK, NEW n \in JobNames, JobClones(n) \/ JobPushes(n)
  PROVE  VisibleJobs(jobs') = VisibleJobs(jobs)
<1>1. jobs[n] \in Job /\ JobRunning(jobs[n])
  BY DEF TypeOK, JobClones, JobPushes, JobRunning, RunningPhases
<1>2. \A k \in JobNames : k # n => jobs'[k] = jobs[k]
  BY DEF TypeOK, JobClones, JobPushes
<1>3. JobRunning(jobs'[n]) /\ jobs'[n].gen = jobs[n].gen /\ jobs'[n].rev = jobs[n].rev
  BY <1>1 DEF TypeOK, JobClones, JobPushes, JobRunning, RunningPhases, Job
<1>4. \A k \in JobNames : Visible(jobs'[k]) = Visible(jobs[k])
  BY <1>1, <1>2, <1>3 DEF Visible
<1> QED
  BY <1>4 DEF VisibleJobs

\* While nothing is put in an instance's queue, what it reads stays as it is.
LEMMA Notices ==
  ASSUME TypeOK, "mirror" \notin Lagging, [Next]_vars, NEW i \in Instances, ~queued'[i]
  PROVE  /\ mirror' = mirror /\ SeenJobs(i)' = SeenJobs(i)
         /\ Start(i) \/ ~queued[i]
<1> USE DEF TypeOK, Caches, objects, SeenJobs, Notified
<1>1. ASSUME NEW k \in Instances, \/ RefreshMirror(k) \/ RefreshJobs(k) \/ RefreshLease(k)
                                  \/ TimerFires(k) \/ Resync(k)
      PROVE  mirror' = mirror /\ SeenJobs(i)' = SeenJobs(i) /\ ~queued[i]
  BY <1>1 DEF RefreshMirror, RefreshJobs, RefreshLease, TimerFires, Resync
<1>2. ASSUME \/ Tick \/ ChangeSpec \/ Push
             \/ \E d \in Deliveries : Redeliver(d) \/ LoseDelivery(d)
      PROVE  mirror' = mirror /\ SeenJobs(i)' = SeenJobs(i) /\ ~queued[i]
  BY <1>2 DEF Tick, ChangeSpec, Push, Redeliver, LoseDelivery
<1>3. ASSUME NEW n \in JobNames,
             JobClones(n) \/ JobPushes(n) \/ JobSucceeds(n) \/ JobFails(n) \/ JobExpires(n)
      PROVE  mirror' = mirror /\ SeenJobs(i)' = SeenJobs(i) /\ ~queued[i]
  <2>1. CASE JobClones(n) \/ JobPushes(n)
    BY <2>1, ProgressHidden DEF JobClones, JobPushes
  <2>2. CASE JobSucceeds(n) \/ JobFails(n) \/ JobExpires(n)
    BY <2>2 DEF JobSucceeds, JobFails, JobExpires, SetJob
  <2> QED
    BY <1>3, <2>1, <2>2
<1>4. CASE WebhookNext
  BY <1>4 DEF WebhookNext, HandleGitHub, HookGet, HookPatch, HookFails, PatchMirror
<1>5. ASSUME NEW k \in Instances, StepOf(k)
      PROVE  mirror' = mirror /\ SeenJobs(i)' = SeenJobs(i) /\ (Start(i) \/ ~queued[i])
  <2>1. CASE \/ Start(k) \/ ListJobs(k) \/ CompletedGet(k) \/ CompletedPatch(k)
             \/ ReleaseGet(k) \/ ReleaseDelete(k)
    BY <2>1 DEF Start, ListJobs, CompletedGet, CompletedPatch, ReleaseGet, ReleaseDelete,
         PatchMirror
  <2>2. CASE \/ ReconcileUnobservedGeneration(k) \/ ReconcilePendingResync(k)
             \/ ReconcileFallback(k) \/ UntilNext(k) \/ ScheduledGet(k) \/ ScheduledPatch(k)
    BY <2>2 DEF ReconcileUnobservedGeneration, ReconcilePendingResync, ReconcileFallback,
         UntilNext, ScheduledGet, ScheduledPatch, PatchMirror
  <2>3. CASE \/ CreateLease(k) \/ GetLease(k) \/ GetHolder(k) \/ UpdateLease(k)
             \/ UndoGet(k) \/ UndoDelete(k) \/ Abort(k)
    BY <2>3 DEF CreateLease, GetLease, GetHolder, UpdateLease, UndoGet, UndoDelete, Abort,
         ReturnError
  <2>4. CASE CreateJob(k) \/ CreateJobFails(k)
    BY <2>4 DEF CreateJob, CreateJobFails
  <2>5. CASE Crash(k)
    BY <2>5 DEF Crash, SyncCache
  <2> QED
    BY <1>5, <2>1, <2>2, <2>3, <2>4, <2>5 DEF StepOf, ReconcileStep
<1> QED
  BY <1>1, <1>2, <1>3, <1>4, <1>5, StepsOfInstances DEF Next, ClusterNext, vars

\* The steps of others leave an instance's Reconcile and its timer alone.
LEMMA OthersLeave ==
  ASSUME TypeOK, [Next]_vars, NEW i \in Instances, ~StepOf(i), ~queued'[i]
  PROVE  rec'[i] = rec[i] /\ armed'[i] = armed[i]
<1> USE DEF TypeOK
<1>1. ASSUME NEW k \in Instances, TimerFires(k) \/ Resync(k)
      PROVE  armed'[i] = armed[i]
  BY <1>1 DEF TimerFires, Resync
<1>2. ClusterNext => armed'[i] = armed[i]
  BY <1>1 DEF ClusterNext, RefreshMirror, RefreshJobs, RefreshLease, Tick, ChangeSpec, Push,
       Redeliver, LoseDelivery, JobClones, JobPushes, JobSucceeds, JobFails, JobExpires, SetJob
<1>3. WebhookNext => armed' = armed
  BY DEF WebhookNext, HandleGitHub, HookGet, HookPatch, HookFails
<1>4. ASSUME NEW k \in Instances, k # i, StepOf(k)
      PROVE  rec'[i] = rec[i] /\ armed'[i] = armed[i]
  <2> USE <1>4 DEF NextCompleted, Return, ReturnError
  <2>1. CASE \/ Start(k) \/ ListJobs(k) \/ CompletedGet(k) \/ CompletedPatch(k)
             \/ ReleaseGet(k) \/ ReleaseDelete(k)
    BY <2>1 DEF Start, ListJobs, CompletedGet, CompletedPatch, ReleaseGet, ReleaseDelete,
         AfterRelease
  <2>2. CASE \/ ReconcileUnobservedGeneration(k) \/ ReconcilePendingResync(k)
             \/ ReconcileFallback(k) \/ UntilNext(k) \/ ScheduledGet(k) \/ ScheduledPatch(k)
    BY <2>2 DEF ReconcileUnobservedGeneration, ReconcilePendingResync, ReconcileFallback,
         UntilNext, ScheduledGet, ScheduledPatch, Schedule, AfterScheduled
  <2>3. CASE \/ CreateLease(k) \/ GetLease(k) \/ GetHolder(k) \/ UpdateLease(k)
             \/ UndoGet(k) \/ UndoDelete(k)
    BY <2>3 DEF CreateLease, GetLease, GetHolder, UpdateLease, UndoGet, UndoDelete
  <2>4. CASE CreateJob(k) \/ CreateJobFails(k) \/ Abort(k) \/ Crash(k)
    BY <2>4 DEF CreateJob, CreateJobFails, Abort, Crash
  <2> QED
    BY <2>1, <2>2, <2>3, <2>4 DEF StepOf, ReconcileStep
<1> QED
  BY <1>2, <1>3, <1>4, StepsOfInstances DEF Next, vars

\* An instance nobody disturbs stays awake to what it has to do.
LEMMA AwakeElsewhere ==
  ASSUME NEW i, AwakeInv(i), ~queued[i], rec'[i] = rec[i], armed'[i] = armed[i],
         mirror' = mirror, SeenJobs(i)' = SeenJobs(i)
  PROVE  AwakeInv(i)'
BY DEF AwakeInv, MayRest, SeesActive, SeenListed, PlanCurrent, Past, ToRecord, Unrecorded,
       NothingToRecord, Asks, At

\* Reading the mirror: the copy is the mirror.
LEMMA StartAwake ==
  ASSUME TypeOK, NEW i \in Instances, Start(i), mirror' = mirror, "mirror" \notin Lagging
  PROVE  AwakeInv(i)'
BY DEF TypeOK, Rec, Start, AwakeInv, Past, At, SeenMirror, Recorders, Stages

\* Listing the Jobs: the plan says what the mirror and the Jobs say.
LEMMA ListJobsAwake ==
  ASSUME TypeOK, NEW i \in Instances, ListJobs(i), AwakeInv(i), ~queued[i],
         mirror' = mirror, SeenJobs(i)' = SeenJobs(i)
  PROVE  AwakeInv(i)'
<1> DEFINE m == rec[i].base
           listed == JobsForGeneration(SeenJobs(i), m.gen)
           todo == {[name |-> n, job |-> listed[n]] :
                      n \in {n \in JobNames : RecordsCompletion(m, listed, n)}}
           plan(k) == [gen |-> m.gen,
                       unobserved |-> m.status.observed # m.gen,
                       pending |-> m.status.pending,
                       triggered |-> m.status.triggered,
                       active |-> ActiveJobExists(listed),
                       now |-> clock, stamp |-> k]
<1>1. m = mirror /\ listed = SeenListed(i)
  BY DEF AwakeInv, ListJobs, At, SeenListed
<1>2. PICK k \in Stamps :
        /\ NextStamp(k)
        /\ rec' = [rec EXCEPT ![i] = [IdleRec EXCEPT !.pc = CompletedStage(plan(k), todo),
                                                     !.plan = plan(k), !.todo = todo]]
  BY DEF ListJobs
<1> HIDE DEF todo, listed
<1>3. /\ rec'[i].pc = CompletedStage(plan(k), todo)
      /\ rec'[i].plan = plan(k) /\ rec'[i].todo = todo
  BY <1>2 DEF IdleRec, TypeOK
<1>4. mirror.status.lastJob # ScheduledJob(k)
  BY <1>2 DEF NextStamp, FreshStamps, NamesInUse, MirrorNames
<1>5. SeenListed(i)' = listed
  BY <1>1 DEF SeenListed
<1>6. /\ rec'[i].plan.gen = m.gen /\ rec'[i].plan.stamp = k
      /\ rec'[i].plan.unobserved = (m.status.observed # m.gen)
      /\ rec'[i].plan.pending = m.status.pending
      /\ rec'[i].plan.active = ActiveJobExists(listed)
  BY <1>3
<1> HIDE DEF plan, m
<1>7. PlanCurrent(i)'
  BY <1>1, <1>4, <1>5, <1>6 DEF PlanCurrent, SeesActive
<1>8. ASSUME NEW n \in JobNames, RecordsCompletion(mirror, listed, n)
      PROVE  mirror.status.completed # n /\ JobGenerationMatches(listed[n], mirror.gen)
  BY <1>1, <1>8 DEF RecordsCompletion, SeenListed, JobsForGeneration, JobFinished,
       AbsentJob, FinishedPhases
<1>9. \A l \in todo : Unrecorded(i, l)'
  BY <1>1, <1>8 DEF Unrecorded, todo
<1>10. todo = {} => NothingToRecord(i)'
  BY <1>1, <1>5 DEF NothingToRecord, todo
<1> QED
  BY <1>3, <1>7, <1>9, <1>10, RestoredStage
     DEF AwakeInv, Past, At, ToRecord, Recorders, Stages

\* What the plan says stays true while the instance reads the same.
LEMMA ReadsSame ==
  ASSUME NEW i, mirror' = mirror, SeenJobs(i)' = SeenJobs(i)
  PROVE  /\ SeesActive(i)' <=> SeesActive(i)
         /\ NothingToRecord(i)' <=> NothingToRecord(i)
         /\ rec'[i].plan = rec[i].plan => (PlanCurrent(i)' <=> PlanCurrent(i))
         /\ rec'[i].plan = rec[i].plan /\ rec'[i].op.kind = rec[i].op.kind
              /\ rec'[i].op.gen = rec[i].op.gen /\ rec'[i].op.name = rec[i].op.name
            => (Asks(i)' <=> Asks(i))
         /\ \A l : Unrecorded(i, l)' <=> Unrecorded(i, l)
BY DEF SeesActive, SeenListed, NothingToRecord, PlanCurrent, Asks, Unrecorded

\* Reading the mirror again, to record a finished Job.
LEMMA CompletedGetAwake ==
  ASSUME TypeOK, NEW i \in Instances, CompletedGet(i), AwakeInv(i), ~queued[i],
         mirror' = mirror, SeenJobs(i)' = SeenJobs(i), "mirror" \notin Lagging
  PROVE  AwakeInv(i)'
<1>1. PICK l \in rec[i].todo :
        rec' = [rec EXCEPT ![i].pc = "completedPatch", ![i].todo = @ \ {l},
                           ![i].done = l, ![i].base = SeenMirror(i)]
  BY DEF CompletedGet
<1>2. /\ rec'[i].pc = "completedPatch" /\ rec'[i].todo = rec[i].todo \ {l}
      /\ rec'[i].done = l /\ rec'[i].base = mirror /\ rec'[i].plan = rec[i].plan
  BY <1>1 DEF TypeOK, Rec, SeenMirror
<1>3. PlanCurrent(i) /\ \A k \in rec[i].todo : Unrecorded(i, k)
  BY DEF AwakeInv, CompletedGet, At, Past, ToRecord, Recorders
<1>4. PlanCurrent(i)' /\ \A k \in ToRecord(i)' : Unrecorded(i, k)'
  BY <1>2, <1>3, ReadsSame DEF ToRecord, At
<1> QED
  BY <1>2, <1>4 DEF AwakeInv, At, Past, Recorders, Stages

\* Recording one changes the status, and wakes the instance.
LEMMA CompletedPatchWakes ==
  ASSUME TypeOK, NEW i \in Instances, CompletedPatch(i), AwakeInv(i), ~queued[i]
  PROVE  mirror' # mirror
<1> DEFINE base == rec[i].base
           done == rec[i].done
           new == ApplyCompletion(base, done.name, done.job, rec[i].plan.now)
<1>1. base = mirror /\ Unrecorded(i, done)
  BY DEF AwakeInv, CompletedPatch, At, ToRecord, Recorders
<1>2. CompletionApplies(base, done.name, done.job)
  BY <1>1 DEF CompletionApplies, Unrecorded
<1>3. base \in Mirror /\ mirror \in Mirror /\ PatchMirror(base, new)
  BY DEF TypeOK, Rec, CompletedPatch
<1>4. new.status.completed = done.name
  BY <1>2, <1>3, CompletionChanges
<1> HIDE DEF base, done, new
<1>5. mirror'.status.completed
        = Patched(base.status.completed, new.status.completed, mirror.status.completed)
  BY <1>3, PatchTakes
<1> QED
  BY <1>1, <1>4, <1>5 DEF Patched, Unrecorded

\* Choosing a Job: the mirror still asks for what the plan says.
LEMMA ChoiceAwake ==
  ASSUME TypeOK, NEW i \in Instances, AwakeInv(i), ~queued[i],
         mirror' = mirror, SeenJobs(i)' = SeenJobs(i), "mirror" \notin Lagging,
         ReconcileUnobservedGeneration(i) \/ ReconcilePendingResync(i)
  PROVE  AwakeInv(i)'
<1>1. /\ PlanCurrent(i) /\ NothingToRecord(i) /\ SeenMirror(i) = mirror
      /\ At(i, "generation") => rec[i].plan.unobserved
      /\ At(i, "pending") => rec[i].plan.pending
  BY DEF AwakeInv, ReconcileUnobservedGeneration, ReconcilePendingResync, At, Past,
         Recorders, SeenMirror
<1>2. PICK op : /\ op.kind \in {"generation", "pending"} /\ op.gen = mirror.gen
                /\ op.kind = "generation" => rec[i].plan.unobserved
                /\ op.kind = "pending" => rec[i].plan.pending
                /\ rec' = [rec EXCEPT ![i].pc = "leaseCreate", ![i].op = op]
  <2>1. CASE ReconcileUnobservedGeneration(i)
    <3> DEFINE o == [NoOp EXCEPT !.kind = "generation", !.name = GenerationJob(mirror.gen),
                                 !.gen = mirror.gen, !.rev = mirror.status.requested]
    <3>1. Schedule(i, o) /\ rec[i].plan.unobserved
      BY <1>1, <2>1 DEF ReconcileUnobservedGeneration, PlanCurrent
    <3>2. o.kind = "generation" /\ o.gen = mirror.gen
      BY DEF NoOp
    <3> QED
      BY <3>1, <3>2 DEF Schedule
  <2>2. CASE ReconcilePendingResync(i)
    <3> DEFINE o == [NoOp EXCEPT !.kind = "pending",
                                 !.name = PendingJobName(mirror, rec[i].plan.stamp),
                                 !.gen = mirror.gen, !.rev = mirror.status.requested]
    <3>1. Schedule(i, o) /\ rec[i].plan.pending
      BY <1>1, <2>2 DEF ReconcilePendingResync, PlanCurrent
    <3>2. o.kind = "pending" /\ o.gen = mirror.gen
      BY DEF NoOp
    <3> QED
      BY <3>1, <3>2 DEF Schedule
  <2> QED
    BY <2>1, <2>2
<1>3. rec'[i].pc = "leaseCreate" /\ rec'[i].op = op /\ rec'[i].plan = rec[i].plan
  BY <1>2 DEF TypeOK, Rec
<1>4. PlanCurrent(i)' /\ NothingToRecord(i)'
  BY <1>1, <1>3, ReadsSame
<1>5. Asks(i)'
  BY <1>2, <1>3 DEF Asks
<1> QED
  BY <1>3, <1>4, <1>5 DEF AwakeInv, At, Past, Recorders, Stages

\* reconcileFallback returns when nothing is left to do or a Job is active, or goes on
\* with a Job, with the patch that coalesces, or to compute its timer.
LEMMA FallbackAwake ==
  ASSUME TypeOK, NEW i \in Instances, AwakeInv(i), ~queued[i],
         mirror' = mirror, SeenJobs(i)' = SeenJobs(i),
         ReconcileFallback(i) \/ UntilNext(i)
  PROVE  AwakeInv(i)'
<1>1. /\ PlanCurrent(i) /\ NothingToRecord(i)
      /\ rec[i].plan.active \/ (~rec[i].plan.unobserved /\ ~rec[i].plan.pending)
  BY DEF AwakeInv, ReconcileFallback, UntilNext, At, Past, Recorders
<1>2. ASSUME NEW requeue \in BOOLEAN, Return(i, requeue)
      PROVE  AwakeInv(i)'
  <2>1. rec'[i].pc = "idle"
    BY <1>2 DEF Return, IdleRec, TypeOK
  <2>2. SeesActive(i)' \/ (~mirror'.status.pending /\ mirror'.status.observed = mirror'.gen)
    BY <1>1, ReadsSame DEF PlanCurrent
  <2>3. MayRest(i)'
    BY <1>1, <2>2, ReadsSame DEF MayRest
  <2> QED
    BY <2>1, <2>3 DEF AwakeInv, At, Past, Recorders, Stages
<1>3. ASSUME NEW op, NEW pc \in {"scheduledGet", "leaseCreate"},
             rec' = [rec EXCEPT ![i].pc = pc, ![i].op = op],
             \/ op.kind = "coalesce" /\ rec[i].plan.active
             \/ op.kind = "fallback" /\ op.gen = rec[i].plan.gen
                  /\ op.name = ScheduledJob(rec[i].plan.stamp)
      PROVE  AwakeInv(i)'
  <2>1. rec'[i].pc = pc /\ rec'[i].op = op /\ rec'[i].plan = rec[i].plan
    BY <1>3 DEF TypeOK, Rec
  <2>2. PlanCurrent(i)' /\ NothingToRecord(i)'
    BY <1>1, <2>1, ReadsSame
  <2>3. Asks(i)'
    BY <1>1, <1>3, <2>1 DEF Asks, PlanCurrent
  <2> QED
    BY <2>1, <2>2, <2>3 DEF AwakeInv, At, Past, Recorders, Stages
<1>4. CASE rec' = [rec EXCEPT ![i].pc = "untilNext"]
  <2>1. rec'[i].pc = "untilNext" /\ rec'[i].plan = rec[i].plan
    BY <1>4 DEF TypeOK, Rec
  <2>2. PlanCurrent(i)' /\ NothingToRecord(i)'
    BY <1>1, <2>1, ReadsSame
  <2> QED
    BY <1>1, <2>1, <2>2 DEF AwakeInv, At, Past, Recorders, Stages
<1> DEFINE coalesce == [NoOp EXCEPT !.kind = "coalesce"]
           o == [NoOp EXCEPT !.kind = "fallback", !.name = ScheduledJob(rec[i].plan.stamp),
                             !.gen = rec[i].plan.gen]
<1>5. /\ coalesce.kind = "coalesce" /\ o.kind = "fallback" /\ o.gen = rec[i].plan.gen
      /\ o.name = ScheduledJob(rec[i].plan.stamp)
  BY DEF NoOp
<1>6. \/ \E requeue \in BOOLEAN : Return(i, requeue)
      \/ rec' = [rec EXCEPT ![i].pc = "untilNext"]
      \/ rec[i].plan.active /\ rec' = [rec EXCEPT ![i].pc = "scheduledGet", ![i].op = coalesce]
      \/ rec' = [rec EXCEPT ![i].pc = "leaseCreate", ![i].op = o]
  <2>1. CASE ReconcileFallback(i)
    BY <2>1 DEF ReconcileFallback, Schedule
  <2>2. CASE UntilNext(i)
    BY <2>2 DEF UntilNext, FallbackDue
  <2> QED
    BY <2>1, <2>2
<1> HIDE DEF coalesce, o
<1> QED
  BY <1>2, <1>3, <1>4, <1>5, <1>6

\* Taking the Lease, creating the Job: an error is retried, a refusal has a timer,
\* and the Reconcile goes on with the same plan.
LEMMA SchedulingAwake ==
  ASSUME TypeOK, NEW i \in Instances, AwakeInv(i), ~queued[i], ~queued'[i],
         mirror' = mirror, SeenJobs(i)' = SeenJobs(i), "mirror" \notin Lagging,
         \/ CreateLease(i) \/ GetLease(i) \/ GetHolder(i) \/ UpdateLease(i)
         \/ CreateJob(i) \/ CreateJobFails(i) \/ UndoGet(i) \/ UndoDelete(i)
         \/ ScheduledGet(i) \/ Abort(i) \/ Crash(i)
  PROVE  AwakeInv(i)'
<1> USE DEF TypeOK, Rec, At
<1>1. ~ReturnError(i)
  BY DEF ReturnError
<1>2. ~Abort(i) /\ ~Crash(i) /\ ~UndoDelete(i)
  BY <1>1 DEF Abort, Crash, UndoDelete
<1>3. Past(i) /\ rec[i].pc \notin Recorders \cup Stages \cup {"scheduledPatch"}
  BY <1>2 DEF CreateLease, GetLease, GetHolder, UpdateLease, CreateJob, CreateJobFails,
         UndoGet, ScheduledGet, Past, Recorders, Stages
<1>4. PlanCurrent(i) /\ NothingToRecord(i) /\ Asks(i)
  BY <1>3 DEF AwakeInv
<1>5. ASSUME Return(i, TRUE) PROVE AwakeInv(i)'
  <2>1. rec'[i].pc = "idle" /\ armed'[i]
    BY <1>5 DEF Return, IdleRec
  <2> QED
    BY <2>1 DEF AwakeInv, MayRest, Past, Recorders, Stages
<1>6. ASSUME rec'[i].plan = rec[i].plan, rec'[i].op.kind = rec[i].op.kind,
             rec'[i].op.gen = rec[i].op.gen, rec'[i].op.name = rec[i].op.name,
             rec'[i].pc \in Pcs \ (Recorders \cup Stages \cup {"idle", "list", "releaseGet",
                                                               "releaseDelete"}),
             rec'[i].pc = "scheduledPatch" => rec'[i].base = mirror
      PROVE  AwakeInv(i)'
  <2>1. PlanCurrent(i)' /\ NothingToRecord(i)' /\ Asks(i)'
    BY <1>4, <1>6, ReadsSame
  <2> QED
    BY <1>6, <2>1 DEF AwakeInv, Past, Recorders, Stages
<1>7. ASSUME NEW pc \in {"createJob", "leaseGet", "leaseUpdate", "holderGet", "scheduledGet",
                         "undoGet", "undoDelete"},
             \/ rec' = [rec EXCEPT ![i].pc = pc]
             \/ \E n : rec' = [rec EXCEPT ![i].pc = pc, ![i].op.holder = n]
      PROVE  AwakeInv(i)'
  <2>1. /\ rec'[i].plan = rec[i].plan /\ rec'[i].op.kind = rec[i].op.kind
        /\ rec'[i].op.gen = rec[i].op.gen /\ rec'[i].op.name = rec[i].op.name
        /\ rec'[i].pc = pc
    BY <1>7 DEF Op
  <2> QED
    BY <1>6, <2>1 DEF Pcs, Recorders, Stages
<1>8. CASE ScheduledGet(i)
  <2>1. /\ rec'[i].plan = rec[i].plan /\ rec'[i].op = rec[i].op
        /\ rec'[i].pc = "scheduledPatch" /\ rec'[i].base = mirror
    BY <1>8 DEF ScheduledGet, SeenMirror
  <2> QED
    BY <1>6, <2>1 DEF Pcs, Recorders, Stages
<1>9. CASE CreateLease(i) \/ CreateJob(i) \/ CreateJobFails(i)
  BY <1>7, <1>9 DEF CreateLease, CreateJob, CreateJobFails
<1>10. CASE UndoGet(i) \/ GetHolder(i) \/ UpdateLease(i)
  BY <1>1, <1>5, <1>7, <1>10 DEF UndoGet, GetHolder, UpdateLease
<1>11. CASE GetLease(i)
  <2>1. \E pc \in {"leaseUpdate", "holderGet"} :
          rec' = [rec EXCEPT ![i].pc = pc, ![i].op.holder = SeenLease(i)]
    BY <1>1, <1>11 DEF GetLease
  <2> QED
    BY <1>7, <2>1
<1> QED
  BY <1>2, <1>8, <1>9, <1>10, <1>11

\* Recording a scheduled Job changes the status; only coalescing, beside an active
\* Job, may leave it as it is.
LEMMA OnlyCoalesces ==
  ASSUME TypeOK, NEW i \in Instances, ScheduledPatch(i), AwakeInv(i), ~queued[i],
         mirror' = mirror
  PROVE  rec[i].op.kind = "coalesce" /\ SeesActive(i)
<1> DEFINE base == rec[i].base
           op == rec[i].op
           new == ApplyScheduled(base, op, rec[i].plan)
<1>1. base = mirror /\ PlanCurrent(i) /\ Asks(i)
  BY DEF AwakeInv, ScheduledPatch, At, Past, Recorders, Stages
<1>2. base \in Mirror /\ mirror \in Mirror /\ op \in Op /\ PatchMirror(base, new)
  BY DEF TypeOK, Rec, ScheduledPatch
<1>3. /\ mirror.status.observed
           = Patched(base.status.observed, new.status.observed, mirror.status.observed)
      /\ mirror.status.pending
           = Patched(base.status.pending, new.status.pending, mirror.status.pending)
      /\ mirror.status.lastJob
           = Patched(base.status.lastJob, new.status.lastJob, mirror.status.lastJob)
  BY <1>2, PatchTakes
<1>4. op.kind # "coalesce" /\ op.gen = mirror.gen =>
        /\ new.status.observed = mirror.gen /\ new.status.lastJob = op.name
        /\ ~new.status.pending
  BY <1>1, <1>2, ScheduledChanges
<1>5. /\ rec[i].plan.unobserved => mirror.status.observed # mirror.gen
      /\ rec[i].plan.pending => mirror.status.pending
      /\ rec[i].plan.active => SeesActive(i)
      /\ mirror.status.lastJob # ScheduledJob(rec[i].plan.stamp)
  BY <1>1 DEF PlanCurrent
<1> HIDE DEF new
<1> QED
  BY <1>1, <1>3, <1>4, <1>5 DEF Asks, Patched

\* Coalescing returns beside an active Job.
LEMMA ScheduledPatchAwake ==
  ASSUME TypeOK, NEW i \in Instances, ScheduledPatch(i), AwakeInv(i), ~queued[i],
         mirror' = mirror, SeenJobs(i)' = SeenJobs(i)
  PROVE  AwakeInv(i)'
<1>1. rec[i].op.kind = "coalesce" /\ SeesActive(i)
  BY OnlyCoalesces
<1>2. Return(i, FALSE)
  BY <1>1 DEF ScheduledPatch, AfterScheduled
<1>3. rec'[i].pc = "idle" /\ SeesActive(i)'
  BY <1>1, <1>2, ReadsSame DEF Return, IdleRec, TypeOK
<1> QED
  BY <1>3 DEF AwakeInv, MayRest, At, Past, Recorders, Stages

\* An instance that nothing wakes has seen to everything it reads.
LEMMA AwakeNext ==
  ASSUME TypeOK, "mirror" \notin Lagging, [Next]_vars, NEW i \in Instances, AwakeInv(i)
  PROVE  AwakeInv(i)'
<1> SUFFICES ASSUME ~queued'[i] PROVE AwakeInv(i)'
  BY DEF AwakeInv
<1>1. mirror' = mirror /\ SeenJobs(i)' = SeenJobs(i) /\ (Start(i) \/ ~queued[i])
  BY Notices
<1>2. CASE ~StepOf(i)
  <2>1. rec'[i] = rec[i] /\ armed'[i] = armed[i] /\ ~queued[i]
    BY <1>1, <1>2, OthersLeave DEF StepOf, ReconcileStep
  <2> QED
    BY <1>1, <2>1, AwakeElsewhere
<1>3. CASE Start(i)
  BY <1>1, <1>3, StartAwake
<1>4. CASE StepOf(i) /\ ~queued[i]
  <2>1. CASE ListJobs(i) \/ CompletedGet(i)
    BY <1>1, <1>4, <2>1, ListJobsAwake, CompletedGetAwake
  <2>2. ~CompletedPatch(i)
    BY <1>1, <1>4, CompletedPatchWakes
  <2>3. ~ReleaseGet(i) /\ ~ReleaseDelete(i)
    BY <1>4 DEF AwakeInv, ReleaseGet, ReleaseDelete, At
  <2>4. CASE ReconcileUnobservedGeneration(i) \/ ReconcilePendingResync(i)
    BY <1>1, <1>4, <2>4, ChoiceAwake
  <2>5. CASE ReconcileFallback(i) \/ UntilNext(i)
    BY <1>1, <1>4, <2>5, FallbackAwake
  <2>6. CASE ScheduledPatch(i)
    BY <1>1, <1>4, <2>6, ScheduledPatchAwake
  <2>7. CASE \/ CreateLease(i) \/ GetLease(i) \/ GetHolder(i) \/ UpdateLease(i)
             \/ CreateJob(i) \/ CreateJobFails(i) \/ UndoGet(i) \/ UndoDelete(i)
             \/ ScheduledGet(i) \/ Abort(i) \/ Crash(i)
    BY <1>1, <1>4, <2>7, SchedulingAwake
  <2>8. ~Start(i) \/ AwakeInv(i)'
    BY <1>3
  <2> QED
    BY <1>4, <2>1, <2>2, <2>3, <2>4, <2>5, <2>6, <2>7, <2>8 DEF StepOf, ReconcileStep
<1> QED
  BY <1>1, <1>2, <1>3, <1>4

\* Every queue is full at first.
LEMMA AwakeInit == Init => \A i \in Instances : AwakeInv(i)
BY DEF Init, ClusterInit, AwakeInv

\* An instance that reads the mirror as it is has work queued, a timer armed, a Job
\* that will wake it, or nothing left to do (Reconcile and what it returns).
THEOREM Awake ==
  ASSUME "mirror" \notin Lagging
  PROVE  Spec => [](\A i \in Instances : AwakeInv(i))
<1>1. TypeOK /\ (\A i \in Instances : AwakeInv(i)) /\ [Next]_vars
        => (\A i \in Instances : AwakeInv(i))'
  BY AwakeNext
<1> QED
  BY <1>1, AwakeInit, TypeCorrect, PTL DEF Spec

\* A Job an instance with prompt copies sees active runs, and a running Job is seen.
LEMMA SeenRunning ==
  ASSUME TypeOK, NEW i \in Instances, SeenJobs(i) = VisibleJobs(jobs)
  PROVE  SeesActive(i) <=> \E n \in JobNames :
           JobRunning(jobs[n]) /\ jobs[n].gen \in {0, mirror.gen}
<1>1. ASSUME NEW n \in JobNames
      PROVE  JobActive(SeenListed(i)[n])
               <=> JobRunning(jobs[n]) /\ jobs[n].gen \in {0, mirror.gen}
  BY DEF TypeOK, SeenListed, JobsForGeneration, VisibleJobs, Visible, NewJob, JobActive,
         JobRunning, JobGenerationMatches, AbsentJob, RunningPhases, Job
<1> QED
  BY <1>1 DEF SeesActive, ActiveJobExists

\* With nothing left to record, the outcome of the last Job is recorded.
LEMMA LastRecorded ==
  ASSUME TypeOK, NEW i \in Instances, SeenJobs(i) = VisibleJobs(jobs), ~SeesActive(i),
         NothingToRecord(i)
  PROVE  LastOutcomeRecorded
<1> DEFINE last == mirror.status.lastJob
<1> SUFFICES ASSUME last \notin {NoJob, mirror.status.completed}, JobExists(jobs[last]),
                    JobGenerationMatches(jobs[last], mirror.gen)
             PROVE  FALSE
  BY DEF LastOutcomeRecorded
<1>1. last \in JobNames /\ jobs[last] \in Job
  BY DEF TypeOK, Mirror, Status
<1>2. JobFinished(jobs[last])
  <2>1. ~JobRunning(jobs[last])
    BY <1>1, SeenRunning DEF JobGenerationMatches
  <2> QED
    BY <1>1, <2>1 DEF JobExists, JobRunning, JobFinished, Job
<1>3. SeenListed(i)[last] = jobs[last]
  BY <1>1, <1>2, FinishedVisible DEF SeenListed, JobsForGeneration, VisibleJobs
<1>4. RecordsCompletion(mirror, SeenListed(i), last)
  BY <1>2, <1>3 DEF RecordsCompletion
<1> QED
  BY <1>1, <1>4 DEF NothingToRecord

\* No wake-up is lost: when instances that read the mirror as it is come to rest, no
\* sync is pending, the generation is observed, the last outcome recorded, with any
\* number of instances, crashes, lost answers and however late Jobs show.
THEOREM NoWakeUpLost ==
  ASSUME "mirror" \notin Lagging, Instances # {}
  PROVE  Spec => []SettledMeansDone
<1>1. TypeOK /\ (\A i \in Instances : AwakeInv(i)) => SettledMeansDone
  <2> SUFFICES ASSUME TypeOK, \A i \in Instances : AwakeInv(i), Settled PROVE Done
    BY DEF SettledMeansDone
  <2>1. PICK i \in Instances : TRUE
    OBVIOUS
  <2>2. ~queued[i] /\ ~armed[i] /\ At(i, "idle") /\ SeenJobs(i) = VisibleJobs(jobs)
    BY DEF Settled, At, SeenJobs
  <2>3. ~SeesActive(i)
    BY <2>2, SeenRunning DEF Settled
  <2>4. ~mirror.status.pending /\ mirror.status.observed = mirror.gen /\ NothingToRecord(i)
    BY <2>2, <2>3 DEF AwakeInv, MayRest
  <2> QED
    BY <2>2, <2>3, <2>4, LastRecorded DEF Done
<1> QED
  BY <1>1, Awake, TypeCorrect, PTL

\* A step of an instance that ends in rest, with no timer, nothing queued and no Job
\* running, is the one that found the next instant passed.
LEMMA RestsUnscheduled ==
  ASSUME TypeOK, "mirror" \notin Lagging, "jobs" \notin Lagging, [Next]_vars,
         NEW i \in Instances, AwakeInv(i), StepOf(i), Unscheduled(i)'
  PROVE  UntilNext(i) /\ FallbackDue(rec[i].plan.triggered, clock)
<1> USE DEF TypeOK, Rec, At
<1>1. /\ Fallback /\ ~queued'[i] /\ ~armed'[i] /\ rec'[i].pc = "idle"
      /\ \A n \in JobNames : ~JobRunning(jobs'[n])
  BY DEF Unscheduled
<1>2. mirror' = mirror /\ SeenJobs(i)' = SeenJobs(i) /\ (Start(i) \/ ~queued[i])
  BY <1>1, Notices
<1>3. ~ReturnError(i) /\ ~Return(i, TRUE)
  BY <1>1 DEF ReturnError, Return
<1>4. ~Start(i) /\ ~ListJobs(i) /\ ~CompletedGet(i) /\ ~CompletedPatch(i)
  <2>1. ~ListJobs(i)
    <3>1. ListJobs(i) => rec'[i].pc # "idle"
      BY ListsStage, RestoredStage
    <3> QED
      BY <1>1, <3>1
  <2>2. ~CompletedGet(i)
    <3>1. ASSUME NEW l, rec' = [rec EXCEPT ![i].pc = "completedPatch", ![i].todo = @ \ {l},
                                          ![i].done = l, ![i].base = SeenMirror(i)]
          PROVE  rec'[i].pc = "completedPatch"
      BY <3>1
    <3> QED
      BY <1>1, <3>1 DEF CompletedGet
  <2> QED
    BY <1>1, <2>1, <2>2 DEF Start, CompletedPatch
<1>5. ~ReleaseGet(i) /\ ~ReleaseDelete(i)
  <2>1. ~NextCompleted(i)
    <3>1. NextCompleted(i) => rec'[i].pc = CompletedStage(rec[i].plan, rec[i].todo)
      BY DEF NextCompleted, IdleRec
    <3> QED
      BY <1>1, <3>1, RestoredStage
  <2> QED
    BY <1>1, <2>1 DEF ReleaseGet, ReleaseDelete, AfterRelease
<1>6. ~ReconcileUnobservedGeneration(i) /\ ~ReconcilePendingResync(i)
  BY <1>1 DEF ReconcileUnobservedGeneration, ReconcilePendingResync, Schedule, PendingStage,
         FallbackStage
<1>7. ~ReconcileFallback(i)
  BY <1>1 DEF ReconcileFallback, Schedule
<1>8. ~CreateLease(i) /\ ~GetLease(i) /\ ~GetHolder(i) /\ ~UpdateLease(i)
  <2>1. ~CreateLease(i)
    BY <1>1 DEF CreateLease
  <2>2. ~GetLease(i)
    <3>1. GetLease(i) => \E pc \in {"leaseUpdate", "holderGet"} : \E n :
            rec' = [rec EXCEPT ![i].pc = pc, ![i].op.holder = n]
      BY <1>3 DEF GetLease
    <3>2. ASSUME NEW pc, NEW n, rec' = [rec EXCEPT ![i].pc = pc, ![i].op.holder = n]
          PROVE  rec'[i].pc = pc
      BY <3>2
    <3> QED
      BY <1>1, <3>1, <3>2
  <2>3. ~GetHolder(i)
    BY <1>1, <1>3 DEF GetHolder
  <2>4. ~UpdateLease(i)
    BY <1>1, <1>3 DEF UpdateLease
  <2> QED
    BY <2>1, <2>2, <2>3, <2>4
<1>9. ~CreateJob(i) /\ ~CreateJobFails(i) /\ ~UndoGet(i) /\ ~UndoDelete(i)
  BY <1>1, <1>3 DEF CreateJob, CreateJobFails, UndoGet, UndoDelete
<1>10. ~ScheduledGet(i) /\ ~Abort(i) /\ ~Crash(i)
  BY <1>1, <1>3 DEF ScheduledGet, Abort, Crash, ReturnError
<1>11. ~ScheduledPatch(i)
  <2> SUFFICES ASSUME ScheduledPatch(i) PROVE FALSE
    OBVIOUS
  <2>1. SeesActive(i)
    BY <1>2, <1>4, OnlyCoalesces
  <2>2. \E n \in JobNames : JobRunning(jobs[n])
    BY <2>1, SeenRunning DEF SeenJobs
  <2>3. jobs' = jobs
    BY DEF ScheduledPatch
  <2> QED
    BY <1>1, <2>2, <2>3
<1>12. UntilNext(i)
  BY <1>4, <1>5, <1>6, <1>7, <1>8, <1>9, <1>10, <1>11 DEF StepOf, ReconcileStep
<1>13. FallbackDue(rec[i].plan.triggered, clock)
  BY <1>1, <1>12 DEF UntilNext, Return
<1> QED
  BY <1>12, <1>13

\* A schedule is lost in one way only, between the two clock reads of
\* reconcileFallback: whatever else ends a Reconcile leaves a timer, an entry of the
\* queue or a running Job, with any number of instances that read mirrors and Jobs
\* as they are, through crashes, failed calls and expiring Jobs.
THEOREM ScheduleLostOneWay ==
  ASSUME "mirror" \notin Lagging, "jobs" \notin Lagging
  PROVE  Spec => ScheduleKept
<1> DEFINE Kept == \A i \in Instances :
             ~Unscheduled(i) /\ Unscheduled(i)' =>
               UntilNext(i) /\ FallbackDue(rec[i].plan.triggered, clock)
<1>1. ASSUME TypeOK, \A i \in Instances : AwakeInv(i), [Next]_vars PROVE Kept
  <2> SUFFICES ASSUME NEW i \in Instances, ~Unscheduled(i), Unscheduled(i)'
               PROVE  UntilNext(i) /\ FallbackDue(rec[i].plan.triggered, clock)
    OBVIOUS
  <2>1. StepOf(i)
    <3> SUFFICES ASSUME ~StepOf(i) PROVE Unscheduled(i)
      OBVIOUS
    <3>1. /\ Fallback /\ ~queued'[i] /\ ~armed'[i] /\ rec'[i].pc = "idle"
          /\ \A n \in JobNames : ~JobRunning(jobs'[n])
      BY DEF Unscheduled, At
    <3>2. rec'[i] = rec[i] /\ armed'[i] = armed[i]
      BY <1>1, <3>1, OthersLeave
    <3>3. ~Start(i)
      BY DEF StepOf, ReconcileStep
    <3>4. VisibleJobs(jobs') = VisibleJobs(jobs) /\ ~queued[i]
      BY <1>1, <3>1, <3>3, Notices DEF SeenJobs
    <3>5. \A n \in JobNames : Visible(jobs'[n]) = Visible(jobs[n])
      BY <3>4 DEF VisibleJobs
    <3>6. \A n \in JobNames : ~JobRunning(jobs[n])
      <4> SUFFICES ASSUME NEW n \in JobNames, JobRunning(jobs[n]) PROVE FALSE
        OBVIOUS
      <4>1. JobRunning(Visible(jobs[n]))
        BY DEF Visible, JobRunning, NewJob, RunningPhases
      <4>2. Visible(jobs'[n]) = jobs'[n]
        BY <3>1 DEF Visible
      <4> QED
        BY <3>1, <3>5, <4>1, <4>2
    <3> QED
      BY <3>1, <3>2, <3>4, <3>6 DEF Unscheduled, At
  <2> QED
    BY <1>1, <2>1, RestsUnscheduled
<1>2. TypeOK /\ (\A i \in Instances : AwakeInv(i)) /\ [Next]_vars => [Kept]_vars
  BY <1>1
<1> QED
  BY <1>2, Awake, TypeCorrect, PTL DEF Spec, ScheduleKept, Kept
==============================================================================
