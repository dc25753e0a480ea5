---------------------------- MODULE OperatorProofs ----------------------------
(***************************************************************************)
(* What GitMirrorOperator keeps for every set of instances and handlers,   *)
(* every choice of lagging caches and every bound.                         *)
(*                                                                         *)
(* Statuses and Jobs are copied: into caches, into the bases of patches,   *)
(* into the lists of Reconcile.  The invariant therefore gives every copy  *)
(* the same type, one that shrinks the type of TypeOK by what relates a    *)
(* revision to the repositories; whoever copies keeps it, and it is weaker *)
(* the further the repositories have come.                                 *)
(***************************************************************************)
EXTENDS GitMirrorOperator, TLAPS

\* A status asks for a revision the source had, and names one the target showed.
BoundedMirror(s, d) ==
  {m \in Mirror : m.status.requested <= s /\ m.status.mirrored <= d}

\* A Job's clone is not older than the revision the Job is for, and a Job that
\* has pushed has shown it.
BoundedJob(s, d) ==
  {j \in Job : /\ j.rev <= s
               /\ j.phase = "cloned" => j.rev <= j.got
               /\ j.phase \in {"pushed", "complete"} => j.rev <= d}

BoundedJobs(s, d) == [JobNames -> BoundedJob(s, d)]

BoundedCache(s, d) ==
  [mirror : BoundedMirror(s, d), jobs : BoundedJobs(s, d), lease : JobNames \cup {NoJob}]

BoundedHook(s, d) ==
  {h \in [pc : {"idle", "get", "patch"}, host : Instances \cup {NoHost},
          delivery : 0..MaxPush, base : BoundedMirror(s, d)] :
     h.delivery <= s /\ (h.pc # "idle" => h.host \in Instances)}

BoundedListed(s, d) == [name : JobNames, job : BoundedJob(s, d)]

BoundedOp(s) == {o \in Op : o.rev <= s}

\* Once it has listed the Jobs, a Reconcile has a time stamp for their names.
Stamped(r) == r.plan.stamp \in Stamps

BoundedRec(s, d) ==
  {r \in [pc : Pcs, plan : Plan, todo : SUBSET BoundedListed(s, d),
          done : BoundedListed(s, d), followup : BOOLEAN, op : BoundedOp(s),
          base : BoundedMirror(s, d)] :
     r.pc \in {"idle", "list"} \/ Stamped(r)}

\* The parts of the state that say nothing of revisions.
RestTypes ==
  /\ lease \in JobNames \cup {NoJob}
  /\ leaseCopies \subseteq LeaseCopies
  /\ queued \in [Instances -> BOOLEAN]
  /\ armed \in [Instances -> BOOLEAN]
  /\ clock \in Times \ {0}
  /\ faults \in 0..MaxFaults

RepositoryTypes ==
  /\ source \in Revisions /\ target \in Revisions /\ delivered \in Revisions
  /\ inbox \in SUBSET {e \in Deliveries : e <= source}

IInv ==
  /\ RestTypes
  /\ RepositoryTypes
  /\ mirror \in BoundedMirror(source, delivered)
  /\ jobs \in BoundedJobs(source, delivered)
  /\ cache \in [Instances -> BoundedCache(source, delivered)]
  /\ hook \in [Handlers -> BoundedHook(source, delivered)]
  /\ rec \in [Instances -> BoundedRec(source, delivered)]

------------------------------------------------------------------------------
(***************************************************************************)
(* Values.                                                                 *)
(***************************************************************************)

\* The names the builder makes are names of Jobs.
LEMMA NamesType ==
  /\ LegacyJob \in JobNames
  /\ \A g \in Generations : GenerationJob(g) \in JobNames
  /\ \A d \in 1..Scheduled : DeliveryJob(d) \in JobNames
  /\ \A k \in Stamps : ResyncJob(k) \in JobNames /\ ScheduledJob(k) \in JobNames
BY DEF JobNames

\* A new mirror, an absent and a new Job, a fresh Reconcile are bounded.
LEMMA NewMirrorBounded ==
  ASSUME NEW s \in Revisions, NEW d \in Revisions
  PROVE  NewMirror \in BoundedMirror(s, d)
<1>1. NewMirror \in Mirror
  BY MaxGenAssumption, MaxPushAssumption, MaxTickAssumption
     DEF NewMirror, Mirror, Status, Conditions, Generations, Revisions, Times, Scheduled
<1> QED
  BY <1>1, MaxPushAssumption DEF NewMirror, BoundedMirror, Revisions

LEMMA NewJobBounded ==
  ASSUME NEW s \in Revisions, NEW d \in Revisions, NEW gen \in 0..MaxGen,
         NEW rev \in Revisions, rev <= s
  PROVE  AbsentJob \in BoundedJob(s, d) /\ NewJob(gen, rev) \in BoundedJob(s, d)
BY MaxGenAssumption, MaxPushAssumption
   DEF AbsentJob, NewJob, BoundedJob, Job, Revisions, RunningPhases, FinishedPhases

\* The runner's progress keeps a Job bounded: a clone finds the revision the Job
\* is for, a push shows what was cloned, and only what was pushed completes.
LEMMA JobStepsBounded ==
  ASSUME NEW s \in Revisions, NEW d \in Revisions, NEW j \in BoundedJob(s, d)
  PROVE  /\ [j EXCEPT !.phase = "cloned", !.got = s] \in BoundedJob(s, d)
         /\ j.phase = "cloned" =>
              \A d2 \in Revisions : d <= d2 /\ j.got <= d2 =>
                [j EXCEPT !.phase = "pushed", !.got = 0] \in BoundedJob(s, d2)
         /\ j.phase = "pushed" => [j EXCEPT !.phase = "complete"] \in BoundedJob(s, d)
         /\ [j EXCEPT !.phase = "failed", !.got = 0] \in BoundedJob(s, d)
<1>1. j \in Job /\ j.rev <= s /\ 0 \in Revisions
  BY MaxPushAssumption DEF BoundedJob, Revisions
<1>2. [j EXCEPT !.phase = "cloned", !.got = s] \in BoundedJob(s, d)
  BY <1>1 DEF BoundedJob, Job, RunningPhases
<1>3. ASSUME j.phase = "cloned", NEW d2 \in Revisions, d <= d2, j.got <= d2
      PROVE  [j EXCEPT !.phase = "pushed", !.got = 0] \in BoundedJob(s, d2)
  <2>1. j.rev <= d2
    BY <1>3, <1>1 DEF BoundedJob, Job, Revisions
  <2> QED
    BY <1>1, <2>1 DEF BoundedJob, Job, RunningPhases
<1>4. ASSUME j.phase = "pushed"
      PROVE  [j EXCEPT !.phase = "complete"] \in BoundedJob(s, d)
  BY <1>1, <1>4 DEF BoundedJob, Job, FinishedPhases
<1>5. [j EXCEPT !.phase = "failed", !.got = 0] \in BoundedJob(s, d)
  BY <1>1 DEF BoundedJob, Job, FinishedPhases
<1> QED
  BY <1>2, <1>3, <1>4, <1>5

\* What a Job object shows of a Job is bounded like the Job.
LEMMA VisibleBounded ==
  ASSUME NEW s \in Revisions, NEW d \in Revisions
  PROVE  /\ \A j \in BoundedJob(s, d) : Visible(j) \in BoundedJob(s, d)
         /\ \A js \in BoundedJobs(s, d) : VisibleJobs(js) \in BoundedJobs(s, d)
<1>1. \A j \in BoundedJob(s, d) : Visible(j) \in BoundedJob(s, d)
  BY NewJobBounded DEF Visible, BoundedJob, Job
<1> QED
  BY <1>1 DEF VisibleJobs, BoundedJobs

\* An idle Reconcile and an idle handler.
LEMMA IdleBounded ==
  ASSUME NEW s \in Revisions, NEW d \in Revisions
  PROVE  /\ NoPlan \in Plan
         /\ NoListed \in BoundedListed(s, d)
         /\ NoOp \in BoundedOp(s)
         /\ IdleRec \in BoundedRec(s, d)
         /\ IdleHook \in BoundedHook(s, d)
<1>1. NoPlan \in Plan
  BY MaxGenAssumption, MaxTickAssumption, MaxStampAssumption DEF NoPlan, Plan, Times
<1>2. AbsentJob \in BoundedJob(s, d)
  BY NewJobBounded, MaxGenAssumption, MaxPushAssumption DEF Revisions
<1>3. NoListed \in BoundedListed(s, d)
  BY <1>2, NamesType DEF NoListed, BoundedListed
<1>4. NoOp \in BoundedOp(s)
  BY MaxGenAssumption, MaxPushAssumption DEF NoOp, Op, BoundedOp, Revisions
<1>5. IdleRec \in BoundedRec(s, d)
  BY <1>1, <1>3, <1>4, NewMirrorBounded DEF IdleRec, BoundedRec, Pcs, Stamped
<1>6. IdleHook \in BoundedHook(s, d)
  BY NewMirrorBounded, MaxPushAssumption DEF IdleHook, BoundedHook, Revisions
<1> QED
  BY <1>1, <1>3, <1>4, <1>5, <1>6

(***************************************************************************)
(* What the functions of status.go and status_update.go make of a bounded  *)
(* mirror is bounded.                                                      *)
(***************************************************************************)

\* Both set* functions make conditions of conditions.
LEMMA ConditionsType ==
  ASSUME NEW c \in Conditions, NEW gen \in 0..MaxGen
  PROVE  /\ \A v \in {"True", "False"} : SetReady(c, gen, v) \in Conditions
         /\ \A r \in {"WebhookReceived", "ActiveJobExists", "JobScheduled",
                      "FollowupScheduled"} : SetSyncPending(c, gen, r) \in Conditions
BY DEF SetReady, SetSyncPending, Conditions

\* ApplyWebhookState and ApplyWebhookIntent.
LEMMA WebhookBounded ==
  ASSUME NEW s \in Revisions, NEW d \in Revisions, NEW m \in BoundedMirror(s, d),
         NEW id \in 0..Scheduled, NEW rev \in Revisions, rev <= s,
         NEW now \in Times, NEW active \in BOOLEAN
  PROVE  /\ ApplyWebhookState(m, id, now, active) \in BoundedMirror(s, d)
         /\ ApplyWebhookIntent(m, id, rev) \in BoundedMirror(s, d)
<1>1. /\ m \in Mirror /\ m.gen \in 0..MaxGen /\ m.status.conditions \in Conditions
      /\ m.status.requested <= s /\ m.status.mirrored <= d
  BY DEF BoundedMirror, Mirror, Status, Generations
<1>2. \A r \in {"WebhookReceived", "ActiveJobExists", "JobScheduled"} :
        SetSyncPending(m.status.conditions, m.gen, r) \in Conditions
  BY <1>1, ConditionsType
<1> QED
  BY <1>1, <1>2 DEF ApplyWebhookState, ApplyWebhookIntent, BoundedMirror, Mirror, Status

\* ApplySyncScheduledForGeneration.
LEMMA ScheduledBounded ==
  ASSUME NEW s \in Revisions, NEW d \in Revisions, NEW m \in BoundedMirror(s, d),
         NEW name \in JobNames \cup {NoJob}, NEW gen, NEW now \in Times
  PROVE  ApplySyncScheduledForGeneration(m, name, gen, now) \in BoundedMirror(s, d)
<1>1. /\ m \in Mirror /\ m.gen \in 0..MaxGen /\ m.status.conditions \in Conditions
      /\ m.status.requested <= s /\ m.status.mirrored <= d
  BY DEF BoundedMirror, Mirror, Status, Generations
<1>2. SetSyncPending(m.status.conditions, m.gen, "JobScheduled") \in Conditions
  BY <1>1, ConditionsType
<1> QED
  BY <1>1, <1>2
     DEF ApplySyncScheduledForGeneration, ApplySyncScheduled, BoundedMirror, Mirror, Status

\* ApplyCompletedJobStatus and its legacy form: the mirrored revision is that of
\* a Job that completed, which the target has shown.
LEMMA CompletionBounded ==
  ASSUME NEW s \in Revisions, NEW d \in Revisions, NEW m \in BoundedMirror(s, d),
         NEW name \in JobNames, NEW job \in BoundedJob(s, d), NEW now \in Times
  PROVE  ApplyCompletion(m, name, job, now) \in BoundedMirror(s, d)
<1> DEFINE n == [m EXCEPT !.status.observed = m.gen]
<1>1. /\ m \in Mirror /\ m.gen \in 0..MaxGen /\ m.status.observed \in 0..MaxGen
      /\ m.status.requested <= s /\ m.status.mirrored <= d
  BY DEF BoundedMirror, Mirror, Status, Generations
<1>2. n \in BoundedMirror(s, d)
  BY <1>1 DEF BoundedMirror, Mirror, Status
<1>3. ASSUME NEW k \in BoundedMirror(s, d), NEW gen \in 0..MaxGen
      PROVE  ApplyOutcome(k, name, job, gen) \in BoundedMirror(s, d)
  <2>1. /\ k \in Mirror /\ k.status.conditions \in Conditions
        /\ k.status.requested <= s /\ k.status.mirrored <= d
    BY DEF BoundedMirror, Mirror, Status
  <2>2. \A v \in {"True", "False"} : SetReady(k.status.conditions, gen, v) \in Conditions
    BY <2>1, ConditionsType
  <2>3. MirroredAfter(k, job) \in Revisions /\ MirroredAfter(k, job) <= d
    BY <2>1 DEF MirroredAfter, BoundedJob, Job, Mirror, Status
  <2>4. ErrorAfter(k, job) \in BOOLEAN
    BY DEF ErrorAfter
  <2> QED
    BY <2>1, <2>2, <2>3, <2>4 DEF ApplyOutcome, BoundedMirror, Mirror, Status
<1>4. ASSUME NEW k \in BoundedMirror(s, d)
      PROVE  ApplyFollowup(k, now) \in BoundedMirror(s, d)
  <2>1. /\ k \in Mirror /\ k.status.conditions \in Conditions /\ k.gen \in 0..MaxGen
        /\ k.status.requested <= s /\ k.status.mirrored <= d
    BY DEF BoundedMirror, Mirror, Status, Generations
  <2>2. SetSyncPending(k.status.conditions, k.gen, "FollowupScheduled") \in Conditions
    BY <2>1, ConditionsType
  <2> QED
    BY <2>1, <2>2 DEF ApplyFollowup, BoundedMirror, Mirror, Status
<1> QED
  BY <1>1, <1>2, <1>3, <1>4
     DEF ApplyCompletion, ApplyCompletedJobStatus, ApplyCompletedLegacyJobStatus

\* A merge patch takes every field from one of two bounded mirrors.
LEMMA MergeBounded ==
  ASSUME NEW s \in Revisions, NEW d \in Revisions, NEW base \in BoundedMirror(s, d),
         NEW new \in BoundedMirror(s, d), NEW server \in BoundedMirror(s, d)
  PROVE  MergePatch(base, new, server) \in BoundedMirror(s, d)
<1>1. \A u, v, w : Patched(u, v, w) \in {v, w}
  BY DEF Patched
<1>2. /\ new \in Mirror /\ server \in Mirror
      /\ new.status.requested <= s /\ new.status.mirrored <= d
      /\ server.status.requested <= s /\ server.status.mirrored <= d
  BY DEF BoundedMirror
<1> QED
  BY <1>1, <1>2 DEF MergePatch, BoundedMirror, Mirror, Status

\* What is bounded stays so as the repositories come further.
LEMMA BoundsGrow ==
  ASSUME NEW s \in Revisions, NEW d \in Revisions, NEW s2 \in Revisions,
         NEW d2 \in Revisions, s <= s2, d <= d2
  PROVE  /\ BoundedMirror(s, d) \subseteq BoundedMirror(s2, d2)
         /\ BoundedJob(s, d) \subseteq BoundedJob(s2, d2)
         /\ BoundedOp(s) \subseteq BoundedOp(s2)
         /\ BoundedHook(s, d) \subseteq BoundedHook(s2, d2)
         /\ BoundedCache(s, d) \subseteq BoundedCache(s2, d2)
         /\ BoundedRec(s, d) \subseteq BoundedRec(s2, d2)
<1>1. BoundedMirror(s, d) \subseteq BoundedMirror(s2, d2)
  BY DEF BoundedMirror, Mirror, Status, Revisions
<1>2. BoundedJob(s, d) \subseteq BoundedJob(s2, d2)
  BY DEF BoundedJob, Job, Revisions
<1>3. BoundedOp(s) \subseteq BoundedOp(s2)
  BY DEF BoundedOp, Op, Revisions
<1>4. BoundedHook(s, d) \subseteq BoundedHook(s2, d2)
  BY <1>1, MaxPushAssumption DEF BoundedHook, Revisions
<1>5. BoundedJobs(s, d) \subseteq BoundedJobs(s2, d2)
  BY <1>2 DEF BoundedJobs
<1>6. BoundedCache(s, d) \subseteq BoundedCache(s2, d2)
  BY <1>1, <1>5 DEF BoundedCache
<1>7. BoundedListed(s, d) \subseteq BoundedListed(s2, d2)
  BY <1>2 DEF BoundedListed
<1>8. BoundedRec(s, d) \subseteq BoundedRec(s2, d2)
  BY <1>1, <1>3, <1>7 DEF BoundedRec, Stamped
<1> QED
  BY <1>1, <1>2, <1>3, <1>4, <1>6, <1>8

------------------------------------------------------------------------------
(***************************************************************************)
(* Steps of the cluster.                                                   *)
(***************************************************************************)

\* What an instance reads, now or from its cache, is bounded.
LEMMA ReadsBounded ==
  ASSUME IInv, NEW i \in Instances
  PROVE  /\ SeenMirror(i) \in BoundedMirror(source, delivered)
         /\ SeenJobs(i) \in BoundedJobs(source, delivered)
         /\ SeenLease(i) \in JobNames \cup {NoJob}
BY VisibleBounded
   DEF IInv, RepositoryTypes, RestTypes, SeenMirror, SeenJobs, SeenLease, BoundedCache

\* A wake-up of the instances is a queue again.
LEMMA NotifiedType ==
  ASSUME IInv, NEW kind, NEW changed \in BOOLEAN
  PROVE  Notified(kind, changed) \in [Instances -> BOOLEAN]
BY DEF IInv, RestTypes, Notified

\* A patch of one bounded copy to another leaves a bounded mirror.
LEMMA PatchBounded ==
  ASSUME IInv, NEW base \in BoundedMirror(source, delivered),
         NEW new \in BoundedMirror(source, delivered), PatchMirror(base, new)
  PROVE  /\ mirror' \in BoundedMirror(source, delivered)
         /\ queued' \in [Instances -> BOOLEAN]
<1>1. mirror' \in BoundedMirror(source, delivered)
  BY MergeBounded DEF IInv, RepositoryTypes, PatchMirror
<1>2. queued' \in [Instances -> BOOLEAN]
  BY NotifiedType DEF PatchMirror
<1> QED
  BY <1>1, <1>2

\* A process that starts reads the cluster's objects.
LEMMA SyncBounded ==
  ASSUME IInv, NEW i \in Instances, SyncCache(i)
  PROVE  /\ cache' \in [Instances -> BoundedCache(source, delivered)]
         /\ leaseCopies' \subseteq LeaseCopies
<1> USE DEF IInv, RestTypes, RepositoryTypes
<1>1. VisibleJobs(jobs) \in BoundedJobs(source, delivered)
  BY VisibleBounded
<1>2. cache[i] \in BoundedCache(source, delivered)
  OBVIOUS
<1>3. [mirror |-> IF "mirror" \in Lagging THEN mirror ELSE cache[i].mirror,
       jobs |-> IF "jobs" \in Lagging THEN VisibleJobs(jobs) ELSE cache[i].jobs,
       lease |-> IF "lease" \in Lagging THEN lease ELSE cache[i].lease]
        \in BoundedCache(source, delivered)
  BY <1>1, <1>2 DEF BoundedCache
<1>4. cache' \in [Instances -> BoundedCache(source, delivered)]
  BY <1>3 DEF SyncCache
<1>5. leaseCopies' \subseteq LeaseCopies
  BY DEF SyncCache, LeaseCopies
<1> QED
  BY <1>4, <1>5

\* Informers, timers and users.
LEMMA ClusterBounded ==
  ASSUME IInv, ClusterNext, UNCHANGED <<hook, rec>>
  PROVE  IInv'
<1> USE DEF IInv, RestTypes, RepositoryTypes, objects, repositories
<1>1. VisibleJobs(jobs) \in BoundedJobs(source, delivered)
  BY VisibleBounded
<1>2. ASSUME NEW i \in Instances, RefreshMirror(i) PROVE IInv'
  <2>1. cache' \in [Instances -> BoundedCache(source, delivered)]
    BY <1>2 DEF RefreshMirror, BoundedCache
  <2> QED
    BY <1>2, <2>1 DEF RefreshMirror
<1>3. ASSUME NEW i \in Instances, RefreshJobs(i) PROVE IInv'
  <2>1. cache' \in [Instances -> BoundedCache(source, delivered)]
    BY <1>1, <1>3 DEF RefreshJobs, BoundedCache
  <2> QED
    BY <1>3, <2>1 DEF RefreshJobs
<1>4. ASSUME NEW i \in Instances, RefreshLease(i) PROVE IInv'
  <2>1. cache' \in [Instances -> BoundedCache(source, delivered)]
    BY <1>4 DEF RefreshLease, BoundedCache
  <2> QED
    BY <1>4, <2>1 DEF RefreshLease, LeaseCopies
<1>5. ASSUME NEW i \in Instances, TimerFires(i) \/ Resync(i) PROVE IInv'
  BY <1>5 DEF TimerFires, Resync
<1>6. CASE Tick
  BY <1>6, MaxTickAssumption DEF Tick, Times
<1>7. CASE ChangeSpec
  <2>1. mirror' \in BoundedMirror(source, delivered)
    BY <1>7, MaxGenAssumption DEF ChangeSpec, BoundedMirror, Mirror, Generations
  <2>2. queued' \in [Instances -> BOOLEAN]
    BY <1>7, NotifiedType DEF ChangeSpec
  <2> QED
    BY <1>7, <2>1, <2>2 DEF ChangeSpec
<1>8. CASE Push
  <2>1. /\ source' \in Revisions /\ source <= source' /\ source' \in Deliveries
        /\ delivered' = delivered /\ delivered <= delivered'
    BY <1>8, MaxPushAssumption DEF Push, Revisions, Deliveries
  <2>2. /\ mirror' \in BoundedMirror(source', delivered')
        /\ jobs' \in BoundedJobs(source', delivered')
        /\ cache' \in [Instances -> BoundedCache(source', delivered')]
        /\ hook' \in [Handlers -> BoundedHook(source', delivered')]
        /\ rec' \in [Instances -> BoundedRec(source', delivered')]
    BY <1>8, <2>1, BoundsGrow DEF Push, BoundedJobs
  <2>3. RepositoryTypes'
    BY <1>8, <2>1 DEF Push, Revisions, Deliveries
  <2> QED
    BY <1>8, <2>2, <2>3 DEF Push
<1>9. ASSUME NEW e \in Deliveries, Redeliver(e) \/ LoseDelivery(e) PROVE IInv'
  BY <1>9, MaxFaultsAssumption DEF Redeliver, LoseDelivery
<1>10. ASSUME NEW n \in JobNames PROVE jobs[n] \in BoundedJob(source, delivered)
  BY DEF BoundedJobs
<1>11. ASSUME NEW n \in JobNames, JobClones(n) PROVE IInv'
  <2>1. [jobs[n] EXCEPT !.phase = "cloned", !.got = source]
          \in BoundedJob(source, delivered)
    BY <1>10, JobStepsBounded
  <2>2. jobs' = [jobs EXCEPT ![n] = [jobs[n] EXCEPT !.phase = "cloned", !.got = source]]
    BY <1>11 DEF JobClones, BoundedJobs
  <2>3. jobs' \in BoundedJobs(source, delivered)
    BY <2>1, <2>2 DEF BoundedJobs
  <2> QED
    BY <1>11, <2>3 DEF JobClones
<1>12. ASSUME NEW n \in JobNames, JobPushes(n) PROVE IInv'
  <2>1. /\ jobs[n].phase = "cloned" /\ jobs[n].got \in Revisions
        /\ source' = source /\ delivered' \in Revisions /\ delivered <= delivered'
        /\ jobs[n].got <= delivered' /\ target' \in Revisions
    BY <1>10, <1>12 DEF JobPushes, BoundedJob, Job, Revisions
  <2>2. /\ mirror' \in BoundedMirror(source', delivered')
        /\ cache' \in [Instances -> BoundedCache(source', delivered')]
        /\ hook' \in [Handlers -> BoundedHook(source', delivered')]
        /\ rec' \in [Instances -> BoundedRec(source', delivered')]
        /\ jobs \in BoundedJobs(source', delivered')
    BY <1>12, <2>1, BoundsGrow DEF JobPushes, BoundedJobs, Revisions
  <2>3. [jobs[n] EXCEPT !.phase = "pushed", !.got = 0]
          \in BoundedJob(source', delivered')
    BY <1>10, <2>1, JobStepsBounded
  <2>4. jobs' = [jobs EXCEPT ![n] = [jobs[n] EXCEPT !.phase = "pushed", !.got = 0]]
    BY <1>12 DEF JobPushes, BoundedJobs
  <2>5. jobs' \in BoundedJobs(source', delivered')
    BY <2>2, <2>3, <2>4 DEF BoundedJobs
  <2> QED
    BY <1>12, <2>1, <2>2, <2>5 DEF JobPushes
<1>13. ASSUME NEW n \in JobNames, NEW job \in BoundedJob(source, delivered),
              SetJob(n, job), UNCHANGED repositories
       PROVE IInv'
  <2>1. jobs' \in BoundedJobs(source, delivered)
    BY <1>13 DEF SetJob, BoundedJobs
  <2>2. queued' \in [Instances -> BOOLEAN]
    BY <1>13, NotifiedType DEF SetJob
  <2> QED
    BY <1>13, <2>1, <2>2 DEF SetJob
<1>14. ASSUME NEW n \in JobNames, JobSucceeds(n) PROVE IInv'
  <2>1. [jobs[n] EXCEPT !.phase = "complete"] \in BoundedJob(source, delivered)
    BY <1>10, <1>14, JobStepsBounded DEF JobSucceeds
  <2> QED
    BY <1>13, <1>14, <2>1 DEF JobSucceeds
<1>15. ASSUME NEW n \in JobNames, JobFails(n) PROVE IInv'
  <2>1. [jobs[n] EXCEPT !.phase = "failed", !.got = 0] \in BoundedJob(source, delivered)
    BY <1>10, JobStepsBounded
  <2> QED
    BY <1>13, <1>15, <2>1 DEF JobFails
<1>16. ASSUME NEW n \in JobNames, JobExpires(n) PROVE IInv'
  <2>1. AbsentJob \in BoundedJob(source, delivered)
    BY NewJobBounded, MaxGenAssumption, MaxPushAssumption DEF Revisions
  <2> QED
    BY <1>13, <1>16, <2>1 DEF JobExpires
<1> QED
  BY <1>2, <1>3, <1>4, <1>5, <1>6, <1>7, <1>8, <1>9, <1>11, <1>12, <1>14, <1>15, <1>16
     DEF ClusterNext

------------------------------------------------------------------------------
(***************************************************************************)
(* Steps of the webhook handlers and of the reconcilers.                   *)
(***************************************************************************)

\* A handler that takes a delivery the source has sent.
LEMMA HookTakes ==
  ASSUME NEW s \in Revisions, NEW d \in Revisions, NEW h \in BoundedHook(s, d),
         NEW i \in Instances, NEW e \in 0..MaxPush, e <= s
  PROVE  [h EXCEPT !.pc = "get", !.host = i, !.delivery = e] \in BoundedHook(s, d)
BY DEF BoundedHook

\* HandleGitHub and the two halves of PatchGitMirrorStatus.
LEMMA WebhookNextBounded ==
  ASSUME IInv, WebhookNext, UNCHANGED rec
  PROVE  IInv'
<1> USE DEF IInv, RestTypes, RepositoryTypes, objects, repositories
<1>1. ASSUME NEW h \in Handlers, NEW i \in Instances, NEW e \in Deliveries,
             HandleGitHub(h, i, e)
      PROVE  IInv'
  <2>1. e <= source /\ e \in 0..MaxPush
    BY <1>1 DEF HandleGitHub, Deliveries
  <2> DEFINE got == [hook[h] EXCEPT !.pc = "get", !.host = i, !.delivery = e]
  <2>2. got \in BoundedHook(source, delivered)
    BY <2>1, HookTakes
  <2>3. hook' = hook \/ hook' = [hook EXCEPT ![h] = got]
    BY <1>1 DEF HandleGitHub
  <2> HIDE DEF got
  <2>4. hook' \in [Handlers -> BoundedHook(source, delivered)]
    BY <2>2, <2>3
  <2> QED
    BY <1>1, <2>4 DEF HandleGitHub
<1>2. ASSUME NEW h \in Handlers, HookGet(h) PROVE IInv'
  <2>1. hook[h].host \in Instances
    BY <1>2 DEF HookGet, BoundedHook
  <2>2. SeenMirror(hook[h].host) \in BoundedMirror(source, delivered)
    BY <2>1, ReadsBounded
  <2>3. hook' \in [Handlers -> BoundedHook(source, delivered)]
    BY <1>2, <2>2 DEF HookGet, BoundedHook
  <2> QED
    BY <1>2, <2>3 DEF HookGet
<1>3. ASSUME NEW h \in Handlers, HookPatch(h) PROVE IInv'
  <2>1. /\ hook[h].base \in BoundedMirror(source, delivered)
        /\ hook[h].delivery \in Revisions /\ hook[h].delivery <= source
        /\ hook[h].delivery \in 0..Scheduled
    BY MaxPushAssumption DEF BoundedHook, Revisions, Scheduled
  <2>2. ApplyWebhookIntent(hook[h].base, hook[h].delivery, hook[h].delivery)
          \in BoundedMirror(source, delivered)
    BY <2>1, WebhookBounded, MaxTickAssumption DEF Times
  <2>3. mirror' \in BoundedMirror(source, delivered) /\ queued' \in [Instances -> BOOLEAN]
    BY <1>3, <2>1, <2>2, PatchBounded DEF HookPatch
  <2>4. hook' \in [Handlers -> BoundedHook(source, delivered)]
    BY <1>3, IdleBounded DEF HookPatch
  <2> QED
    BY <1>3, <2>3, <2>4 DEF HookPatch
<1>4. ASSUME NEW h \in Handlers, HookFails(h) PROVE IInv'
  <2>1. hook' \in [Handlers -> BoundedHook(source, delivered)]
    BY <1>4, IdleBounded DEF HookFails
  <2> QED
    BY <1>4, <2>1, MaxFaultsAssumption DEF HookFails
<1> QED
  BY <1>1, <1>2, <1>3, <1>4 DEF WebhookNext

\* What a step of Reconcile keeps of its state, by the fields it sets.
LEMMA RecFields ==
  ASSUME NEW s \in Revisions, NEW d \in Revisions, NEW r \in BoundedRec(s, d),
         NEW p \in Pcs, p \in {"idle", "list"} \/ Stamped(r)
  PROVE  /\ [r EXCEPT !.pc = p] \in BoundedRec(s, d)
         /\ \A m \in BoundedMirror(s, d) :
              [r EXCEPT !.pc = p, !.base = m] \in BoundedRec(s, d)
         /\ \A o \in BoundedOp(s) : [r EXCEPT !.pc = p, !.op = o] \in BoundedRec(s, d)
         /\ \A n \in JobNames \cup {NoJob} :
              [r EXCEPT !.pc = p, !.op.holder = n] \in BoundedRec(s, d)
         /\ [r EXCEPT !.pc = p, !.done = NoListed, !.followup = FALSE] \in BoundedRec(s, d)
<1>1. [r EXCEPT !.pc = p] \in BoundedRec(s, d)
  BY DEF BoundedRec, Stamped
<1>2. ASSUME NEW m \in BoundedMirror(s, d)
      PROVE  [r EXCEPT !.pc = p, !.base = m] \in BoundedRec(s, d)
  BY DEF BoundedRec, Stamped
<1>3. ASSUME NEW o \in BoundedOp(s)
      PROVE  [r EXCEPT !.pc = p, !.op = o] \in BoundedRec(s, d)
  BY DEF BoundedRec, Stamped
<1>4. ASSUME NEW n \in JobNames \cup {NoJob}
      PROVE  [r EXCEPT !.pc = p, !.op.holder = n] \in BoundedRec(s, d)
  <2>1. r.op \in BoundedOp(s)
    BY DEF BoundedRec, Stamped
  <2>2. [r.op EXCEPT !.holder = n] \in BoundedOp(s)
    BY <2>1 DEF BoundedOp, Op
  <2> QED
    BY <2>2 DEF BoundedRec, Stamped
<1>5. [r EXCEPT !.pc = p, !.done = NoListed, !.followup = FALSE] \in BoundedRec(s, d)
  BY IdleBounded DEF BoundedRec, Stamped
<1> QED
  BY <1>1, <1>2, <1>3, <1>4, <1>5

\* A Reconcile that keeps its plan and its list only.
LEMMA PlanBounded ==
  ASSUME NEW s \in Revisions, NEW d \in Revisions, NEW p \in Pcs, NEW plan \in Plan,
         plan.stamp \in Stamps, NEW todo \in SUBSET BoundedListed(s, d)
  PROVE  /\ [IdleRec EXCEPT !.pc = p, !.plan = plan, !.todo = todo] \in BoundedRec(s, d)
         /\ [IdleRec EXCEPT !.pc = p, !.plan = plan] \in BoundedRec(s, d)
BY IdleBounded DEF BoundedRec, Stamped

\* The stages of Reconcile are places in it.
LEMMA StagesType ==
  ASSUME NEW plan, NEW todo
  PROVE  /\ PendingStage(plan) \in Pcs
         /\ CompletedStage(plan, todo) \in Pcs
BY DEF CompletedStage, GenerationStage, PendingStage, FallbackStage, Pcs

\* The returns of Reconcile, and going on to the next finished Job.
LEMMA ReturnBounded ==
  ASSUME IInv, NEW i \in Instances
  PROVE  /\ \A requeue \in BOOLEAN : Return(i, requeue) =>
              /\ rec' \in [Instances -> BoundedRec(source, delivered)]
              /\ armed' \in [Instances -> BOOLEAN]
         /\ ReturnError(i) =>
              /\ rec' \in [Instances -> BoundedRec(source, delivered)]
              /\ queued' \in [Instances -> BOOLEAN]
         /\ Stamped(rec[i]) /\ (NextCompleted(i) \/ AfterRelease(i)) =>
              rec' \in [Instances -> BoundedRec(source, delivered)]
<1> USE DEF IInv, RestTypes, RepositoryTypes
<1>1. IdleRec \in BoundedRec(source, delivered)
  BY IdleBounded
<1>2. ASSUME NEW requeue \in BOOLEAN, Return(i, requeue)
      PROVE  /\ rec' \in [Instances -> BoundedRec(source, delivered)]
             /\ armed' \in [Instances -> BOOLEAN]
  BY <1>1, <1>2 DEF Return
<1>3. ASSUME ReturnError(i)
      PROVE  /\ rec' \in [Instances -> BoundedRec(source, delivered)]
             /\ queued' \in [Instances -> BOOLEAN]
  BY <1>1, <1>3 DEF ReturnError
<1>4. rec[i] \in BoundedRec(source, delivered)
  OBVIOUS
<1>5. ASSUME Stamped(rec[i]), NextCompleted(i)
      PROVE  rec' \in [Instances -> BoundedRec(source, delivered)]
  <2>1. rec[i].plan \in Plan /\ rec[i].todo \in SUBSET BoundedListed(source, delivered)
    BY <1>4 DEF BoundedRec
  <2>2. [IdleRec EXCEPT !.pc = CompletedStage(rec[i].plan, rec[i].todo),
                        !.plan = rec[i].plan, !.todo = rec[i].todo]
          \in BoundedRec(source, delivered)
    BY <1>5, <2>1, StagesType, PlanBounded DEF Stamped
  <2> QED
    BY <1>5, <2>2 DEF NextCompleted
<1>6. ASSUME Stamped(rec[i]), AfterRelease(i)
      PROVE  rec' \in [Instances -> BoundedRec(source, delivered)]
  <2>1. CASE NextCompleted(i)
    BY <1>5, <1>6, <2>1
  <2>2. CASE rec' = [rec EXCEPT ![i].pc = "leaseCreate", ![i].done = NoListed,
                                ![i].followup = FALSE]
    <3>1. [rec[i] EXCEPT !.pc = "leaseCreate", !.done = NoListed, !.followup = FALSE]
            \in BoundedRec(source, delivered)
      BY <1>4, <1>6, RecFields DEF Pcs
    <3> QED
      BY <2>2, <3>1
  <2> QED
    BY <1>6, <2>1, <2>2 DEF AfterRelease
<1> QED
  BY <1>2, <1>3, <1>5, <1>6

\* The Job a stage chooses.
LEMMA ChoiceBounded ==
  ASSUME NEW s \in Revisions, NEW kind \in {"generation", "pending"},
         NEW name \in JobNames \cup {NoJob}, NEW gen \in Generations,
         NEW rev \in Revisions, rev <= s
  PROVE  [NoOp EXCEPT !.kind = kind, !.name = name, !.gen = gen, !.rev = rev]
           \in BoundedOp(s)
<1> DEFINE o == [NoOp EXCEPT !.kind = kind, !.name = name, !.gen = gen, !.rev = rev]
<1>1. NoOp \in Op /\ gen \in 0..MaxGen
  BY IdleBounded, MaxGenAssumption DEF BoundedOp, Generations
<1>2. o \in Op
  BY <1>1 DEF Op
<1>3. o.rev = rev
  BY <1>1 DEF Op
<1> HIDE DEF o
<1>4. o \in BoundedOp(s)
  BY <1>2, <1>3 DEF BoundedOp
<1> QED
  BY <1>4 DEF o

\* The steps of Reconcile up to the choice of a Job to schedule.
LEMMA StagesBounded ==
  ASSUME IInv, NEW i \in Instances,
         \/ Start(i) \/ ListJobs(i) \/ CompletedGet(i) \/ CompletedPatch(i)
         \/ ReleaseGet(i) \/ ReleaseDelete(i) \/ ReconcileUnobservedGeneration(i)
         \/ ReconcilePendingResync(i) \/ ReconcileFallback(i) \/ UntilNext(i)
  PROVE  IInv'
<1> USE DEF IInv, RestTypes, RepositoryTypes, objects, repositories
<1> DEFINE BR == BoundedRec(source, delivered)
<1>1. rec[i] \in BR
  OBVIOUS
<1>2. /\ rec[i].plan \in Plan /\ rec[i].todo \in SUBSET BoundedListed(source, delivered)
      /\ rec[i].base \in BoundedMirror(source, delivered)
      /\ rec[i].done \in BoundedListed(source, delivered)
      /\ rec[i].op \in BoundedOp(source)
  BY <1>1 DEF BoundedRec
<1>3. /\ SeenMirror(i) \in BoundedMirror(source, delivered)
      /\ SeenJobs(i) \in BoundedJobs(source, delivered)
  BY ReadsBounded
<1>4. /\ SeenMirror(i).gen \in Generations
      /\ SeenMirror(i).status.requested \in Revisions
      /\ SeenMirror(i).status.requested <= source
      /\ SeenMirror(i).status.delivery \in 0..Scheduled
  BY <1>3 DEF BoundedMirror, Mirror, Status
<1>5. ASSUME Stamped(rec[i]), NEW op \in BoundedOp(source), Schedule(i, op)
      PROVE  rec' \in [Instances -> BR]
  <2>1. [rec[i] EXCEPT !.pc = "leaseCreate", !.op = op] \in BR
    BY <1>1, <1>5, RecFields DEF Pcs
  <2> QED
    BY <1>5, <2>1 DEF Schedule
<1>6. ASSUME Stamped(rec[i]), NEW p \in Pcs, rec' = [rec EXCEPT ![i].pc = p]
      PROVE  rec' \in [Instances -> BR]
  BY <1>1, <1>6, RecFields
<1>st. ~At(i, "idle") /\ ~At(i, "list") => Stamped(rec[i])
  BY <1>1 DEF At, BoundedRec
<1>7. CASE Start(i)
  <2>1. [rec[i] EXCEPT !.pc = "list", !.base = SeenMirror(i)] \in BR
    BY <1>1, <1>3, RecFields DEF Pcs
  <2> QED
    BY <1>7, <2>1 DEF Start
<1>8. CASE ListJobs(i)
  <2>1. PICK k \in Stamps :
          LET m == rec[i].base
              listed == JobsForGeneration(SeenJobs(i), m.gen)
              plan == [gen |-> m.gen,
                       unobserved |-> m.status.observed # m.gen,
                       pending |-> m.status.pending,
                       triggered |-> m.status.triggered,
                       active |-> ActiveJobExists(listed),
                       now |-> clock, stamp |-> k]
              todo == {[name |-> n, job |-> listed[n]] :
                         n \in {n \in JobNames : RecordsCompletion(m, listed, n)}}
          IN rec' = [rec EXCEPT ![i] = [IdleRec EXCEPT !.pc = CompletedStage(plan, todo),
                                                       !.plan = plan, !.todo = todo]]
    BY <1>8 DEF ListJobs
  <2> DEFINE m == rec[i].base
             listed == JobsForGeneration(SeenJobs(i), m.gen)
             plan == [gen |-> m.gen,
                      unobserved |-> m.status.observed # m.gen,
                      pending |-> m.status.pending,
                      triggered |-> m.status.triggered,
                      active |-> ActiveJobExists(listed),
                      now |-> clock, stamp |-> k]
             todo == {[name |-> n, job |-> listed[n]] :
                        n \in {n \in JobNames : RecordsCompletion(m, listed, n)}}
  <2>2. listed \in BoundedJobs(source, delivered)
    <3>1. AbsentJob \in BoundedJob(source, delivered)
      BY NewJobBounded, MaxGenAssumption, MaxPushAssumption DEF Revisions
    <3> QED
      BY <1>3, <3>1 DEF JobsForGeneration, BoundedJobs
  <2>3. todo \in SUBSET BoundedListed(source, delivered)
    <3> HIDE DEF listed
    <3> QED
      BY <2>2 DEF BoundedJobs, BoundedListed
  <2>4. plan \in Plan
    <3>1. /\ m.gen \in 0..MaxGen /\ m.status.pending \in BOOLEAN
          /\ m.status.triggered \in Times
      BY <1>2 DEF BoundedMirror, Mirror, Status, Generations
    <3>2. ActiveJobExists(listed) \in BOOLEAN /\ k \in 0..MaxStamp /\ clock \in Times
      BY DEF ActiveJobExists, Stamps
    <3> HIDE DEF listed, m
    <3> QED
      BY <3>1, <3>2 DEF Plan
  <2>7. plan.stamp \in Stamps
    OBVIOUS
  <2> HIDE DEF plan, todo
  <2>5. [IdleRec EXCEPT !.pc = CompletedStage(plan, todo), !.plan = plan, !.todo = todo]
          \in BR
    BY <2>3, <2>4, <2>7, StagesType, PlanBounded
  <2>6. rec' \in [Instances -> BR]
    BY <2>1, <2>5 DEF plan, todo
  <2> QED
    BY <1>8, <2>6 DEF ListJobs
<1>9. CASE CompletedGet(i)
  <2>1. PICK l \in rec[i].todo :
          rec' = [rec EXCEPT ![i].pc = "completedPatch", ![i].todo = @ \ {l},
                             ![i].done = l, ![i].base = SeenMirror(i)]
    BY <1>9 DEF CompletedGet
  <2>2. rec' \in [Instances -> BR]
    <3>1. Stamped(rec[i])
      BY <1>9, <1>st DEF CompletedGet, At
    <3> QED
      BY <1>2, <1>3, <2>1, <3>1 DEF BoundedRec, Pcs, Stamped
  <2> QED
    BY <1>9, <2>2 DEF CompletedGet
<1>10. CASE CompletedPatch(i)
  <2> DEFINE r == rec[i]
             new == ApplyCompletion(r.base, r.done.name, r.done.job, r.plan.now)
             followup == NeedsFollowup(r.base, r.done.name, r.done.job)
             op == IF followup THEN FollowupOp(r) ELSE NoOp
  <2>1. /\ r.done.name \in JobNames /\ r.done.job \in BoundedJob(source, delivered)
        /\ r.plan.now \in Times /\ r.plan.gen \in 0..MaxGen /\ r.plan.stamp \in 0..MaxStamp
        /\ r.base.status.requested \in Revisions /\ r.base.status.requested <= source
        /\ r.base.status.pending \in BOOLEAN
    BY <1>2 DEF BoundedListed, Plan, BoundedMirror, Mirror, Status
  <2>2. new \in BoundedMirror(source, delivered)
    BY <1>2, <2>1, CompletionBounded
  <2>3. mirror' \in BoundedMirror(source, delivered) /\ queued' \in [Instances -> BOOLEAN]
    BY <1>2, <1>10, <2>2, PatchBounded DEF CompletedPatch
  <2>4. followup \in BOOLEAN
    BY <2>1 DEF NeedsFollowup, CompletionApplies
  <2>8. Stamped(r)
    BY <1>10, <1>st DEF CompletedPatch, At
  <2>5. op \in BoundedOp(source)
    BY <2>1, <2>8, IdleBounded, NamesType DEF FollowupOp, BoundedOp, Op, Stamped
  <2>6. rec' = [rec EXCEPT ![i].pc = "releaseGet", ![i].followup = followup,
                           ![i].op = op, ![i].base = NewMirror]
    BY <1>10 DEF CompletedPatch
  <2> HIDE DEF followup, op
  <2>7. rec' \in [Instances -> BR]
    BY <1>1, <2>4, <2>5, <2>6, <2>8, NewMirrorBounded DEF BoundedRec, Pcs, Stamped
  <2> QED
    BY <1>10, <2>3, <2>7 DEF CompletedPatch
<1>11. CASE ReleaseGet(i)
  <2>1. rec' \in [Instances -> BR]
    BY <1>6, <1>11, <1>st, ReturnBounded DEF ReleaseGet, Pcs, At
  <2> QED
    BY <1>11, <2>1 DEF ReleaseGet
<1>12. CASE ReleaseDelete(i)
  BY <1>12, <1>st, ReturnBounded DEF ReleaseDelete, DeleteLease, At
<1>13. CASE ReconcileUnobservedGeneration(i)
  <2> DEFINE o == [NoOp EXCEPT !.kind = "generation",
                               !.name = GenerationJob(SeenMirror(i).gen),
                               !.gen = SeenMirror(i).gen,
                               !.rev = SeenMirror(i).status.requested]
  <2>1. o \in BoundedOp(source)
    <3>1. GenerationJob(SeenMirror(i).gen) \in JobNames \cup {NoJob}
      BY <1>4, NamesType
    <3> QED
      BY <1>4, <3>1, ChoiceBounded
  <2>2. Schedule(i, o) \/ rec' = [rec EXCEPT ![i].pc = PendingStage(rec[i].plan)]
    BY <1>13 DEF ReconcileUnobservedGeneration
  <2> HIDE DEF o
  <2>3. rec' \in [Instances -> BR]
    BY <1>5, <1>6, <1>13, <1>st, <2>1, <2>2, StagesType
       DEF ReconcileUnobservedGeneration, At
  <2> QED
    BY <1>13, <2>3 DEF ReconcileUnobservedGeneration
<1>14. CASE ReconcilePendingResync(i)
  <2> DEFINE o == [NoOp EXCEPT !.kind = "pending",
                               !.name = PendingJobName(SeenMirror(i), rec[i].plan.stamp),
                               !.gen = SeenMirror(i).gen,
                               !.rev = SeenMirror(i).status.requested]
  <2>1. PendingJobName(SeenMirror(i), rec[i].plan.stamp) \in JobNames \cup {NoJob}
    BY <1>4, <1>14, <1>st, NamesType
       DEF ReconcilePendingResync, At, Stamped, PendingJobName
  <2>2. o \in BoundedOp(source)
    BY <1>4, <2>1, ChoiceBounded
  <2>3. Schedule(i, o) \/ rec' = [rec EXCEPT ![i].pc = FallbackStage]
    BY <1>14 DEF ReconcilePendingResync
  <2> HIDE DEF o
  <2>4. rec' \in [Instances -> BR]
    BY <1>5, <1>6, <1>14, <1>st, <2>2, <2>3
       DEF ReconcilePendingResync, At, FallbackStage, Pcs
  <2> QED
    BY <1>14, <2>4 DEF ReconcilePendingResync
<1>15. CASE ReconcileFallback(i)
  <2> DEFINE coalesce == [NoOp EXCEPT !.kind = "coalesce"]
             o == [NoOp EXCEPT !.kind = "fallback",
                               !.name = ScheduledJob(rec[i].plan.stamp),
                               !.gen = rec[i].plan.gen]
  <2>1. Stamped(rec[i])
    BY <1>15, <1>st DEF ReconcileFallback, At
  <2>2. o \in BoundedOp(source)
    BY <1>2, <2>1, IdleBounded, NamesType DEF BoundedOp, Op, Plan, Stamped
  <2>3. coalesce \in BoundedOp(source)
    BY IdleBounded DEF BoundedOp, Op
  <2>4. \/ \E requeue \in BOOLEAN : Return(i, requeue)
        \/ /\ \/ Schedule(i, o)
              \/ rec' = [rec EXCEPT ![i].pc = "untilNext"]
              \/ rec' = [rec EXCEPT ![i].pc = "scheduledGet", ![i].op = coalesce]
           /\ UNCHANGED armed
    BY <1>15 DEF ReconcileFallback
  <2> HIDE DEF o, coalesce
  <2>5. [rec[i] EXCEPT !.pc = "scheduledGet", !.op = coalesce] \in BR
    BY <1>1, <2>1, <2>3, RecFields DEF Pcs
  <2>6. rec' \in [Instances -> BR] /\ armed' \in [Instances -> BOOLEAN]
    BY <1>5, <1>6, <2>1, <2>2, <2>4, <2>5, ReturnBounded DEF Pcs
  <2> QED
    BY <1>15, <2>6 DEF ReconcileFallback
<1>16. CASE UntilNext(i)
  <2>1. rec' \in [Instances -> BR] /\ armed' \in [Instances -> BOOLEAN]
    BY <1>16, ReturnBounded DEF UntilNext
  <2> QED
    BY <1>16, <2>1 DEF UntilNext
<1> QED
  BY <1>7, <1>8, <1>9, <1>10, <1>11, <1>12, <1>13, <1>14, <1>15, <1>16

\* What the status patch of a scheduled Job makes of the mirror.
LEMMA ApplyScheduledBounded ==
  ASSUME NEW s \in Revisions, NEW d \in Revisions, NEW m \in BoundedMirror(s, d),
         NEW op \in BoundedOp(s), NEW plan \in Plan
  PROVE  ApplyScheduled(m, op, plan) \in BoundedMirror(s, d)
<1>1. op.name \in JobNames \cup {NoJob} /\ plan.now \in Times
  BY DEF BoundedOp, Op, Plan
<1>2. Scheduled \in 0..Scheduled /\ 0 \in Revisions /\ 0 <= s
  BY MaxPushAssumption DEF Scheduled, Revisions
<1>3. \A active \in BOOLEAN :
        ApplyWebhookState(m, Scheduled, plan.now, active) \in BoundedMirror(s, d)
  BY <1>1, <1>2, WebhookBounded
<1> QED
  BY <1>1, <1>3, ScheduledBounded DEF ApplyScheduled

\* The Jobs once a create has been served: a new Job has pushed nothing yet.
LEMMA JobsWithBounded ==
  ASSUME IInv, NEW o \in BoundedOp(source)
  PROVE  JobsWith(o.name, o.gen, o.rev) \in BoundedJobs(source, delivered)
<1>1. NewJob(o.gen, o.rev) \in BoundedJob(source, delivered)
  BY NewJobBounded DEF IInv, RepositoryTypes, BoundedOp, Op
<1> QED
  BY <1>1 DEF JobsWith, BoundedJobs, IInv

\* The steps that take the Lease, create the Job and record it; a failed call;
\* a crash.
LEMMA SchedulingBounded ==
  ASSUME IInv, NEW i \in Instances,
         \/ CreateLease(i) \/ GetLease(i) \/ GetHolder(i) \/ UpdateLease(i)
         \/ CreateJob(i) \/ CreateJobFails(i) \/ UndoGet(i) \/ UndoDelete(i)
         \/ ScheduledGet(i) \/ ScheduledPatch(i) \/ Abort(i) \/ Crash(i)
  PROVE  IInv'
<1> USE DEF IInv, RestTypes, RepositoryTypes, objects, repositories
<1> DEFINE BR == BoundedRec(source, delivered)
<1>1. rec[i] \in BR
  OBVIOUS
<1>2. /\ rec[i].plan \in Plan /\ rec[i].op \in BoundedOp(source)
      /\ rec[i].base \in BoundedMirror(source, delivered)
      /\ rec[i].op.name \in JobNames \cup {NoJob}
  BY <1>1 DEF BoundedRec, BoundedOp, Op
<1>3. ~At(i, "idle") /\ ~At(i, "list") => Stamped(rec[i])
  BY <1>1 DEF At, BoundedRec
<1>4. ASSUME Stamped(rec[i]), NEW p \in Pcs, rec' = [rec EXCEPT ![i].pc = p]
      PROVE  rec' \in [Instances -> BR]
  BY <1>1, <1>4, RecFields
<1>5. ASSUME Stamped(rec[i]), NEW p \in Pcs, NEW n \in JobNames \cup {NoJob},
             rec' = [rec EXCEPT ![i].pc = p, ![i].op.holder = n]
      PROVE  rec' \in [Instances -> BR]
  <2>1. [rec[i] EXCEPT !.pc = p, !.op.holder = n] \in BR
    BY <1>1, <1>5, RecFields
  <2>2. rec' = [rec EXCEPT ![i] = [rec[i] EXCEPT !.pc = p, !.op.holder = n]]
    BY <1>5
  <2> QED
    BY <2>1, <2>2
<1>6. CASE CreateLease(i)
  <2>1. Stamped(rec[i])
    BY <1>3, <1>6 DEF CreateLease, At
  <2>2. rec' \in [Instances -> BR]
    BY <1>4, <1>6, <2>1 DEF CreateLease, Pcs
  <2>3. lease' \in JobNames \cup {NoJob} /\ leaseCopies' \subseteq LeaseCopies
    BY <1>2, <1>6 DEF CreateLease
  <2> QED
    BY <1>6, <2>2, <2>3 DEF CreateLease
<1>7. CASE GetLease(i)
  <2>1. Stamped(rec[i])
    BY <1>3, <1>7 DEF GetLease, At
  <2>2. leaseCopies' \subseteq LeaseCopies
    BY <1>7 DEF GetLease, LeaseCopies
  <2>3. \/ ReturnError(i)
        \/ /\ \E p \in {"leaseUpdate", "holderGet"} :
                rec' = [rec EXCEPT ![i].pc = p, ![i].op.holder = SeenLease(i)]
           /\ UNCHANGED queued
    BY <1>7 DEF GetLease
  <2>4. SeenLease(i) \in JobNames \cup {NoJob}
    BY ReadsBounded
  <2>5. rec' \in [Instances -> BR] /\ queued' \in [Instances -> BOOLEAN]
    BY <1>5, <2>1, <2>3, <2>4, ReturnBounded DEF Pcs
  <2> QED
    BY <1>7, <2>2, <2>5 DEF GetLease
<1>8. CASE GetHolder(i)
  <2>1. Stamped(rec[i])
    BY <1>3, <1>8 DEF GetHolder, At
  <2>2. rec' \in [Instances -> BR] /\ armed' \in [Instances -> BOOLEAN]
    BY <1>4, <1>8, <2>1, ReturnBounded DEF GetHolder, Pcs
  <2> QED
    BY <1>8, <2>2 DEF GetHolder
<1>9. CASE UpdateLease(i)
  <2>1. Stamped(rec[i])
    BY <1>3, <1>9 DEF UpdateLease, At
  <2>2. \/ Return(i, TRUE) /\ UNCHANGED queued
        \/ ReturnError(i) /\ UNCHANGED armed
        \/ rec' = [rec EXCEPT ![i].pc = "createJob", ![i].op.holder = NoJob]
           /\ UNCHANGED <<queued, armed>>
    BY <1>9 DEF UpdateLease
  <2>3. /\ rec' \in [Instances -> BR] /\ armed' \in [Instances -> BOOLEAN]
        /\ queued' \in [Instances -> BOOLEAN]
    BY <1>5, <2>1, <2>2, ReturnBounded DEF Pcs
  <2>4. lease' \in JobNames \cup {NoJob} /\ leaseCopies' \subseteq LeaseCopies
    BY <1>2, <1>9 DEF UpdateLease
  <2> QED
    BY <1>9, <2>3, <2>4 DEF UpdateLease
<1>10. ASSUME jobs' \in BoundedJobs(source, delivered),
              queued' = Notified("jobs", jobs' # jobs)
       PROVE  queued' \in [Instances -> BOOLEAN]
  BY <1>10, NotifiedType
<1>11. CASE CreateJob(i)
  <2>1. jobs' \in BoundedJobs(source, delivered)
    BY <1>2, <1>11, JobsWithBounded DEF CreateJob
  <2>2. rec' \in [Instances -> BR]
    BY <1>3, <1>4, <1>11 DEF CreateJob, At, Pcs
  <2> QED
    BY <1>10, <1>11, <2>1, <2>2 DEF CreateJob
<1>12. CASE CreateJobFails(i)
  <2>1. jobs' \in BoundedJobs(source, delivered)
    BY <1>2, <1>12, JobsWithBounded DEF CreateJobFails
  <2>2. rec' \in [Instances -> BR]
    BY <1>3, <1>4, <1>12 DEF CreateJobFails, At, Pcs
  <2> QED
    BY <1>10, <1>12, <2>1, <2>2, MaxFaultsAssumption DEF CreateJobFails
<1>13. CASE UndoGet(i)
  <2>1. rec' \in [Instances -> BR] /\ queued' \in [Instances -> BOOLEAN]
    BY <1>3, <1>4, <1>13, ReturnBounded DEF UndoGet, At, Pcs
  <2> QED
    BY <1>13, <2>1 DEF UndoGet
<1>14. CASE UndoDelete(i)
  BY <1>14, ReturnBounded DEF UndoDelete, DeleteLease
<1>15. CASE ScheduledGet(i)
  <2>1. Stamped(rec[i])
    BY <1>3, <1>15 DEF ScheduledGet, At
  <2>2. [rec[i] EXCEPT !.pc = "scheduledPatch", !.base = SeenMirror(i)] \in BR
    BY <1>1, <2>1, ReadsBounded, RecFields DEF Pcs
  <2> QED
    BY <1>15, <2>2 DEF ScheduledGet
<1>16. CASE ScheduledPatch(i)
  <2>1. Stamped(rec[i])
    BY <1>3, <1>16 DEF ScheduledPatch, At
  <2>2. ApplyScheduled(rec[i].base, rec[i].op, rec[i].plan)
          \in BoundedMirror(source, delivered)
    BY <1>2, ApplyScheduledBounded
  <2>3. mirror' \in BoundedMirror(source, delivered) /\ queued' \in [Instances -> BOOLEAN]
    BY <1>2, <1>16, <2>2, PatchBounded DEF ScheduledPatch
  <2>4. [IdleRec EXCEPT !.pc = FallbackStage, !.plan = rec[i].plan] \in BR
    BY <1>2, <2>1, PlanBounded DEF FallbackStage, Pcs, Stamped
  <2>5. rec' \in [Instances -> BR] /\ armed' \in [Instances -> BOOLEAN]
    BY <1>16, <2>1, <2>4, ReturnBounded DEF ScheduledPatch, AfterScheduled
  <2> QED
    BY <1>16, <2>3, <2>5 DEF ScheduledPatch
<1>17. CASE Abort(i)
  BY <1>17, ReturnBounded, MaxFaultsAssumption DEF Abort
<1>18. CASE Crash(i)
  <2>1. hook' \in [Handlers -> BoundedHook(source, delivered)]
    BY <1>18, IdleBounded DEF Crash
  <2>2. rec' \in [Instances -> BR]
    BY <1>18, IdleBounded DEF Crash
  <2>3. /\ cache' \in [Instances -> BoundedCache(source, delivered)]
        /\ leaseCopies' \subseteq LeaseCopies
    BY <1>18, SyncBounded DEF Crash
  <2> QED
    BY <1>18, <2>1, <2>2, <2>3, MaxFaultsAssumption DEF Crash
<1> QED
  BY <1>6, <1>7, <1>8, <1>9, <1>11, <1>12, <1>13, <1>14, <1>15, <1>16, <1>17, <1>18

------------------------------------------------------------------------------
(***************************************************************************)
(* The specification.                                                      *)
(***************************************************************************)

\* The cluster starts with a new mirror, no Job but a legacy one, idle processes.
LEMMA InitBounded == Init => IInv
<1> SUFFICES ASSUME Init PROVE IInv
  OBVIOUS
<1>1. 0 \in Revisions /\ 1 \in Times \ {0} /\ 0 \in 0..MaxFaults /\ 0 \in 0..MaxGen
  BY MaxPushAssumption, MaxTickAssumption, MaxFaultsAssumption, MaxGenAssumption
     DEF Revisions, Times
<1>2. source = 0 /\ delivered = 0 /\ target = 0 /\ inbox = {}
  BY DEF Init, ClusterInit
<1>3. mirror \in BoundedMirror(source, delivered)
  BY <1>1, <1>2, NewMirrorBounded DEF Init, ClusterInit
<1>4. jobs \in BoundedJobs(source, delivered)
  <2>1. AbsentJob \in BoundedJob(0, 0) /\ NewJob(0, 0) \in BoundedJob(0, 0)
    BY <1>1, NewJobBounded
  <2> QED
    BY <1>2, <2>1 DEF Init, ClusterInit, BoundedJobs
<1>5. cache \in [Instances -> BoundedCache(source, delivered)]
  BY <1>3, <1>4 DEF Init, ClusterInit, BoundedCache
<1>6. hook \in [Handlers -> BoundedHook(source, delivered)]
  BY <1>1, <1>2, IdleBounded DEF Init, WebhookInit
<1>7. rec \in [Instances -> BoundedRec(source, delivered)]
  BY <1>1, <1>2, IdleBounded DEF Init, ReconcilerInit
<1>8. RestTypes /\ RepositoryTypes
  BY <1>1, <1>2 DEF Init, ClusterInit, RestTypes, RepositoryTypes
<1> QED
  BY <1>3, <1>4, <1>5, <1>6, <1>7, <1>8 DEF IInv

\* Every step of the operator and of its cluster keeps the copies bounded.
LEMMA NextBounded == IInv /\ [Next]_vars => IInv'
<1> SUFFICES ASSUME IInv, [Next]_vars PROVE IInv'
  OBVIOUS
<1>1. CASE ClusterNext /\ UNCHANGED <<hook, rec>>
  BY <1>1, ClusterBounded
<1>2. CASE WebhookNext /\ UNCHANGED rec
  BY <1>2, WebhookNextBounded
<1>3. CASE ReconcilerNext
  BY <1>3, StagesBounded, SchedulingBounded DEF ReconcilerNext
<1>4. CASE UNCHANGED vars
  BY <1>4 DEF vars, IInv, RestTypes, RepositoryTypes
<1> QED
  BY <1>1, <1>2, <1>3, <1>4 DEF Next

\* Bounded copies are copies.
LEMMA BoundedTypes == IInv => TypeOK
<1> SUFFICES ASSUME IInv PROVE TypeOK
  OBVIOUS
<1> USE DEF IInv
<1>1. /\ BoundedMirror(source, delivered) \subseteq Mirror
      /\ BoundedJob(source, delivered) \subseteq Job
      /\ BoundedOp(source) \subseteq Op
  BY DEF BoundedMirror, BoundedJob, BoundedOp
<1>2. BoundedJobs(source, delivered) \subseteq [JobNames -> Job]
  BY <1>1 DEF BoundedJobs
<1>3. BoundedCache(source, delivered) \subseteq Caches
  BY <1>1, <1>2 DEF BoundedCache, Caches
<1>4. BoundedHook(source, delivered) \subseteq Hook
  BY <1>1 DEF BoundedHook, Hook
<1>5. BoundedListed(source, delivered) \subseteq Listed
  BY <1>1 DEF BoundedListed, Listed
<1>6. BoundedRec(source, delivered) \subseteq Rec
  BY <1>1, <1>5 DEF BoundedRec, Rec
<1>7. RestTypes /\ RepositoryTypes
  OBVIOUS
<1> QED
  BY <1>1, <1>2, <1>3, <1>4, <1>6, <1>7 DEF TypeOK, RestTypes, RepositoryTypes

\* Every copy of a status or of a Job stays bounded by the repositories.
THEOREM Invariance == Spec => []IInv
BY InitBounded, NextBounded, PTL DEF Spec

\* The variables keep their types.
THEOREM TypeCorrect == Spec => []TypeOK
BY Invariance, BoundedTypes, PTL

\* lastMirroredRevision names a revision the target has shown, for any number of
\* instances and handlers, however old their caches.
THEOREM MirroredDelivered == Spec => []MirroredRevisionDelivered
<1>1. IInv => MirroredRevisionDelivered
  BY DEF IInv, BoundedMirror, MirroredRevisionDelivered
<1> QED
  BY <1>1, Invariance, PTL
==============================================================================
