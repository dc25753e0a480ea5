----------------------- MODULE OperatorExclusionProofs -----------------------
(***************************************************************************)
(* One sync Job of a generation at a time, for every bound, any number of  *)
(* handlers, lagging caches, crashes, failed calls, expiring Jobs, spec    *)
(* changes and schedules together, as long as the steps of Undisturbed     *)
(* alone are taken; while the spec stands, the target therefore never goes *)
(* back, and the operator implements the strict contract.                  *)
(*                                                                         *)
(* The Lease alone does not exclude: it is released by name, taken over    *)
(* from a Job of another generation, and the follow-up is created without  *)
(* a look at the list of active Jobs.  The invariant says why nothing is   *)
(* created beside a running Job all the same: a Job that runs holds the    *)
(* Lease, or is of an older generation than any Job this Reconcile or a    *)
(* later one will create.                                                  *)
(***************************************************************************)
EXTENDS StatusProofs, ContractProofs

Exists(n) == JobExists(jobs[n])
Running(n) == JobRunning(jobs[n])
Gen(n) == jobs[n].gen

Acquiring(i) ==
  rec[i].pc \in {"leaseCreate", "leaseGet", "holderGet", "leaseUpdate", "createJob",
                 "undoGet", "undoDelete"}
Recording(i) == rec[i].pc \in {"scheduledGet", "scheduledPatch"}
Followup(i) == ResyncJob(rec[i].plan.stamp)

\* Reconcile is in reconcileFallback.
InFallback(i) == rec[i].pc \in {"fallback", "untilNext"}

\* The finished Jobs the Reconcile has in hand.
InHand(i) ==
  rec[i].todo \cup (IF rec[i].pc \in {"completedPatch", "releaseGet", "releaseDelete"}
                    THEN {rec[i].done} ELSE {})

\* Only the legacy Job has no generation, and none is newer than the mirror.
GensExist ==
  \A n \in JobNames : Exists(n) => Gen(n) <= mirror.gen /\ (Gen(n) = 0 <=> n = LegacyJob)

\* What is scheduled, and what is left to record, by the place in Reconcile.
Shape(i) ==
  /\ rec[i].pc \in {"idle", "list", "completed", "completedPatch", "generation", "pending",
                    "fallback", "untilNext"} => Kind(i) = "none"
  /\ rec[i].pc \in {"releaseGet", "releaseDelete"} =>
       Kind(i) = IF rec[i].followup THEN "followup" ELSE "none"
  /\ Acquiring(i) => Kind(i) \in {"followup", "generation", "pending", "fallback"}
  /\ Recording(i) => Kind(i) # "none"
  /\ Kind(i) \in {"generation", "pending", "fallback", "coalesce"}
       \/ rec[i].pc \in {"generation", "pending", "fallback", "untilNext"} => rec[i].todo = {}
  /\ Kind(i) \in {"generation", "pending", "fallback"}
       \/ rec[i].pc \in {"generation", "pending"} => ~rec[i].plan.active
  /\ Kind(i) = "coalesce" => rec[i].plan.active
  /\ rec[i].pc \in {"undoGet", "undoDelete"} => ~Running(rec[i].op.name)

\* The generation and the name of the Job being scheduled.
OpFits(i) ==
  /\ At(i, "list") => rec[i].base.gen \in 1..mirror.gen
  /\ Past(i) => rec[i].plan.gen \in 1..mirror.gen /\ rec[i].plan.stamp \in Stamps
  /\ Kind(i) \in {"followup", "fallback"} => rec[i].op.gen = rec[i].plan.gen
  /\ Kind(i) \in {"generation", "pending"} => rec[i].op.gen \in rec[i].plan.gen..mirror.gen
  /\ Kind(i) = "followup" => rec[i].op.name = Followup(i)
  /\ Kind(i) = "fallback" => rec[i].op.name = ScheduledJob(rec[i].plan.stamp)
  /\ Kind(i) = "generation" => \E g \in Generations : rec[i].op.name = GenerationJob(g)
  /\ Kind(i) = "pending" => \E d \in 1..Scheduled : rec[i].op.name = DeliveryJob(d)

\* A pending sync has a delivery to be named by.
DeliveryKnown(i) ==
  LET d == mirror.status.delivery IN
  /\ mirror.status.pending => d # 0
  /\ \A k \in Instances : cache[k].mirror.status.delivery # 0 => d # 0
  /\ \A h \in Handlers : /\ hook[h].base.status.delivery # 0 => d # 0
                         /\ hook[h].pc # "idle"
                              => hook[h].delivery # 0 /\ hook[h].host \in Instances
  /\ rec[i].base.status.delivery # 0 => d # 0

\* Beside the legacy Job no other is created.
LegacyAlone(i) ==
  Running(LegacyJob) =>
    /\ \A n \in JobNames \ {LegacyJob} : ~Exists(n)
    /\ Past(i) => rec[i].plan.active /\ InHand(i) = {} /\ Kind(i) \in {"none", "coalesce"}

\* The Jobs in hand are as they were listed, and are not the one a follow-up will be.
ListedFinished(i) ==
  Past(i) => \A l \in InHand(i) : l.name # Followup(i) /\ GoodCopy(jobs, l.name, l.job)

\* Jobs newer than the plan are made by this Reconcile only.
NoneNewer(i) ==
  /\ At(i, "list") => \A n \in JobNames : Exists(n) => Gen(n) <= rec[i].base.gen
  /\ Past(i) /\ ~InFallback(i) =>
       \A n \in JobNames : Exists(n) =>
         Gen(n) <= rec[i].plan.gen
           \/ Kind(i) = "coalesce"
           \/ (Recording(i) /\ n = rec[i].op.name /\ Gen(n) <= rec[i].op.gen)

\* What was read of the Lease is still so.
LeaseRead(i) ==
  /\ At(i, "releaseDelete") => lease = rec[i].done.name
  /\ At(i, "createJob") \/ At(i, "undoDelete") => lease = rec[i].op.name
  /\ At(i, "holderGet") \/ At(i, "leaseUpdate") => lease = rec[i].op.holder
  /\ At(i, "leaseUpdate") =>
       \/ rec[i].op.holder \in {NoJob, rec[i].op.name}
       \/ ~JobNameActiveForGeneration(jobs, rec[i].op.holder, rec[i].op.gen)

\* Neither this Reconcile nor a later one creates a Job beside one of generation g.
LeftAlone(i, g) ==
  /\ mirror.gen > g
  /\ At(i, "list") => rec[i].base.gen > g
  /\ Past(i) =>
       \/ rec[i].plan.gen > g
       \/ Kind(i) \in {"generation", "pending"} /\ rec[i].op.gen > g
       \/ InFallback(i) \/ Kind(i) = "coalesce"

LeaseKept(i) ==
  \A n \in JobNames \ {LegacyJob} : Running(n) => lease = n \/ LeftAlone(i, Gen(n))

ExclusionInv(i) ==
  /\ OneActiveJob /\ GensExist /\ Shape(i) /\ OpFits(i)
  /\ DeliveryKnown(i) /\ LegacyAlone(i) /\ ListedFinished(i) /\ NoneNewer(i)
  /\ LeaseRead(i) /\ LeaseKept(i)

------------------------------------------------------------------------------
(***************************************************************************)
(* Lemmas about the data.                                                  *)
(***************************************************************************)

\* Names of Jobs of different kinds differ.
LEMMA NamesDiffer ==
  /\ \A k : /\ ResyncJob(k) \notin {NoJob, LegacyJob}
            /\ ScheduledJob(k) \notin {NoJob, LegacyJob}
            /\ GenerationJob(k) \notin {NoJob, LegacyJob}
            /\ DeliveryJob(k) \notin {NoJob, LegacyJob}
  /\ \A k, l : /\ ResyncJob(k) # ScheduledJob(l)
               /\ GenerationJob(k) \notin {ResyncJob(l), ScheduledJob(l)}
               /\ DeliveryJob(k) \notin {ResyncJob(l), ScheduledJob(l)}
  /\ NoJob \notin JobNames /\ LegacyJob \in JobNames
BY DEF ResyncJob, ScheduledJob, GenerationJob, DeliveryJob, NoJob, LegacyJob, JobNames

\* A Job is absent, runs or is finished.
LEMMA Phases ==
  /\ \A j : JobRunning(j) => JobExists(j) /\ ~JobFinished(j)
  /\ \A j : JobFinished(j) => JobExists(j) /\ ~JobRunning(j)
  /\ \A j \in Job : JobExists(j) => JobRunning(j) \/ JobFinished(j)
  /\ ~JobExists(AbsentJob)
  /\ \A g, v : JobRunning(NewJob(g, v)) /\ NewJob(g, v).gen = g
BY DEF JobExists, JobRunning, JobFinished, RunningPhases, FinishedPhases, Job, AbsentJob, NewJob

\* What shows of a Job.
LEMMA Shown ==
  ASSUME NEW j \in Job
  PROVE  /\ JobRunning(Visible(j)) <=> JobRunning(j)
         /\ JobExists(Visible(j)) <=> JobExists(j)
         /\ JobFinished(Visible(j)) <=> JobFinished(j)
         /\ JobFinished(j) => Visible(j) = j
         /\ Visible(j).gen = j.gen
BY Phases DEF Visible, NewJob

\* Generations are numbers.
LEMMA Numbers ==
  /\ \A m \in Mirror : m.gen \in Nat /\ m.gen >= 1 /\ m.gen <= MaxGen
  /\ \A j \in Job : j.gen \in Nat
  /\ \A r \in Rec : /\ r.plan.gen \in Nat /\ r.op.gen \in Nat /\ r.base.gen \in Nat
                    /\ r.plan.stamp \in 0..MaxStamp /\ r.base \in Mirror /\ r.op \in Op
                    /\ r.done.name \in JobNames /\ \A l \in r.todo : l.name \in JobNames
BY MaxGenAssumption DEF Mirror, Generations, Job, Rec, Plan, Op, Listed

\* The types, piece by piece.
LEMMA Typed ==
  ASSUME TypeOK, NEW i \in Instances
  PROVE  /\ i \in Instances /\ rec[i] \in Rec /\ mirror \in Mirror
         /\ rec \in [Instances -> Rec]
         /\ \A n \in JobNames : jobs[n] \in Job
         /\ lease \in JobNames \cup {NoJob}
BY DEF TypeOK

------------------------------------------------------------------------------
(***************************************************************************)
(* Steps of the cluster and of the handlers.  They create no Job and leave *)
(* the Lease alone; a Job that ends, or expires, excludes nothing.         *)
(***************************************************************************)

\* What others may do to the Jobs and to the mirror.
Beside ==
  /\ lease' = lease
  /\ mirror'.gen \in {mirror.gen, mirror.gen + 1}
  /\ \A n \in JobNames :
       /\ Running(n)' => Running(n)
       /\ Exists(n)' => Exists(n) /\ Gen(n)' = Gen(n)
       /\ Exists(n)' /\ JobFinished(jobs[n]) => jobs'[n] = jobs[n]

\* Pushes, Jobs and informers do not get in the way of the Reconcile, nor do users of
\* the spec: a generation only grows.
LEMMA ClusterBeside ==
  ASSUME TypeOK, ClusterNext
  PROVE  Beside
<1> USE DEF Beside, Running, Exists, Gen
<1>1. /\ \A n \in JobNames : jobs[n] \in Job
      /\ jobs \in [JobNames -> Job] /\ mirror \in Mirror
  BY DEF TypeOK
<1>2. ASSUME NEW k \in JobNames,
             JobClones(k) \/ JobPushes(k) \/ JobSucceeds(k) \/ JobFails(k) \/ JobExpires(k)
      PROVE  Beside
  <2>1. lease' = lease /\ mirror' = mirror
    BY <1>2 DEF JobClones, JobPushes, JobSucceeds, JobFails, JobExpires, SetJob
  <2>2. /\ \A n \in JobNames \ {k} : jobs'[n] = jobs[n]
        /\ jobs'[k].gen = jobs[k].gen \/ jobs'[k] = AbsentJob
        /\ jobs'[k] = AbsentJob \/ JobExists(jobs'[k])
    <3> USE DEF JobExists, Job, AbsentJob
    <3>1. CASE JobClones(k)
      BY <1>1, <3>1 DEF JobClones
    <3>2. CASE JobPushes(k)
      BY <1>1, <3>2 DEF JobPushes
    <3>3. CASE JobSucceeds(k)
      BY <1>1, <3>3 DEF JobSucceeds, SetJob
    <3>5. CASE JobFails(k)
      BY <1>1, <3>5 DEF JobFails, SetJob
    <3>4. CASE JobExpires(k)
      BY <1>1, <3>4 DEF JobExpires, SetJob
    <3> QED
      BY <1>2, <3>1, <3>2, <3>3, <3>4, <3>5
  <2>3. JobRunning(jobs[k]) \/ (JobFinished(jobs[k]) /\ jobs'[k] = AbsentJob)
    BY <1>1, <1>2 DEF JobClones, JobPushes, JobSucceeds, JobFails, JobExpires, SetJob,
         JobRunning, RunningPhases
  <2> QED
    BY <1>1, <2>1, <2>2, <2>3, Phases
<1>3. ASSUME NEW k \in Instances, RefreshMirror(k) \/ RefreshJobs(k) \/ RefreshLease(k)
                                    \/ TimerFires(k) \/ Resync(k)
      PROVE  Beside
  BY <1>1, <1>3
     DEF RefreshMirror, RefreshJobs, RefreshLease, TimerFires, Resync, objects
<1>4. CASE \/ Tick \/ Push \/ \E d \in Deliveries : Redeliver(d) \/ LoseDelivery(d)
  BY <1>1, <1>4 DEF Tick, Push, Redeliver, LoseDelivery, objects
<1>5. CASE ChangeSpec
  BY <1>1, <1>5 DEF ChangeSpec, Mirror
<1> QED
  BY <1>2, <1>3, <1>4, <1>5 DEF ClusterNext

\* The handlers leave the generation, the Jobs and the Lease as they are.
LEMMA WebhookBeside ==
  ASSUME TypeOK, WebhookNext
  PROVE  Beside
<1> USE DEF Beside, Running, Exists, Gen
<1>1. ASSUME NEW h \in Handlers, HookPatch(h)
      PROVE  Beside
  <2>1. mirror \in Mirror /\ jobs' = jobs /\ lease' = lease
    BY <1>1 DEF HookPatch, TypeOK
  <2>2. mirror'.gen = mirror.gen
    BY <1>1, <2>1 DEF HookPatch, PatchMirror, MergePatch, Mirror
  <2> QED
    BY <2>1, <2>2
<1>2. CASE ~\E h \in Handlers : HookPatch(h)
  BY <1>2 DEF WebhookNext, HandleGitHub, HookGet, HookFails, objects
<1> QED
  BY <1>1, <1>2

\* A handler has a delivery in hand and writes its name.
LEMMA WebhookKnows ==
  ASSUME TypeOK, NEW i \in Instances, DeliveryKnown(i), WebhookNext, UNCHANGED rec
  PROVE  DeliveryKnown(i)'
<1>1. hook \in [Handlers -> Hook] /\ mirror \in Mirror /\ inbox \subseteq Deliveries
      /\ (\A d \in Deliveries : d # 0)
  BY DEF TypeOK, Deliveries
<1>6. cache' = cache
  BY DEF WebhookNext, HandleGitHub, HookGet, HookPatch, HookFails, objects
<1>2. ASSUME NEW h \in Handlers, NEW k \in Instances, NEW d \in Deliveries,
             HandleGitHub(h, k, d)
      PROVE  DeliveryKnown(i)'
  <2>1. mirror' = mirror /\ d # 0
    BY <1>1, <1>2 DEF HandleGitHub, objects
  <2>2. \A g \in Handlers : /\ hook'[g].base = hook[g].base
                            /\ \/ hook'[g] = hook[g]
                               \/ hook'[g].delivery = d /\ hook'[g].host = k
    BY <1>1, <1>2 DEF HandleGitHub, Hook
  <2> QED
    BY <1>6, <2>1, <2>2 DEF DeliveryKnown
<1>3. ASSUME NEW h \in Handlers, HookGet(h)
      PROVE  DeliveryKnown(i)'
  <2>1. mirror' = mirror /\ hook[h].pc # "idle"
    BY <1>3 DEF HookGet, objects
  <2>2. \A g \in Handlers : /\ hook'[g].delivery = hook[g].delivery
                            /\ hook'[g].host = hook[g].host
                            /\ hook'[g] = hook[g]
                                 \/ (hook'[g].base = SeenMirror(hook[h].host)
                                      /\ hook[g].pc # "idle")
    BY <1>1, <1>3 DEF HookGet, Hook
  <2>3. SeenMirror(hook[h].host).status.delivery # 0 => mirror.status.delivery # 0
    BY <2>1 DEF SeenMirror, DeliveryKnown
  <2> QED
    BY <1>6, <2>1, <2>2, <2>3 DEF DeliveryKnown
<1>4. ASSUME NEW h \in Handlers, HookPatch(h)
      PROVE  DeliveryKnown(i)'
  <2> DEFINE base == hook[h].base
             new == ApplyWebhookIntent(base, hook[h].delivery, hook[h].delivery)
  <2>1. base \in Mirror
    BY <1>1 DEF Hook
  <2>2. PatchMirror(base, new) /\ hook[h].pc = "patch"
        /\ hook' = [hook EXCEPT ![h] = IdleHook]
    BY <1>4 DEF HookPatch
  <2>3. new.status.delivery = hook[h].delivery
    BY <2>1, IntentChanges
  <2> HIDE DEF base, new
  <2>4. mirror'.status.delivery
          = Patched(base.status.delivery, new.status.delivery, mirror.status.delivery)
    BY <1>1, <2>1, <2>2, PatchTakes
  <2>5. mirror'.status.delivery # 0
    BY <2>2, <2>3, <2>4 DEF Patched, DeliveryKnown, base
  <2>6. \A g \in Handlers : hook'[g] \in {hook[g], IdleHook}
    BY <1>1, <2>2
  <2> QED
    BY <1>6, <2>5, <2>6 DEF DeliveryKnown, IdleHook, NewMirror
<1>5. ASSUME NEW h \in Handlers, HookFails(h)
      PROVE  DeliveryKnown(i)'
  <2>1. mirror' = mirror /\ \A g \in Handlers : hook'[g] \in {hook[g], IdleHook}
    BY <1>1, <1>5 DEF HookFails, objects
  <2> QED
    BY <1>6, <2>1 DEF DeliveryKnown, IdleHook, NewMirror
<1> QED
  BY <1>2, <1>3, <1>4, <1>5 DEF WebhookNext

\* A cache that catches up knows what the server knows.
LEMMA ClusterKnows ==
  ASSUME TypeOK, NEW i \in Instances, DeliveryKnown(i), ClusterNext, UNCHANGED <<hook, rec>>
  PROVE  DeliveryKnown(i)'
<1>1. mirror \in Mirror /\ cache \in [Instances -> Caches]
  BY DEF TypeOK
<1>2. /\ mirror'.status = mirror.status
      /\ \A k \in Instances : cache'[k].mirror \in {cache[k].mirror, mirror}
  <2>1. ASSUME NEW k \in Instances, RefreshMirror(k) \/ RefreshJobs(k) \/ RefreshLease(k)
                                      \/ TimerFires(k) \/ Resync(k)
        PROVE  /\ mirror' = mirror
               /\ \A l \in Instances : cache'[l].mirror \in {cache[l].mirror, mirror}
    BY <1>1, <2>1
       DEF RefreshMirror, RefreshJobs, RefreshLease, TimerFires, Resync, objects, Caches
  <2>2. ASSUME NEW n \in JobNames,
               JobClones(n) \/ JobPushes(n) \/ JobSucceeds(n) \/ JobFails(n) \/ JobExpires(n)
        PROVE  mirror' = mirror /\ cache' = cache
    BY <2>2 DEF JobClones, JobPushes, JobSucceeds, JobFails, JobExpires, SetJob
  <2>3. CASE \/ Tick \/ Push \/ \E d \in Deliveries : Redeliver(d) \/ LoseDelivery(d)
    BY <2>3 DEF Tick, Push, Redeliver, LoseDelivery, objects
  <2>4. CASE ChangeSpec
    BY <1>1, <2>4 DEF ChangeSpec, Mirror
  <2> QED
    BY <2>1, <2>2, <2>3, <2>4 DEF ClusterNext
<1> QED
  BY <1>2 DEF DeliveryKnown

\* What the others do keeps the invariant: fewer Jobs run, and a finished Job stays as
\* it is until it expires.
LEMMA BesideKeeps ==
  ASSUME TypeOK, NEW i \in Instances, ExclusionInv(i), Beside, UNCHANGED rec,
         DeliveryKnown(i)'
  PROVE  ExclusionInv(i)'
<1> USE DEF Beside, Exists, Running, Gen, At, Kind, Past, Recording, Acquiring, Followup,
            InHand, InFallback
<1>1. /\ mirror.gen \in Nat /\ mirror'.gen \in Nat /\ mirror.gen <= mirror'.gen
      /\ rec[i].plan.gen \in Nat /\ rec[i].op.gen \in Nat /\ rec[i].base.gen \in Nat
      /\ \A n \in JobNames : jobs[n] \in Job /\ jobs[n].gen \in Nat
      /\ rec[i] \in Rec /\ rec'[i] = rec[i] /\ i \in Instances
  BY Typed, Numbers
<1>2. OneActiveJob'
  BY <1>1, Phases DEF ExclusionInv, OneActiveJob, SameGeneration
<1>3. GensExist'
  BY <1>1 DEF ExclusionInv, GensExist
<1>4. Shape(i)'
  <2>1. Acquiring(i) => rec[i].op.name \in JobNames
    BY NamesType DEF ExclusionInv, Shape, OpFits
  <2> QED
    BY <1>1, <2>1 DEF ExclusionInv, Shape
<1>5. OpFits(i)'
  BY <1>1 DEF ExclusionInv, OpFits
<1>6. LegacyAlone(i)'
  BY <1>1, Phases, NamesDiffer DEF ExclusionInv, LegacyAlone
<1>7. ListedFinished(i)'
  <2>1. \A l \in InHand(i) : l.name \in JobNames
    BY <1>1, Numbers
  <2> QED
    BY <1>1, <2>1 DEF ExclusionInv, ListedFinished, GoodCopy
<1>8. NoneNewer(i)'
  BY <1>1 DEF ExclusionInv, NoneNewer
<1>9. LeaseRead(i)'
  <2>1. rec[i].op.holder \in JobNames \cup {NoJob}
    BY <1>1 DEF Rec, Op
  <2> QED
    BY <1>1, <2>1, Phases
       DEF ExclusionInv, LeaseRead, JobNameActiveForGeneration, JobActive, JobGenerationMatches
<1>12. LeaseKept(i)'
  BY <1>1, Phases DEF ExclusionInv, LeaseKept, LeftAlone
<1> QED
  BY <1>2, <1>3, <1>4, <1>5, <1>6, <1>7, <1>8, <1>9, <1>12 DEF ExclusionInv

------------------------------------------------------------------------------
(***************************************************************************)
(* Steps of the Reconcile that create no Job, by where they go: back to    *)
(* the queue, to the next stage, on with acquiring the Lease.              *)
(***************************************************************************)

\* A Reconcile that ends forgets what it had read.
LEMMA IdleKeeps ==
  ASSUME TypeOK, NEW i \in Instances, ExclusionInv(i), rec'[i] = IdleRec,
         mirror'.gen = mirror.gen, jobs' = jobs, DeliveryKnown(i)', LeaseKept(i)'
  PROVE  ExclusionInv(i)'
<1> USE DEF Exists, Running, Gen, At, Kind, Past, Recording, Acquiring, InHand,
            InFallback
<1>1. rec'[i].pc = "idle" /\ rec'[i].op.kind = "none"
  BY DEF IdleRec, NoOp
<1>2. OneActiveJob' /\ GensExist'
  BY DEF ExclusionInv, OneActiveJob, SameGeneration, GensExist
<1>3. Shape(i)' /\ OpFits(i)'
  BY <1>1 DEF Shape, OpFits
<1>4. LegacyAlone(i)' /\ ListedFinished(i)' /\ NoneNewer(i)'
  BY <1>1 DEF ExclusionInv, LegacyAlone, ListedFinished, NoneNewer
<1>5. LeaseRead(i)'
  BY <1>1 DEF LeaseRead
<1> QED
  BY <1>2, <1>3, <1>4, <1>5 DEF ExclusionInv

\* The next finished Job, or the next of the reconcile functions.
LEMMA NextStageKeeps ==
  ASSUME TypeOK, NEW i \in Instances, ExclusionInv(i),
         Past(i), ~InFallback(i),
         rec'[i].pc \in {"completed", "generation", "pending", "fallback"},
         rec'[i].pc \in {"generation", "pending"} => ~rec[i].plan.active,
         rec'[i].pc # "completed" => rec'[i].todo = {},
         rec'[i].plan = rec[i].plan, rec'[i].todo \subseteq rec[i].todo,
         rec'[i].op.kind = "none",
         Kind(i) \in {"none", "followup"} \/ (Kind(i) = "pending" /\ At(i, "fallback")'),
         mirror'.gen = mirror.gen, jobs' = jobs, DeliveryKnown(i)', LeaseKept(i)'
  PROVE  ExclusionInv(i)'
<1> USE DEF Exists, Running, Gen, At, Kind, Past, Recording, Acquiring, InHand, Followup,
            InFallback
<1>1. OneActiveJob' /\ GensExist'
  BY DEF ExclusionInv, OneActiveJob, SameGeneration, GensExist
<1>2. Shape(i)' /\ LeaseRead(i)'
  BY DEF Shape, LeaseRead
<1>3. OpFits(i)'
  BY DEF ExclusionInv, OpFits
<1>4. LegacyAlone(i)' /\ ListedFinished(i)'
  BY DEF ExclusionInv, LegacyAlone, ListedFinished
<1>5. NoneNewer(i)'
  BY DEF ExclusionInv, NoneNewer, Shape, OpFits
<1> QED
  BY <1>1, <1>2, <1>3, <1>4, <1>5 DEF ExclusionInv

\* To createLockedSyncJob of a follow-up, or on from one of its calls to the next.
LEMMA AcquiringKeeps ==
  ASSUME TypeOK, NEW i \in Instances, ExclusionInv(i), Acquiring(i)',
         \/ Acquiring(i)
         \/ Kind(i) = "followup" /\ rec[i].pc \in {"releaseGet", "releaseDelete"},
         rec'[i].pc \in {"undoGet", "undoDelete"} => ~Running(rec[i].op.name),
         rec'[i].plan = rec[i].plan, rec'[i].todo = rec[i].todo, rec'[i].base = rec[i].base,
         rec'[i].op.kind = rec[i].op.kind, rec'[i].op.name = rec[i].op.name,
         rec'[i].op.gen = rec[i].op.gen,
         mirror' = mirror, jobs' = jobs, hook' = hook, cache' = cache,
         LeaseRead(i)', LeaseKept(i)'
  PROVE  ExclusionInv(i)'
<1> USE DEF Exists, Running, Gen, At, Kind, Past, Recording, Acquiring, InHand, Followup,
            InFallback
<1>1. OneActiveJob' /\ GensExist' /\ DeliveryKnown(i)'
  BY DEF ExclusionInv, OneActiveJob, SameGeneration, GensExist, DeliveryKnown
<1>2. Shape(i)'
  BY DEF ExclusionInv, Shape
<1>3. OpFits(i)'
  BY DEF ExclusionInv, OpFits
<1>4. LegacyAlone(i)' /\ ListedFinished(i)'
  BY DEF ExclusionInv, LegacyAlone, ListedFinished
<1>5. NoneNewer(i)'
  BY DEF ExclusionInv, NoneNewer
<1> QED
  BY <1>1, <1>2, <1>3, <1>4, <1>5 DEF ExclusionInv

\* What was left alone stays so while nothing moves.
LEMMA LeaseStillKept ==
  ASSUME NEW i, LeaseKept(i), lease' = lease, jobs' = jobs, mirror' = mirror,
         rec'[i].pc \in {"idle", "list"} \/ (Past(i) /\ rec'[i].plan = rec[i].plan),
         Past(i)' => \/ rec'[i] = rec[i]
                     \/ Acquiring(i) /\ Acquiring(i)' /\ rec'[i].op.gen = rec[i].op.gen
                          /\ rec'[i].op.kind = rec[i].op.kind
                     \/ Kind(i) \in {"none", "followup"} /\ ~InFallback(i),
         Shape(i), rec'[i].pc = "list" => rec'[i].base = mirror
  PROVE  LeaseKept(i)'
BY DEF LeaseKept, LeftAlone, Exists, Running, Gen, At, Kind, Past, Recording, Acquiring,
       InFallback, Shape

------------------------------------------------------------------------------
(***************************************************************************)
(* Reconcile starts and lists the Jobs.                                    *)
(***************************************************************************)
\* The copy Reconcile starts from is current.
LEMMA StartKeeps ==
  ASSUME TypeOK, NEW i \in Instances, ExclusionInv(i), Start(i), SeenMirror(i) = mirror
  PROVE  ExclusionInv(i)'
<1> USE DEF Exists, Running, Gen, At, Kind, Past, Recording, Acquiring, InHand, InFallback
<1>1. /\ mirror' = mirror /\ jobs' = jobs /\ lease' = lease /\ hook' = hook
      /\ cache' = cache /\ rec[i].pc = "idle"
  BY DEF Start, objects
<1>2. rec'[i].pc = "list" /\ rec'[i].base = mirror /\ rec'[i].op = rec[i].op
  BY Typed DEF Start, Rec
<1>3. mirror.gen \in 1..mirror.gen /\ mirror.gen \in Nat
  BY Typed, Numbers
<1>4. OneActiveJob' /\ GensExist' /\ DeliveryKnown(i)'
  BY <1>1, <1>2 DEF ExclusionInv, OneActiveJob, SameGeneration, GensExist, DeliveryKnown
<1>5. Shape(i)' /\ OpFits(i)'
  BY <1>1, <1>2, <1>3 DEF ExclusionInv, Shape, OpFits
<1>6. LegacyAlone(i)' /\ ListedFinished(i)' /\ NoneNewer(i)'
  BY <1>1, <1>2 DEF ExclusionInv, LegacyAlone, ListedFinished, NoneNewer,
     GensExist
<1>7. LeaseRead(i)'
  BY <1>1, <1>2 DEF ExclusionInv, LeaseRead, Shape
<1>8. LeaseKept(i)'
  BY <1>1, <1>2 DEF ExclusionInv, LeaseKept, LeftAlone
<1> QED
  BY <1>4, <1>5, <1>6, <1>7, <1>8 DEF ExclusionInv

\* What jobsForGeneration leaves of the list, and what of that is to be recorded.
LEMMA Lists ==
  ASSUME TypeOK, NEW i \in Instances, ListJobs(i), SeenJobs(i) = VisibleJobs(jobs)
  PROVE  LET base == rec[i].base
             r == rec'[i] IN
         /\ r.pc = CompletedStage(r.plan, r.todo)
         /\ r.op.kind = "none" /\ r.base.status.delivery = 0
         /\ r.plan.gen = base.gen /\ r.plan.stamp \in Stamps
         /\ ~Exists(ResyncJob(r.plan.stamp)) /\ ~Exists(ScheduledJob(r.plan.stamp))
         /\ r.plan.active
              <=> \E n \in JobNames : Running(n) /\ JobGenerationMatches(jobs[n], base.gen)
         /\ \A l \in r.todo :
              /\ l.name \in JobNames /\ JobFinished(l.job) /\ jobs[l.name] = l.job
              /\ JobGenerationMatches(l.job, base.gen)
<1> DEFINE m == rec[i].base
           listed == JobsForGeneration(SeenJobs(i), m.gen)
           todo == {[name |-> n, job |-> listed[n]] :
                      n \in {n \in JobNames : RecordsCompletion(m, listed, n)}}
           plan(k) == [gen |-> m.gen,
                       unobserved |-> m.status.observed # m.gen,
                       pending |-> m.status.pending,
                       triggered |-> m.status.triggered,
                       active |-> ActiveJobExists(listed),
                       now |-> clock, stamp |-> k]
<1>1. PICK k \in Stamps :
        /\ NextStamp(k)
        /\ rec' = [rec EXCEPT ![i] = [IdleRec EXCEPT !.pc = CompletedStage(plan(k), todo),
                                                     !.plan = plan(k), !.todo = todo]]
  BY DEF ListJobs
<1>2. /\ rec'[i].pc = CompletedStage(plan(k), todo)
      /\ rec'[i].plan = plan(k) /\ rec'[i].todo = todo
      /\ rec'[i].op.kind = "none" /\ rec'[i].base.status.delivery = 0
  <2> HIDE DEF plan, todo
  <2> QED
    BY <1>1, Typed DEF IdleRec, NoOp, NewMirror
<1>3. /\ rec'[i].plan.gen = m.gen /\ rec'[i].plan.stamp = k
      /\ rec'[i].plan.active = ActiveJobExists(listed)
  BY <1>2
<1>4. ~Exists(ResyncJob(k)) /\ ~Exists(ScheduledJob(k))
  BY <1>1, NamesType DEF NextStamp, FreshStamps, NamesInUse, PresentJobs, Exists
<1>5. ASSUME NEW n \in JobNames
      PROVE  /\ JobGenerationMatches(jobs[n], m.gen) =>
                  listed[n] = Visible(jobs[n])
             /\ ~JobGenerationMatches(jobs[n], m.gen) => listed[n] = AbsentJob
             /\ JobRunning(Visible(jobs[n])) <=> Running(n)
             /\ JobExists(Visible(jobs[n])) <=> Exists(n)
             /\ JobFinished(Visible(jobs[n])) => Visible(jobs[n]) = jobs[n]
  <2>1. /\ listed[n] = IF JobGenerationMatches(Visible(jobs[n]), m.gen)
                       THEN Visible(jobs[n]) ELSE AbsentJob
        /\ jobs[n] \in Job
    BY Typed DEF JobsForGeneration, VisibleJobs
  <2> QED
    BY <2>1, Shown DEF JobGenerationMatches, Running, Exists
<1> HIDE DEF listed, plan, m
<1>6. ActiveJobExists(listed)
        <=> \E n \in JobNames : Running(n) /\ JobGenerationMatches(jobs[n], m.gen)
  BY <1>5, Phases DEF ActiveJobExists, JobActive
<1>7. ASSUME NEW n \in JobNames, RecordsCompletion(m, listed, n)
      PROVE  /\ JobFinished(listed[n]) /\ jobs[n] = listed[n]
             /\ JobGenerationMatches(jobs[n], m.gen)
  BY <1>5, <1>7, Phases DEF RecordsCompletion
<1>9. ASSUME NEW l \in todo
      PROVE  /\ l.name \in JobNames /\ JobFinished(l.job) /\ jobs[l.name] = l.job
             /\ JobGenerationMatches(l.job, m.gen)
  <2>1. PICK n \in JobNames : RecordsCompletion(m, listed, n)
                                /\ l = [name |-> n, job |-> listed[n]]
    OBVIOUS
  <2>2. l.name = n /\ l.job = listed[n]
    BY <2>1
  <2> QED
    BY <1>7, <2>1, <2>2
<1> HIDE DEF todo
<1> QED
  BY <1>2, <1>3, <1>4, <1>6, <1>9 DEF m

\* A plan without an active Job is made only when none of its generation runs; what it
\* lists as finished is so.
LEMMA ListJobsKeeps ==
  ASSUME TypeOK, NEW i \in Instances, ExclusionInv(i), ListJobs(i),
         SeenJobs(i) = VisibleJobs(jobs)
  PROVE  ExclusionInv(i)'
<1> USE DEF Exists, Running, Gen, At, Kind, Past, Recording, Acquiring, InHand, Followup,
            InFallback
<1> DEFINE base == rec[i].base
           plan == rec'[i].plan
           todo == rec'[i].todo
<1>1. /\ mirror' = mirror /\ jobs' = jobs /\ lease' = lease /\ hook' = hook
      /\ cache' = cache /\ rec[i].pc = "list"
  BY DEF ListJobs, objects
<1>2. /\ rec'[i].pc = CompletedStage(plan, todo)
      /\ rec'[i].op.kind = "none" /\ rec'[i].base.status.delivery = 0
      /\ plan.gen = base.gen /\ plan.stamp \in Stamps
      /\ ~Exists(ResyncJob(plan.stamp)) /\ ~Exists(ScheduledJob(plan.stamp))
  BY Lists
<1>3. plan.active
        <=> \E n \in JobNames : Running(n) /\ JobGenerationMatches(jobs[n], base.gen)
  BY Lists
<1>4. \A l \in todo :
        /\ l.name \in JobNames /\ JobFinished(l.job) /\ jobs[l.name] = l.job
        /\ JobGenerationMatches(l.job, base.gen)
  BY Lists
<1>5. /\ rec'[i].pc \in {"completed", "generation", "pending", "fallback"}
      /\ rec'[i].pc # "completed" => todo = {}
      /\ rec'[i].pc \in {"generation", "pending"} => ~plan.active
      /\ todo = {} /\ plan.active => rec'[i].pc = "fallback"
  BY <1>2, RestoredStage DEF CompletedStage, GenerationStage, PendingStage, FallbackStage
<1> HIDE DEF base, plan, todo
<1>6. base = rec[i].base /\ plan = rec'[i].plan /\ todo = rec'[i].todo
  BY DEF base, plan, todo
<1>7. /\ base.gen \in Nat /\ mirror.gen \in Nat /\ \A n \in JobNames : jobs[n].gen \in Nat
      /\ base.gen \in 1..mirror.gen
      /\ \A n \in JobNames : Exists(n) => Gen(n) <= base.gen
  BY <1>1, <1>6, Typed, Numbers DEF ExclusionInv, OpFits, NoneNewer
<1>8. OneActiveJob' /\ GensExist' /\ DeliveryKnown(i)'
  BY <1>1, <1>2 DEF ExclusionInv, OneActiveJob, SameGeneration, GensExist, DeliveryKnown
<1>9. Shape(i)' /\ OpFits(i)' /\ LeaseRead(i)'
  BY <1>1, <1>2, <1>5, <1>6, <1>7 DEF Shape, OpFits, LeaseRead
<1>10. LegacyAlone(i)'
  <2>1. Running(LegacyJob) => plan.active /\ todo = {}
    BY <1>1, <1>3, <1>4, Phases, NamesDiffer
       DEF ExclusionInv, LegacyAlone, GensExist, JobGenerationMatches
  <2> QED
    BY <1>1, <1>2, <1>5, <1>6, <2>1 DEF ExclusionInv, LegacyAlone
<1>11. ListedFinished(i)'
  BY <1>1, <1>2, <1>4, <1>5, <1>6, Phases DEF ListedFinished, GoodCopy
<1>12. NoneNewer(i)'
  BY <1>1, <1>2, <1>3, <1>5, <1>6, <1>7 DEF NoneNewer
<1>13. LeaseKept(i)'
  <2> SUFFICES ASSUME NEW n \in JobNames \ {LegacyJob}, Running(n), lease # n
               PROVE  LeftAlone(i, Gen(n))'
    BY <1>1 DEF LeaseKept
  <2>1. LeftAlone(i, Gen(n))
    BY DEF ExclusionInv, LeaseKept
  <2> QED
    BY <1>1, <1>2, <1>5, <1>6, <2>1 DEF LeftAlone
<1> QED
  BY <1>8, <1>9, <1>10, <1>11, <1>12, <1>13 DEF ExclusionInv

------------------------------------------------------------------------------
(***************************************************************************)
(* reconcileCompletedJobs.                                                 *)
(***************************************************************************)

\* Up to the follow-up a running Job without the Lease is one of an older
\* generation, whatever becomes of the Lease.
LEMMA OlderLeftAlone ==
  ASSUME TypeOK, NEW i \in Instances, ExclusionInv(i), Past(i), ~InFallback(i),
         Kind(i) \in {"none", "followup"}, ~Recording(i) \/ Kind(i) = "followup",
         rec'[i].plan = rec[i].plan, rec'[i].pc # "list",
         mirror'.gen = mirror.gen, jobs' = jobs,
         \A n \in JobNames \ {LegacyJob} : Running(n) /\ lease = n => lease' = n
  PROVE  LeaseKept(i)'
<1>1. /\ mirror.gen \in Nat /\ rec[i].plan.gen \in Nat
      /\ \A n \in JobNames : jobs[n].gen \in Nat
      /\ rec[i].plan.gen <= mirror.gen
  BY Typed, Numbers DEF ExclusionInv, OpFits
<1> QED
  BY <1>1 DEF ExclusionInv, LeaseKept, LeftAlone, Running, Gen, At, Kind, Past, Recording,
     InFallback, Shape

\* reconcileCompletedJobs takes one finished Job in hand and reads the mirror.
LEMMA CompletedGetKeeps ==
  ASSUME TypeOK, NEW i \in Instances, ExclusionInv(i), CompletedGet(i),
         SeenMirror(i) = mirror
  PROVE  ExclusionInv(i)'
<1> USE DEF Exists, Running, Gen, At, Kind, Past, Recording, Acquiring, InHand, Followup,
            InFallback
<1>1. /\ mirror' = mirror /\ jobs' = jobs /\ lease' = lease /\ hook' = hook
      /\ cache' = cache /\ rec[i].pc = "completed"
  BY DEF CompletedGet, objects
<1>2. PICK l \in rec[i].todo :
        rec' = [rec EXCEPT ![i].pc = "completedPatch", ![i].todo = @ \ {l},
                           ![i].done = l, ![i].base = SeenMirror(i)]
  BY DEF CompletedGet
<1>3. /\ rec'[i].pc = "completedPatch" /\ rec'[i].todo = rec[i].todo \ {l}
      /\ rec'[i].done = l /\ rec'[i].base = mirror
      /\ rec'[i].plan = rec[i].plan /\ rec'[i].op = rec[i].op
  BY <1>2, Typed DEF Rec
<1>4. InHand(i)' \subseteq InHand(i)
  BY <1>1, <1>3
<1>5. Kind(i) = "none" /\ mirror.gen \in Nat
  BY <1>1, Typed, Numbers DEF ExclusionInv, Shape
<1>6. OneActiveJob' /\ GensExist' /\ DeliveryKnown(i)'
  BY <1>1, <1>3 DEF ExclusionInv, OneActiveJob, SameGeneration, GensExist, DeliveryKnown
<1>7. Shape(i)' /\ OpFits(i)' /\ LeaseRead(i)'
  BY <1>1, <1>3, <1>5 DEF ExclusionInv, Shape, OpFits, LeaseRead
<1>8. LegacyAlone(i)' /\ ListedFinished(i)'
  BY <1>1, <1>3, <1>4 DEF ExclusionInv, LegacyAlone, ListedFinished
<1>9. NoneNewer(i)'
  BY <1>1, <1>3 DEF ExclusionInv, NoneNewer
<1>10. LeaseKept(i)'
  BY <1>1, <1>3, <1>5, OlderLeftAlone
<1> QED
  BY <1>6, <1>7, <1>8, <1>9, <1>10 DEF ExclusionInv

\* The patch for a finished Job writes no delivery and asks for nothing; a follow-up is
\* for the generation of the plan.
LEMMA CompletionRecorded ==
  ASSUME TypeOK, NEW i \in Instances, CompletedPatch(i)
  PROVE  LET r == rec[i]
             s == rec'[i] IN
         /\ mirror'.gen = mirror.gen
         /\ mirror'.status.delivery = mirror.status.delivery
         /\ mirror'.status.pending => mirror.status.pending
         /\ s.pc = "releaseGet" /\ s.plan = r.plan /\ s.todo = r.todo /\ s.done = r.done
         /\ s.base.status.delivery = 0
         /\ s.followup =>
              s.op.kind = "followup" /\ s.op.name = Followup(i) /\ s.op.gen = r.plan.gen
         /\ ~s.followup => s.op.kind = "none"
<1> DEFINE base == rec[i].base
           name == rec[i].done.name
           job == rec[i].done.job
           new == ApplyCompletion(base, name, job, rec[i].plan.now)
           applies == CompletionApplies(base, name, job)
           followup == NeedsFollowup(base, name, job)
<1>1. /\ base \in Mirror /\ mirror \in Mirror /\ base.status.pending \in BOOLEAN
  BY Typed, Numbers DEF Mirror, Status
<1>2. PatchMirror(base, new)
  BY DEF CompletedPatch
<1>3. /\ rec'[i].pc = "releaseGet" /\ rec'[i].followup = followup
      /\ rec'[i].plan = rec[i].plan /\ rec'[i].todo = rec[i].todo
      /\ rec'[i].done = rec[i].done /\ rec'[i].base = NewMirror
      /\ rec'[i].op = IF followup THEN FollowupOp(rec[i]) ELSE NoOp
  <2> HIDE DEF followup
  <2>1. rec' = [rec EXCEPT ![i].pc = "releaseGet",
                           ![i].followup = followup,
                           ![i].op = IF followup THEN FollowupOp(rec[i]) ELSE NoOp,
                           ![i].base = NewMirror]
    BY DEF CompletedPatch, followup
  <2> QED
    BY <2>1, Typed DEF Rec
<1>5. /\ new.status.delivery = base.status.delivery
      /\ applies => (new.status.pending <=> job.gen = 0 /\ base.status.pending)
      /\ ~applies => new.status = base.status
      /\ new.status.pending \in BOOLEAN
  BY <1>1, CompletionChanges
<1> HIDE DEF base, new, followup, applies, name, job
<1>7. /\ mirror'.gen = mirror.gen
      /\ mirror'.status.delivery
           = Patched(base.status.delivery, new.status.delivery, mirror.status.delivery)
      /\ mirror'.status.pending
           = Patched(base.status.pending, new.status.pending, mirror.status.pending)
  BY <1>1, <1>2, PatchTakes
<1>8. mirror'.status.delivery = mirror.status.delivery
  BY <1>5, <1>7 DEF Patched
<1>9. mirror'.status.pending => mirror.status.pending
  <2>1. new.status.pending = base.status.pending \/ ~new.status.pending
    <3>1. CASE applies
      BY <1>1, <1>5, <3>1
    <3>2. CASE ~applies
      BY <1>5, <3>2
    <3> QED
      BY <3>1, <3>2
  <2> QED
    BY <1>7, <2>1 DEF Patched
<1>11. /\ rec'[i].base.status.delivery = 0
       /\ followup => /\ rec'[i].op.kind = "followup" /\ rec'[i].op.name = Followup(i)
                      /\ rec'[i].op.gen = rec[i].plan.gen
       /\ ~followup => rec'[i].op.kind = "none"
  BY <1>3 DEF FollowupOp, NoOp, Followup, NewMirror
<1> QED
  BY <1>3, <1>7, <1>8, <1>9, <1>11

\* The patch leaves the Jobs and the Lease as they are.
LEMMA CompletedPatchKeeps ==
  ASSUME TypeOK, NEW i \in Instances, ExclusionInv(i), CompletedPatch(i)
  PROVE  ExclusionInv(i)'
<1> USE DEF Exists, Running, Gen, At, Kind, Past, Recording, Acquiring, InHand, Followup,
            InFallback
<1>1. /\ jobs' = jobs /\ lease' = lease /\ hook' = hook /\ cache' = cache
      /\ rec[i].pc = "completedPatch" /\ rec[i].op.kind = "none"
  BY DEF CompletedPatch, ExclusionInv, Shape
<1>2. /\ mirror'.gen = mirror.gen
      /\ mirror'.status.delivery = mirror.status.delivery
      /\ mirror'.status.pending => mirror.status.pending
      /\ rec'[i].pc = "releaseGet" /\ rec'[i].plan = rec[i].plan
      /\ rec'[i].todo = rec[i].todo /\ rec'[i].done = rec[i].done
      /\ rec'[i].base.status.delivery = 0
      /\ rec'[i].followup =>
           /\ rec'[i].op.kind = "followup" /\ rec'[i].op.name = ResyncJob(rec[i].plan.stamp)
           /\ rec'[i].op.gen = rec[i].plan.gen
      /\ ~rec'[i].followup => rec'[i].op.kind = "none"
  BY CompletionRecorded
<1>3. OneActiveJob' /\ GensExist' /\ DeliveryKnown(i)'
  BY <1>1, <1>2 DEF ExclusionInv, OneActiveJob, SameGeneration, GensExist, DeliveryKnown
<1>4. Shape(i)' /\ LeaseRead(i)'
  BY <1>2 DEF Shape, LeaseRead
<1>5. OpFits(i)'
  BY <1>1, <1>2 DEF ExclusionInv, OpFits
<1>6. LegacyAlone(i)' /\ ListedFinished(i)'
  BY <1>1, <1>2 DEF ExclusionInv, LegacyAlone, ListedFinished
<1>7. NoneNewer(i)'
  BY <1>1, <1>2 DEF ExclusionInv, NoneNewer
<1>9. LeaseKept(i)'
  BY <1>1, <1>2, OlderLeftAlone
<1> QED
  BY <1>3, <1>4, <1>5, <1>6, <1>7, <1>9 DEF ExclusionInv

\* releaseSyncLease done: the follow-up, or the next finished Job.
LEMMA AfterReleaseKeeps ==
  ASSUME TypeOK, NEW i \in Instances, ExclusionInv(i),
         rec[i].pc \in {"releaseGet", "releaseDelete"}, AfterRelease(i),
         mirror' = mirror, jobs' = jobs, hook' = hook, cache' = cache,
         \A n \in JobNames \ {LegacyJob} : Running(n) /\ lease = n => lease' = n
  PROVE  ExclusionInv(i)'
<1> USE DEF Kind, Past, At, InFallback
<1>1. /\ Kind(i) = IF rec[i].followup THEN "followup" ELSE "none"
      /\ rec[i] \in Rec /\ i \in Instances
  BY Typed DEF ExclusionInv, Shape
<1>2. CASE rec[i].followup
  <2>1. /\ rec'[i].pc = "leaseCreate" /\ rec'[i].plan = rec[i].plan
        /\ rec'[i].todo = rec[i].todo /\ rec'[i].base = rec[i].base
        /\ rec'[i].op = rec[i].op
    BY <1>2, Typed DEF AfterRelease, Rec
  <2>2. LeaseKept(i)'
    BY <1>1, <2>1, OlderLeftAlone DEF Recording
  <2> QED
    <3>1. Acquiring(i)' /\ LeaseRead(i)'
      BY <2>1 DEF Acquiring, LeaseRead
    <3> QED
      BY <1>1, <1>2, <2>1, <2>2, <3>1, AcquiringKeeps
<1>3. CASE ~rec[i].followup
  <2>1. /\ rec'[i].pc = CompletedStage(rec[i].plan, rec[i].todo)
        /\ rec'[i].plan = rec[i].plan /\ rec'[i].todo = rec[i].todo
        /\ rec'[i].op.kind = "none" /\ rec'[i].base.status.delivery = 0
    <3>1. rec'[i] = [IdleRec EXCEPT !.pc = CompletedStage(rec[i].plan, rec[i].todo),
                                    !.plan = rec[i].plan, !.todo = rec[i].todo]
      BY <1>3, Typed DEF AfterRelease, NextCompleted
    <3> QED
      BY <3>1 DEF IdleRec, NoOp, NewMirror
  <2>2. /\ rec'[i].pc \in {"completed", "generation", "pending", "fallback"}
        /\ rec'[i].pc \in {"generation", "pending"} => ~rec[i].plan.active
        /\ rec'[i].pc # "completed" => rec'[i].todo = {}
    BY <2>1, RestoredStage
  <2>3. LeaseKept(i)'
    BY <1>1, <2>1, <2>2, OlderLeftAlone DEF Recording
  <2>4. DeliveryKnown(i)'
    BY <2>1 DEF ExclusionInv, DeliveryKnown
  <2> QED
    BY <1>1, <1>3, <2>1, <2>2, <2>3, <2>4, NextStageKeeps
<1> QED
  BY <1>2, <1>3

\* The Lease is to be released only if the finished Job holds it.
LEMMA ReleaseGetKeeps ==
  ASSUME TypeOK, NEW i \in Instances, ExclusionInv(i), ReleaseGet(i), SeenLease(i) = lease
  PROVE  ExclusionInv(i)'
<1> USE DEF Exists, Running, Gen, At, Kind, Past, Recording, Acquiring, InHand, Followup,
            InFallback
<1>1. /\ mirror' = mirror /\ jobs' = jobs /\ lease' = lease /\ hook' = hook
      /\ cache' = cache /\ rec[i].pc = "releaseGet"
  BY DEF ReleaseGet, objects
<1>2. CASE lease = rec[i].done.name
  <2>1. /\ rec'[i].pc = "releaseDelete" /\ rec'[i].todo = rec[i].todo
        /\ rec'[i].done = rec[i].done /\ rec'[i].base = rec[i].base
        /\ rec'[i].followup = rec[i].followup
        /\ rec'[i].plan = rec[i].plan /\ rec'[i].op = rec[i].op
    BY <1>2, Typed DEF ReleaseGet, Rec
  <2>2. OneActiveJob' /\ GensExist' /\ DeliveryKnown(i)'
    BY <1>1, <2>1 DEF ExclusionInv, OneActiveJob, SameGeneration, GensExist, DeliveryKnown
  <2>3. Shape(i)' /\ OpFits(i)' /\ LeaseRead(i)'
    BY <1>1, <1>2, <2>1
       DEF ExclusionInv, Shape, OpFits, LeaseRead
  <2>4. LegacyAlone(i)' /\ ListedFinished(i)'
    BY <1>1, <2>1 DEF ExclusionInv, LegacyAlone, ListedFinished
  <2>5. NoneNewer(i)'
    BY <1>1, <2>1 DEF ExclusionInv, NoneNewer
  <2>6. LeaseKept(i)'
    BY <1>1, <2>1, OlderLeftAlone DEF ExclusionInv, Shape
  <2> QED
    BY <2>2, <2>3, <2>4, <2>5, <2>6 DEF ExclusionInv
<1>3. CASE lease # rec[i].done.name
  BY <1>1, <1>3, AfterReleaseKeeps DEF ReleaseGet
<1> QED
  BY <1>2, <1>3

\* What is released is the Lease of a finished Job.
LEMMA ReleaseDeleteKeeps ==
  ASSUME TypeOK, NEW i \in Instances, ExclusionInv(i), ReleaseDelete(i)
  PROVE  ExclusionInv(i)'
<1>1. /\ mirror' = mirror /\ jobs' = jobs /\ hook' = hook /\ AfterRelease(i)
      /\ cache' = cache /\ rec[i].pc = "releaseDelete"
  BY DEF ReleaseDelete, At
<1>2. ~Running(lease)
  BY <1>1, Phases
     DEF ExclusionInv, ListedFinished, GoodCopy, LeaseRead, At, Past, InHand, Running
<1> QED
  BY <1>1, <1>2, AfterReleaseKeeps

------------------------------------------------------------------------------
(***************************************************************************)
(* reconcileUnobservedGeneration, reconcilePendingResync,                  *)
(* reconcileFallback.                                                      *)
(***************************************************************************)

\* A Job for the mirror as it was read again, where none of the plan's generation
\* was active.
LEMMA ChoiceKeeps ==
  ASSUME TypeOK, NEW i \in Instances, ExclusionInv(i),
         rec[i].pc \in {"generation", "pending"}, NEW op,
         rec' = [rec EXCEPT ![i].pc = "leaseCreate", ![i].op = op],
         mirror' = mirror, jobs' = jobs, lease' = lease, hook' = hook, cache' = cache,
         op.kind \in {"generation", "pending"}, op.gen = mirror.gen,
         op.kind = "generation" => \E g \in Generations : op.name = GenerationJob(g),
         op.kind = "pending" => \E d \in 1..Scheduled : op.name = DeliveryJob(d)
  PROVE  ExclusionInv(i)'
<1> USE DEF Exists, Running, Gen, At, Kind, Past, Recording, Acquiring, InHand, Followup,
            InFallback
<1>1. /\ rec'[i].pc = "leaseCreate" /\ rec'[i].op = op /\ rec'[i].plan = rec[i].plan
      /\ rec'[i].todo = rec[i].todo /\ rec'[i].base = rec[i].base
  BY Typed DEF Rec
<1>2. /\ rec[i].op.kind = "none" /\ rec[i].todo = {} /\ ~rec[i].plan.active
      /\ mirror.gen \in Nat /\ rec[i].plan.gen \in 1..mirror.gen /\ rec[i].plan.stamp \in Stamps
  BY Typed, Numbers DEF ExclusionInv, Shape, OpFits
<1>3. OneActiveJob' /\ GensExist' /\ DeliveryKnown(i)'
  BY <1>1 DEF ExclusionInv, OneActiveJob, SameGeneration, GensExist, DeliveryKnown
<1>4. Shape(i)' /\ LeaseRead(i)'
  BY <1>1, <1>2 DEF Shape, LeaseRead
<1>5. OpFits(i)'
  <2>1. op.gen \in rec[i].plan.gen..mirror.gen
    BY <1>2
  <2> QED
    BY <1>1, <1>2, <2>1 DEF OpFits
<1>6. LegacyAlone(i)' /\ ListedFinished(i)'
  BY <1>1, <1>2 DEF ExclusionInv, LegacyAlone, ListedFinished
<1>7. NoneNewer(i)'
  BY <1>1, <1>2 DEF ExclusionInv, NoneNewer
<1>8. LeaseKept(i)'
  BY <1>1, <1>2, OlderLeftAlone
<1> QED
  BY <1>3, <1>4, <1>5, <1>6, <1>7, <1>8 DEF ExclusionInv

\* The choice was taken by somebody else: on to the next function.
LEMMA NoChoiceKeeps ==
  ASSUME TypeOK, NEW i \in Instances, ExclusionInv(i),
         rec[i].pc \in {"generation", "pending"}, NEW pc \in {"pending", "fallback"},
         rec' = [rec EXCEPT ![i].pc = pc],
         mirror' = mirror, jobs' = jobs, lease' = lease, hook' = hook, cache' = cache
  PROVE  ExclusionInv(i)'
<1> USE DEF At, Kind, Past, InFallback
<1>1. /\ rec'[i].pc = pc /\ rec'[i].op = rec[i].op /\ rec'[i].plan = rec[i].plan
      /\ rec'[i].todo = rec[i].todo /\ rec'[i].base = rec[i].base
  BY Typed DEF Rec
<1>2. rec[i].op.kind = "none" /\ rec[i].todo = {} /\ ~rec[i].plan.active
  BY DEF ExclusionInv, Shape
<1>3. DeliveryKnown(i)'
  BY <1>1 DEF ExclusionInv, DeliveryKnown
<1>4. LeaseKept(i)'
  BY <1>1, <1>2, OlderLeftAlone DEF Recording
<1> QED
  BY <1>1, <1>2, <1>3, <1>4, NextStageKeeps

\* reconcileUnobservedGeneration schedules a Job of the generation it reads again.
LEMMA GenerationKeeps ==
  ASSUME TypeOK, NEW i \in Instances, ExclusionInv(i), ReconcileUnobservedGeneration(i),
         SeenMirror(i) = mirror
  PROVE  ExclusionInv(i)'
<1>1. /\ mirror' = mirror /\ jobs' = jobs /\ lease' = lease /\ hook' = hook
      /\ cache' = cache /\ rec[i].pc = "generation"
  BY DEF ReconcileUnobservedGeneration, objects, At
<1>2. CASE mirror.status.observed = mirror.gen
  <2>1. rec' = [rec EXCEPT ![i].pc = PendingStage(rec[i].plan)]
    BY <1>2 DEF ReconcileUnobservedGeneration
  <2>2. PendingStage(rec[i].plan) \in {"pending", "fallback"}
    BY DEF PendingStage, FallbackStage
  <2> QED
    BY <1>1, <2>1, <2>2, NoChoiceKeeps
<1>3. CASE mirror.status.observed # mirror.gen
  <2> DEFINE m == SeenMirror(i)
             op == [NoOp EXCEPT !.kind = "generation", !.name = GenerationJob(m.gen),
                                !.gen = m.gen, !.rev = m.status.requested]
  <2>1. rec' = [rec EXCEPT ![i].pc = "leaseCreate", ![i].op = op]
    BY <1>3 DEF ReconcileUnobservedGeneration, Schedule
  <2>2. /\ op.kind = "generation" /\ op.gen = mirror.gen /\ op.name = GenerationJob(mirror.gen)
        /\ mirror.gen \in Generations
    BY Typed DEF NoOp, Mirror
  <2> HIDE DEF op
  <2> QED
    BY <1>1, <2>1, <2>2, ChoiceKeeps
<1> QED
  BY <1>2, <1>3

\* reconcilePendingResync names its Job by the last delivery: a pending sync has one.
LEMMA PendingKeeps ==
  ASSUME TypeOK, NEW i \in Instances, ExclusionInv(i), ReconcilePendingResync(i),
         SeenMirror(i) = mirror
  PROVE  ExclusionInv(i)'
<1>1. /\ mirror' = mirror /\ jobs' = jobs /\ lease' = lease /\ hook' = hook
      /\ cache' = cache /\ rec[i].pc = "pending"
  BY DEF ReconcilePendingResync, objects, At
<1>2. CASE ~mirror.status.pending
  <2>1. rec' = [rec EXCEPT ![i].pc = "fallback"]
    BY <1>2 DEF ReconcilePendingResync, FallbackStage
  <2> QED
    BY <1>1, <2>1, NoChoiceKeeps
<1>3. CASE mirror.status.pending
  <2> DEFINE m == SeenMirror(i)
             op == [NoOp EXCEPT !.kind = "pending",
                                !.name = PendingJobName(m, rec[i].plan.stamp),
                                !.gen = m.gen, !.rev = m.status.requested]
  <2>1. rec' = [rec EXCEPT ![i].pc = "leaseCreate", ![i].op = op]
    BY <1>3 DEF ReconcilePendingResync, Schedule
  <2>2. /\ mirror.status.delivery # 0 /\ mirror.status.delivery \in 0..Scheduled
        /\ Scheduled \in Nat
    BY <1>3, Typed, MaxPushAssumption
       DEF ExclusionInv, DeliveryKnown, Mirror, Status, Scheduled
  <2>3. /\ op.kind = "pending" /\ op.gen = mirror.gen
        /\ op.name = DeliveryJob(mirror.status.delivery)
        /\ mirror.status.delivery \in 1..Scheduled
    BY <2>2 DEF NoOp, PendingJobName
  <2> HIDE DEF op
  <2> QED
    BY <1>1, <2>1, <2>3, ChoiceKeeps
<1> QED
  BY <1>2, <1>3

\* A Reconcile ends with nothing changed.
LEMMA GivesUp ==
  ASSUME TypeOK, NEW i \in Instances, ExclusionInv(i), rec' = [rec EXCEPT ![i] = IdleRec],
         mirror' = mirror, jobs' = jobs, lease' = lease,
         \A h \in Handlers : hook'[h] \in {hook[h], IdleHook},
         \A k \in Instances : cache'[k].mirror \in {cache[k].mirror, mirror}
  PROVE  ExclusionInv(i)'
<1>1. rec'[i] = IdleRec /\ rec'[i].pc = "idle"
  BY Typed DEF IdleRec
<1>2. DeliveryKnown(i)'
  BY <1>1 DEF ExclusionInv, DeliveryKnown, IdleRec, IdleHook, NewMirror
<1>3. LeaseKept(i)'
  BY <1>1, LeaseStillKept DEF ExclusionInv, Past
<1> QED
  BY <1>1, <1>2, <1>3, IdleKeeps

\* reconcileFallback ends here, or leaves nothing but to coalesce where a Job is active,
\* or schedules a Job of the generation the mirror has.
LEMMA FallbackKeeps ==
  ASSUME TypeOK, NEW i \in Instances, ExclusionInv(i), ReconcileFallback(i),
         rec'[i].op.kind = "fallback" => rec[i].plan.gen = mirror.gen
  PROVE  ExclusionInv(i)'
<1> USE DEF Exists, Running, Gen, At, Kind, Past, Recording, Acquiring, InHand, Followup,
            InFallback
<1> DEFINE coalesce == [NoOp EXCEPT !.kind = "coalesce"]
           create == [NoOp EXCEPT !.kind = "fallback",
                                  !.name = ScheduledJob(rec[i].plan.stamp),
                                  !.gen = rec[i].plan.gen]
<1>1. /\ mirror' = mirror /\ jobs' = jobs /\ lease' = lease /\ hook' = hook
      /\ cache' = cache /\ rec[i].pc = "fallback"
  BY DEF ReconcileFallback, objects
<1>2. \/ rec' = [rec EXCEPT ![i] = IdleRec]
      \/ rec' = [rec EXCEPT ![i].pc = "untilNext"]
      \/ rec[i].plan.active /\ rec' = [rec EXCEPT ![i].pc = "scheduledGet", ![i].op = coalesce]
      \/ ~rec[i].plan.active /\ rec' = [rec EXCEPT ![i].pc = "leaseCreate", ![i].op = create]
  BY DEF ReconcileFallback, Return, Schedule
<1>3. /\ coalesce.kind = "coalesce" /\ create.kind = "fallback"
      /\ create.name = ScheduledJob(rec[i].plan.stamp) /\ create.gen = rec[i].plan.gen
  BY DEF NoOp
<1> HIDE DEF coalesce, create
<1>4. /\ rec[i].op.kind = "none" /\ rec[i].todo = {}
      /\ mirror.gen \in Nat /\ rec[i].plan.gen \in 1..mirror.gen
      /\ rec[i].plan.stamp \in Stamps /\ \A n \in JobNames : jobs[n].gen \in Nat
  BY <1>1, Typed, Numbers DEF ExclusionInv, Shape, OpFits
<1>5. CASE rec' = [rec EXCEPT ![i] = IdleRec]
  BY <1>1, <1>5, GivesUp
<1>6. CASE rec' = [rec EXCEPT ![i].pc = "untilNext"]
  <2>1. /\ rec'[i].pc = "untilNext" /\ rec'[i].op = rec[i].op /\ rec'[i].plan = rec[i].plan
        /\ rec'[i].todo = rec[i].todo /\ rec'[i].base = rec[i].base
    BY <1>6, Typed DEF Rec
  <2>2. OneActiveJob' /\ GensExist' /\ DeliveryKnown(i)'
    BY <1>1, <2>1 DEF ExclusionInv, OneActiveJob, SameGeneration, GensExist, DeliveryKnown
  <2>3. Shape(i)' /\ OpFits(i)' /\ LeaseRead(i)'
    BY <1>1, <1>4, <2>1 DEF Shape, OpFits, LeaseRead
  <2>4. LegacyAlone(i)' /\ ListedFinished(i)' /\ NoneNewer(i)'
    BY <1>1, <1>4, <2>1 DEF ExclusionInv, LegacyAlone, ListedFinished, NoneNewer
  <2>5. LeaseKept(i)'
    BY <1>1, <2>1 DEF ExclusionInv, LeaseKept, LeftAlone
  <2> QED
    BY <2>2, <2>3, <2>4, <2>5 DEF ExclusionInv
<1>7. ASSUME NEW pc \in {"scheduledGet", "leaseCreate"}, NEW op,
             rec' = [rec EXCEPT ![i].pc = pc, ![i].op = op],
             \/ pc = "scheduledGet" /\ op = coalesce /\ rec[i].plan.active
             \/ pc = "leaseCreate" /\ op = create /\ ~rec[i].plan.active
      PROVE  ExclusionInv(i)'
  <2>1. /\ rec'[i].pc = pc /\ rec'[i].op = op /\ rec'[i].plan = rec[i].plan
        /\ rec'[i].todo = rec[i].todo /\ rec'[i].base = rec[i].base
    BY <1>7, Typed DEF Rec
  <2>2. op = create => rec[i].plan.gen = mirror.gen
    BY <1>3, <2>1
  <2>3. OneActiveJob' /\ GensExist' /\ DeliveryKnown(i)'
    BY <1>1, <2>1 DEF ExclusionInv, OneActiveJob, SameGeneration, GensExist, DeliveryKnown
  <2>4. Shape(i)' /\ OpFits(i)' /\ LeaseRead(i)'
    BY <1>1, <1>3, <1>4, <1>7, <2>1 DEF Shape, OpFits, LeaseRead
  <2>5. LegacyAlone(i)' /\ ListedFinished(i)'
    BY <1>1, <1>3, <1>4, <1>7, <2>1 DEF ExclusionInv, LegacyAlone, ListedFinished
  <2>6. NoneNewer(i)'
    BY <1>1, <1>3, <1>4, <1>7, <2>1, <2>2 DEF ExclusionInv, NoneNewer, GensExist
  <2>7. LeaseKept(i)'
    BY <1>1, <1>3, <1>4, <1>7, <2>1, <2>2 DEF ExclusionInv, LeaseKept, LeftAlone
  <2> QED
    BY <2>3, <2>4, <2>5, <2>6, <2>7 DEF ExclusionInv
<1> QED
  BY <1>2, <1>5, <1>6, <1>7

\* The wait for the next instant is over when Reconcile returns.
LEMMA UntilNextKeeps ==
  ASSUME TypeOK, NEW i \in Instances, ExclusionInv(i), UntilNext(i)
  PROVE  ExclusionInv(i)'
BY GivesUp DEF UntilNext, Return, objects

------------------------------------------------------------------------------
(***************************************************************************)
(* createLockedSyncJob and acquireSyncLease.                               *)
(***************************************************************************)

\* While the Lease is acquired a running Job has it, or is of an older generation
\* than the Job to be created.
LEMMA HolderOrOlder ==
  ASSUME TypeOK, NEW i \in Instances, ExclusionInv(i), Acquiring(i)
  PROVE  /\ ~Running(LegacyJob)
         /\ rec[i].op.name # LegacyJob /\ rec[i].op.name \in JobNames
         /\ rec[i].op.gen \in rec[i].plan.gen..mirror.gen /\ rec[i].plan.gen \in 1..mirror.gen
         /\ mirror.gen \in Nat /\ rec[i].op.gen \in Nat /\ rec[i].plan.gen \in Nat
         /\ \A n \in JobNames : jobs[n].gen \in Nat
         /\ \A n \in JobNames : Exists(n) => Gen(n) <= rec[i].plan.gen
         /\ \A n \in JobNames \ {LegacyJob} :
              Running(n) /\ lease # n => Gen(n) < rec[i].op.gen /\ Gen(n) # 0
<1> USE DEF Exists, Running, Gen, At, Kind, Past, Recording, Acquiring, Followup, InFallback
<1>1. /\ Kind(i) \in {"followup", "generation", "pending", "fallback"}
      /\ Past(i) /\ ~InFallback(i) /\ ~Recording(i)
  BY DEF ExclusionInv, Shape
<1>2. /\ mirror.gen \in Nat /\ rec[i].op.gen \in Nat /\ rec[i].plan.gen \in Nat
      /\ \A n \in JobNames : jobs[n].gen \in Nat
  BY Typed, Numbers
<1>3. rec[i].plan.gen \in 1..mirror.gen /\ rec[i].plan.stamp \in Stamps
  BY <1>1 DEF ExclusionInv, OpFits
<1>4. rec[i].op.gen \in rec[i].plan.gen..mirror.gen
  BY <1>1, <1>2, <1>3 DEF ExclusionInv, OpFits
<1>5. ~Running(LegacyJob)
  BY <1>1 DEF ExclusionInv, LegacyAlone
<1>6. rec[i].op.name # LegacyJob /\ rec[i].op.name \in JobNames
  BY <1>1, <1>3, NamesDiffer, NamesType DEF ExclusionInv, OpFits
<1>7. \A n \in JobNames : Exists(n) => Gen(n) <= rec[i].plan.gen
  BY <1>1 DEF ExclusionInv, NoneNewer
<1>8. \A n \in JobNames \ {LegacyJob} :
        Running(n) /\ lease # n => Gen(n) < rec[i].op.gen /\ Gen(n) # 0
  BY <1>1, <1>2, <1>3, <1>4, Phases DEF ExclusionInv, LeaseKept, LeftAlone, GensExist
<1> QED
  BY <1>2, <1>3, <1>4, <1>5, <1>6, <1>7, <1>8

\* The Lease passes to the Job to be created: whoever had it is not running, or is of
\* an older generation.
LEMMA LeaseTaken ==
  ASSUME TypeOK, NEW i \in Instances, ExclusionInv(i), Acquiring(i), Acquiring(i)',
         lease' = rec[i].op.name, mirror' = mirror, jobs' = jobs,
         rec'[i].plan = rec[i].plan, rec'[i].op.kind = rec[i].op.kind,
         rec'[i].op.gen = rec[i].op.gen,
         lease = NoJob \/ At(i, "leaseUpdate")
  PROVE  LeaseKept(i)'
<1> USE DEF Exists, Running, Gen, At, Kind, Past, Recording, Acquiring, InFallback
<1> SUFFICES ASSUME NEW n \in JobNames \ {LegacyJob}, Running(n), n # rec[i].op.name
             PROVE  LeftAlone(i, Gen(n))'
  BY DEF LeaseKept
<1>1. CASE lease # n
  BY <1>1 DEF ExclusionInv, LeaseKept, LeftAlone, Shape
<1>2. CASE lease = n
  <2>1. At(i, "leaseUpdate") /\ rec[i].op.holder = n /\ n # NoJob
    BY <1>2, NamesDiffer DEF ExclusionInv, LeaseRead
  <2>2. Gen(n) # rec[i].op.gen /\ Gen(n) <= rec[i].plan.gen
    BY <2>1, HolderOrOlder, Phases
       DEF ExclusionInv, LeaseRead, JobNameActiveForGeneration, JobActive, JobGenerationMatches
  <2>3. \/ Kind(i) \in {"followup", "fallback"} /\ rec[i].op.gen = rec[i].plan.gen
        \/ Kind(i) \in {"generation", "pending"}
    BY DEF ExclusionInv, Shape, OpFits
  <2>4. /\ Gen(n) < mirror.gen
        /\ \/ Gen(n) < rec[i].plan.gen
           \/ Kind(i) \in {"generation", "pending"} /\ Gen(n) < rec[i].op.gen
    BY <2>2, <2>3, HolderOrOlder
  <2> QED
    BY <2>4, HolderOrOlder DEF LeftAlone
<1> QED
  BY <1>1, <1>2

\* A Lease that was free is nobody's who runs, unless of an older generation.
LEMMA CreateLeaseKeeps ==
  ASSUME TypeOK, NEW i \in Instances, ExclusionInv(i), CreateLease(i)
  PROVE  ExclusionInv(i)'
<1> USE DEF At, Kind, Past, Acquiring, InFallback
<1>1. /\ mirror' = mirror /\ jobs' = jobs /\ hook' = hook /\ cache' = cache
      /\ rec[i].pc = "leaseCreate"
  BY DEF CreateLease
<1>2. PICK pc \in {"createJob", "leaseGet"} :
        /\ rec' = [rec EXCEPT ![i].pc = pc]
        /\ pc = "createJob" => lease = NoJob /\ lease' = rec[i].op.name
        /\ pc = "leaseGet" => lease' = lease
  BY DEF CreateLease
<1>3. /\ rec'[i].pc = pc /\ rec'[i].plan = rec[i].plan /\ rec'[i].todo = rec[i].todo
      /\ rec'[i].base = rec[i].base /\ rec'[i].op = rec[i].op
  BY <1>2, Typed DEF Rec
<1>4. LeaseRead(i)'
  BY <1>2, <1>3 DEF LeaseRead
<1>5. LeaseKept(i)'
  <2>1. CASE pc = "createJob"
    BY <1>1, <1>2, <1>3, <2>1, LeaseTaken
  <2>2. CASE pc = "leaseGet"
    BY <1>1, <1>2, <1>3, <2>2, LeaseStillKept DEF ExclusionInv
  <2> QED
    BY <2>1, <2>2
<1> QED
  BY <1>1, <1>3, <1>4, <1>5, AcquiringKeeps

\* The holder read stays the holder: nobody else writes the Lease.
LEMMA GetLeaseKeeps ==
  ASSUME TypeOK, NEW i \in Instances, ExclusionInv(i), GetLease(i), SeenLease(i) = lease
  PROVE  ExclusionInv(i)'
<1> USE DEF At, Kind, Past, Acquiring, InFallback
<1>1. /\ mirror' = mirror /\ jobs' = jobs /\ lease' = lease /\ hook' = hook
      /\ cache' = cache /\ rec[i].pc = "leaseGet"
  BY DEF GetLease
<1>2. CASE lease = NoJob
  BY <1>1, <1>2, GivesUp DEF GetLease, ReturnError
<1>3. CASE lease # NoJob
  <2>1. rec' = [rec EXCEPT ![i].pc = IF lease = rec[i].op.name THEN "leaseUpdate"
                                     ELSE "holderGet",
                           ![i].op.holder = lease]
    BY <1>3 DEF GetLease
  <2>2. /\ rec'[i].pc = IF lease = rec[i].op.name THEN "leaseUpdate" ELSE "holderGet"
        /\ rec'[i].plan = rec[i].plan /\ rec'[i].todo = rec[i].todo
        /\ rec'[i].base = rec[i].base /\ rec'[i].op = [rec[i].op EXCEPT !.holder = lease]
    BY <2>1, Typed DEF Rec
  <2>3. /\ rec'[i].op.holder = lease /\ rec'[i].op.kind = rec[i].op.kind
        /\ rec'[i].op.name = rec[i].op.name /\ rec'[i].op.gen = rec[i].op.gen
    BY <2>2, Typed DEF Rec, Op
  <2>4. LeaseRead(i)'
    BY <1>1, <2>2, <2>3 DEF LeaseRead
  <2>5. LeaseKept(i)'
    BY <1>1, <2>2, <2>3, LeaseStillKept DEF ExclusionInv
  <2> QED
    BY <1>1, <2>2, <2>3, <2>4, <2>5, AcquiringKeeps
<1> QED
  BY <1>2, <1>3

\* An active holder of the generation ends the attempt; any other may be superseded.
LEMMA GetHolderKeeps ==
  ASSUME TypeOK, NEW i \in Instances, ExclusionInv(i), GetHolder(i),
         SeenJobs(i) = VisibleJobs(jobs)
  PROVE  ExclusionInv(i)'
<1> USE DEF At, Kind, Past, Acquiring, InFallback
<1>1. /\ mirror' = mirror /\ jobs' = jobs /\ lease' = lease /\ hook' = hook
      /\ cache' = cache /\ rec[i].pc = "holderGet"
  BY DEF GetHolder, objects
<1> DEFINE held ==
             JobNameActiveForGeneration(VisibleJobs(jobs), rec[i].op.holder, rec[i].op.gen)
<1>2. CASE held
  BY <1>1, <1>2, GivesUp DEF GetHolder, Return
<1>3. CASE ~held
  <2>1. rec' = [rec EXCEPT ![i].pc = "leaseUpdate"]
    BY <1>3 DEF GetHolder
  <2>2. /\ rec'[i].pc = "leaseUpdate"
        /\ rec'[i].plan = rec[i].plan /\ rec'[i].todo = rec[i].todo
        /\ rec'[i].base = rec[i].base /\ rec'[i].op = rec[i].op
    BY <2>1, Typed DEF Rec
  <2>3. rec[i].op.holder \in JobNames =>
          ~JobNameActiveForGeneration(jobs, rec[i].op.holder, rec[i].op.gen)
    BY <1>3, Typed, Shown
       DEF JobNameActiveForGeneration, JobActive, JobGenerationMatches, VisibleJobs
  <2>4. LeaseRead(i)'
    BY <1>1, <2>2, <2>3, Typed DEF ExclusionInv, LeaseRead
  <2>5. LeaseKept(i)'
    BY <1>1, <2>2, LeaseStillKept DEF ExclusionInv
  <2> QED
    BY <1>1, <2>2, <2>4, <2>5, AcquiringKeeps
<1> QED
  BY <1>2, <1>3

\* The takeover leaves no running Job of the generation without the Lease.
LEMMA UpdateLeaseKeeps ==
  ASSUME TypeOK, NEW i \in Instances, ExclusionInv(i), UpdateLease(i)
  PROVE  ExclusionInv(i)'
<1> USE DEF At, Kind, Past, Acquiring, InFallback
<1>1. mirror' = mirror /\ jobs' = jobs /\ hook' = hook /\ cache' = cache
      /\ rec[i].pc = "leaseUpdate"
  BY DEF UpdateLease
<1>2. CASE <<i, "held">> \in leaseCopies
  <2>1. /\ rec' = [rec EXCEPT ![i].pc = "createJob", ![i].op.holder = NoJob]
        /\ lease' = rec[i].op.name
    BY <1>2 DEF UpdateLease
  <2>2. /\ rec'[i].pc = "createJob" /\ rec'[i].plan = rec[i].plan
        /\ rec'[i].todo = rec[i].todo /\ rec'[i].base = rec[i].base
        /\ rec'[i].op = [rec[i].op EXCEPT !.holder = NoJob]
    BY <2>1, Typed DEF Rec
  <2>3. /\ rec'[i].op.kind = rec[i].op.kind /\ rec'[i].op.name = rec[i].op.name
        /\ rec'[i].op.gen = rec[i].op.gen
    BY <2>2, Typed DEF Rec, Op
  <2>4. LeaseRead(i)' /\ LeaseKept(i)'
    BY <1>1, <2>1, <2>2, <2>3, LeaseTaken DEF LeaseRead
  <2> QED
    BY <1>1, <2>2, <2>3, <2>4, AcquiringKeeps
<1>3. CASE <<i, "held">> \notin leaseCopies
  BY <1>1, <1>3, GivesUp DEF UpdateLease, Return, ReturnError
<1> QED
  BY <1>2, <1>3

\* The Job created is alone in its generation, whoever else runs.
LEMMA CreateJobKeeps ==
  ASSUME TypeOK, NEW i \in Instances, ExclusionInv(i), CreateJob(i)
  PROVE  ExclusionInv(i)'
<1> USE DEF Exists, Running, Gen, At, Kind, Past, Recording, Acquiring, InHand, Followup,
            InFallback
<1> DEFINE op == rec[i].op
<1>1. /\ mirror' = mirror /\ lease' = lease /\ hook' = hook /\ cache' = cache
      /\ rec[i].pc = "createJob"
      /\ rec' = [rec EXCEPT ![i].pc = "scheduledGet"]
      /\ jobs' = JobsWith(op.name, op.gen, op.rev)
  BY DEF CreateJob
<1>2. /\ rec'[i].pc = "scheduledGet" /\ rec'[i].plan = rec[i].plan
      /\ rec'[i].todo = rec[i].todo /\ rec'[i].base = rec[i].base /\ rec'[i].op = op
  BY <1>1, Typed DEF Rec
<1>3. /\ ~Running(LegacyJob) /\ op.name # LegacyJob /\ op.name \in JobNames
      /\ op.gen \in rec[i].plan.gen..mirror.gen /\ rec[i].plan.gen \in 1..mirror.gen
      /\ mirror.gen \in Nat /\ op.gen \in Nat /\ rec[i].plan.gen \in Nat
      /\ \A n \in JobNames : jobs[n].gen \in Nat
      /\ \A n \in JobNames : Exists(n) => Gen(n) <= rec[i].plan.gen
      /\ \A n \in JobNames \ {LegacyJob} :
           Running(n) /\ lease # n => Gen(n) < op.gen /\ Gen(n) # 0
  BY <1>1, HolderOrOlder
<1>4. lease = op.name
  BY <1>1 DEF ExclusionInv, LeaseRead
<1>5. /\ \A n \in JobNames \ {op.name} : jobs'[n] = jobs[n]
      /\ jobs'[op.name] = jobs[op.name]
           \/ /\ ~JobExists(jobs[op.name]) /\ JobRunning(jobs'[op.name])
              /\ JobExists(jobs'[op.name]) /\ jobs'[op.name].gen = op.gen
  BY <1>1, <1>3, Phases DEF JobsWith, TypeOK
<1>6. /\ Kind(i) \in {"followup", "generation", "pending", "fallback"}
      /\ Kind(i) # "followup" => rec[i].todo = {}
      /\ Kind(i) = "followup" => op.name = Followup(i) /\ op.gen = rec[i].plan.gen
  BY <1>1, NamesDiffer DEF ExclusionInv, Shape, OpFits
<1> HIDE DEF op
<1>7. op = rec[i].op
  BY DEF op
<1>8. OneActiveJob'
  BY <1>3, <1>4, <1>5, Phases DEF ExclusionInv, OneActiveJob, SameGeneration
<1>9. GensExist'
  BY <1>1, <1>3, <1>5 DEF ExclusionInv, GensExist
<1>10. DeliveryKnown(i)' /\ LeaseRead(i)'
  BY <1>1, <1>2 DEF ExclusionInv, DeliveryKnown, LeaseRead
<1>11. Shape(i)' /\ OpFits(i)'
  BY <1>1, <1>2, <1>7 DEF ExclusionInv, Shape, OpFits
<1>12. LegacyAlone(i)'
  BY <1>3, <1>5, NamesDiffer DEF LegacyAlone
<1>13. ListedFinished(i)'
  <2>1. \A l \in rec[i].todo : l.name \in JobNames /\ l.name # op.name
    BY <1>1, <1>6, <1>7, Typed, Numbers DEF ExclusionInv, ListedFinished
  <2> QED
    BY <1>1, <1>2, <1>5, <2>1 DEF ExclusionInv, ListedFinished, GoodCopy
<1>14. NoneNewer(i)'
  <2>1. ASSUME NEW n \in JobNames, Exists(n)'
        PROVE  Gen(n)' <= rec[i].plan.gen \/ (n = op.name /\ Gen(n)' <= op.gen)
    BY <1>3, <1>5, <2>1
  <2> QED
    BY <1>2, <2>1 DEF NoneNewer
<1>17. LeaseKept(i)'
  <2> SUFFICES ASSUME NEW n \in JobNames \ {LegacyJob}, Running(n)', lease # n
               PROVE  LeftAlone(i, Gen(n))'
    BY <1>1 DEF LeaseKept
  <2>1. jobs'[n] = jobs[n] /\ LeftAlone(i, Gen(n))
    BY <1>4, <1>5 DEF ExclusionInv, LeaseKept
  <2> QED
    BY <1>1, <1>2, <1>6, <1>7, <2>1 DEF LeftAlone
<1> QED
  BY <1>8, <1>9, <1>10, <1>11, <1>12, <1>13, <1>14, <1>17 DEF ExclusionInv

\* A create that failed, and left no Job running under the name, was not served.
LEMMA CreateJobFailsKeeps ==
  ASSUME TypeOK, NEW i \in Instances, ExclusionInv(i), CreateJobFails(i),
         ~JobRunning(jobs'[rec[i].op.name])
  PROVE  ExclusionInv(i)'
<1> USE DEF At, Kind, Past, Acquiring, InFallback
<1>1. /\ mirror' = mirror /\ lease' = lease /\ hook' = hook /\ cache' = cache
      /\ rec[i].pc = "createJob" /\ rec' = [rec EXCEPT ![i].pc = "undoGet"]
      /\ jobs' \in {jobs, JobsWith(rec[i].op.name, rec[i].op.gen, rec[i].op.rev)}
  BY DEF CreateJobFails
<1>2. jobs' = jobs
  <2>1. rec[i].op.name \in JobNames
    BY <1>1, HolderOrOlder
  <2> QED
    BY <1>1, <2>1, Phases DEF JobsWith, TypeOK
<1>3. /\ rec'[i].pc = "undoGet" /\ rec'[i].plan = rec[i].plan /\ rec'[i].todo = rec[i].todo
      /\ rec'[i].base = rec[i].base /\ rec'[i].op = rec[i].op
  BY <1>1, Typed DEF Rec
<1>4. LeaseRead(i)' /\ LeaseKept(i)'
  BY <1>1, <1>2, <1>3, LeaseStillKept DEF ExclusionInv, LeaseRead
<1>5. ~Running(rec[i].op.name)
  BY <1>2 DEF Running
<1> QED
  BY <1>1, <1>2, <1>3, <1>4, <1>5, AcquiringKeeps

\* After a failed create, release only what is held in the Job's name.
LEMMA UndoGetKeeps ==
  ASSUME TypeOK, NEW i \in Instances, ExclusionInv(i), UndoGet(i), SeenLease(i) = lease
  PROVE  ExclusionInv(i)'
<1> USE DEF At, Kind, Past, Acquiring, InFallback
<1>1. /\ mirror' = mirror /\ jobs' = jobs /\ lease' = lease /\ hook' = hook
      /\ cache' = cache /\ rec[i].pc = "undoGet"
  BY DEF UndoGet, objects
<1>2. CASE lease = rec[i].op.name
  <2>1. rec' = [rec EXCEPT ![i].pc = "undoDelete"]
    BY <1>2 DEF UndoGet
  <2>2. /\ rec'[i].pc = "undoDelete" /\ rec'[i].plan = rec[i].plan
        /\ rec'[i].todo = rec[i].todo /\ rec'[i].base = rec[i].base /\ rec'[i].op = rec[i].op
    BY <2>1, Typed DEF Rec
  <2>3. LeaseRead(i)' /\ LeaseKept(i)'
    BY <1>1, <1>2, <2>2, LeaseStillKept DEF ExclusionInv, LeaseRead
  <2> QED
    BY <1>1, <2>2, <2>3, AcquiringKeeps DEF ExclusionInv, Shape
<1>3. CASE lease # rec[i].op.name
  BY <1>1, <1>3, GivesUp DEF UndoGet, ReturnError
<1> QED
  BY <1>2, <1>3

\* The Lease given back is that of no running Job.
LEMMA UndoDeleteKeeps ==
  ASSUME TypeOK, NEW i \in Instances, ExclusionInv(i), UndoDelete(i)
  PROVE  ExclusionInv(i)'
<1> USE DEF At, Past
<1>1. /\ mirror' = mirror /\ jobs' = jobs /\ hook' = hook /\ cache' = cache
      /\ rec[i].pc = "undoDelete" /\ rec' = [rec EXCEPT ![i] = IdleRec]
  BY DEF UndoDelete, ReturnError
<1>2. rec'[i] = IdleRec /\ rec'[i].pc = "idle"
  BY <1>1, Typed DEF IdleRec
<1>3. DeliveryKnown(i)'
  BY <1>1, <1>2 DEF ExclusionInv, DeliveryKnown, IdleRec, NewMirror
<1>4. LeaseKept(i)'
  <2> SUFFICES ASSUME NEW n \in JobNames \ {LegacyJob}, Running(n)
               PROVE  mirror.gen > Gen(n)
    BY <1>1, <1>2 DEF LeaseKept, LeftAlone, Running, Gen
  <2>1. lease # n
    BY <1>1 DEF ExclusionInv, LeaseRead, Shape
  <2> QED
    BY <2>1 DEF ExclusionInv, LeaseKept, LeftAlone
<1> QED
  BY <1>1, <1>2, <1>3, <1>4, IdleKeeps

------------------------------------------------------------------------------
(***************************************************************************)
(* The patch that records the scheduled Job, failures, crashes.            *)
(***************************************************************************)
\* The copy the status patch starts from is current.
LEMMA ScheduledGetKeeps ==
  ASSUME TypeOK, NEW i \in Instances, ExclusionInv(i), ScheduledGet(i),
         SeenMirror(i) = mirror
  PROVE  ExclusionInv(i)'
<1> USE DEF Exists, Running, Gen, At, Kind, Past, Recording, Acquiring, InHand, Followup,
            InFallback
<1>1. /\ mirror' = mirror /\ jobs' = jobs /\ lease' = lease /\ hook' = hook
      /\ cache' = cache /\ rec[i].pc = "scheduledGet"
  BY DEF ScheduledGet, objects
<1>2. /\ rec'[i].pc = "scheduledPatch" /\ rec'[i].plan = rec[i].plan
      /\ rec'[i].todo = rec[i].todo /\ rec'[i].op = rec[i].op /\ rec'[i].base = mirror
  BY Typed DEF ScheduledGet, Rec
<1>3. mirror.gen \in Nat
  BY Typed, Numbers
<1>4. OneActiveJob' /\ GensExist' /\ DeliveryKnown(i)'
  BY <1>1, <1>2 DEF ExclusionInv, OneActiveJob, SameGeneration, GensExist, DeliveryKnown
<1>5. Shape(i)' /\ OpFits(i)' /\ LeaseRead(i)'
  BY <1>1, <1>2, <1>3 DEF ExclusionInv, Shape, OpFits, LeaseRead
<1>6. LegacyAlone(i)' /\ ListedFinished(i)'
  BY <1>1, <1>2 DEF ExclusionInv, LegacyAlone, ListedFinished
<1>7. NoneNewer(i)'
  BY <1>1, <1>2 DEF ExclusionInv, NoneNewer
<1>8. LeaseKept(i)'
  BY <1>1, <1>2 DEF ExclusionInv, LeaseKept, LeftAlone
<1> QED
  BY <1>4, <1>5, <1>6, <1>7, <1>8 DEF ExclusionInv

\* That patch leaves a delivery to name a pending sync by.
LEMMA SchedulingRecorded ==
  ASSUME TypeOK, NEW i \in Instances, ExclusionInv(i), ScheduledPatch(i)
  PROVE  /\ mirror'.gen = mirror.gen
         /\ mirror.status.delivery # 0 => mirror'.status.delivery # 0
         /\ mirror'.status.pending => mirror'.status.delivery # 0
<1> DEFINE base == rec[i].base
           new == ApplyScheduled(base, rec[i].op, rec[i].plan)
<1>1. /\ base \in Mirror /\ mirror \in Mirror /\ rec[i].op \in Op
      /\ Scheduled # 0
  BY Typed, Numbers, MaxPushAssumption DEF Scheduled
<1>2. PatchMirror(base, new)
  BY DEF ScheduledPatch
<1>3. /\ Kind(i) = "coalesce" => new.status.delivery = Scheduled
      /\ new.status.delivery \in {base.status.delivery, Scheduled}
      /\ new.status.pending \in BOOLEAN
      /\ Kind(i) # "coalesce" /\ new.status.pending => base.status.pending
  BY <1>1, ScheduledChanges DEF Kind
<1>4. base.status.delivery # 0 => mirror.status.delivery # 0
  BY DEF ExclusionInv, DeliveryKnown
<1>5. /\ base.status.pending \in BOOLEAN
      /\ mirror.status.pending => mirror.status.delivery # 0
  BY <1>1 DEF ExclusionInv, DeliveryKnown, Mirror, Status
<1> HIDE DEF base, new
<1>6. /\ mirror'.gen = mirror.gen
      /\ mirror'.status.delivery
           = Patched(base.status.delivery, new.status.delivery, mirror.status.delivery)
      /\ mirror'.status.pending
           = Patched(base.status.pending, new.status.pending, mirror.status.pending)
  BY <1>1, <1>2, PatchTakes
<1>7. mirror.status.delivery # 0 => mirror'.status.delivery # 0
  BY <1>1, <1>3, <1>6 DEF Patched
<1>8. mirror'.status.pending => mirror'.status.delivery # 0
  <2>1. CASE Kind(i) = "coalesce"
    BY <1>1, <1>3, <1>4, <1>6, <1>7, <2>1 DEF Patched
  <2>2. CASE Kind(i) # "coalesce"
    <3>1. mirror'.status.pending => mirror.status.pending
      BY <1>3, <1>5, <1>6, <2>2 DEF Patched
    <3> QED
      BY <1>5, <1>7, <3>1
  <2> QED
    BY <2>1, <2>2
<1> QED
  BY <1>6, <1>7, <1>8

\* Then Reconcile goes on, or returns: either way nothing is left to be created beside
\* a Job of the generation just scheduled.
LEMMA ScheduledPatchKeeps ==
  ASSUME TypeOK, NEW i \in Instances, ExclusionInv(i), ScheduledPatch(i)
  PROVE  ExclusionInv(i)'
<1> USE DEF Exists, Running, Gen, At, Kind, Past, Recording, Acquiring, InFallback
<1>1. /\ jobs' = jobs /\ lease' = lease /\ hook' = hook /\ cache' = cache
      /\ rec[i].pc = "scheduledPatch" /\ AfterScheduled(i)
  BY DEF ScheduledPatch
<1>2. /\ mirror'.gen = mirror.gen
      /\ mirror.status.delivery # 0 => mirror'.status.delivery # 0
      /\ mirror'.status.pending => mirror'.status.delivery # 0
  BY SchedulingRecorded
<1>3. \A n \in JobNames \ {LegacyJob} : Running(n) /\ lease # n => mirror.gen > Gen(n)
  BY DEF ExclusionInv, LeaseKept, LeftAlone
<1>4. rec'[i].base.status.delivery = 0 => DeliveryKnown(i)'
  BY <1>1, <1>2 DEF ExclusionInv, DeliveryKnown
<1>5. CASE Kind(i) = "followup"
  <2>1. rec'[i] = [IdleRec EXCEPT !.pc = CompletedStage(rec[i].plan, rec[i].todo),
                                  !.plan = rec[i].plan, !.todo = rec[i].todo]
    BY <1>1, <1>5, Typed DEF AfterScheduled, NextCompleted
  <2>2. /\ rec'[i].pc = CompletedStage(rec[i].plan, rec[i].todo)
        /\ rec'[i].plan = rec[i].plan /\ rec'[i].todo = rec[i].todo
        /\ rec'[i].op.kind = "none" /\ rec'[i].base.status.delivery = 0
    BY <2>1 DEF IdleRec, NoOp, NewMirror
  <2>3. /\ rec'[i].pc \in {"completed", "generation", "pending", "fallback"}
        /\ rec'[i].pc \in {"generation", "pending"} => ~rec[i].plan.active
        /\ rec'[i].pc # "completed" => rec'[i].todo = {}
    BY <2>2, RestoredStage
  <2>4. LeaseKept(i)'
    BY <1>1, <1>2, <1>5, <2>2, <2>3, OlderLeftAlone
  <2> QED
    BY <1>1, <1>2, <1>4, <1>5, <2>2, <2>3, <2>4, NextStageKeeps
<1>6. CASE Kind(i) = "pending"
  <2>1. rec'[i] = [IdleRec EXCEPT !.pc = "fallback", !.plan = rec[i].plan]
    BY <1>1, <1>6, Typed DEF AfterScheduled, FallbackStage
  <2>2. /\ rec'[i].pc = "fallback" /\ rec'[i].plan = rec[i].plan /\ rec'[i].todo = {}
        /\ rec'[i].op.kind = "none" /\ rec'[i].base.status.delivery = 0
    BY <2>1 DEF IdleRec, NoOp, NewMirror
  <2>3. LeaseKept(i)'
    BY <1>1, <1>2, <1>3, <2>2 DEF LeaseKept, LeftAlone
  <2> QED
    BY <1>1, <1>2, <1>4, <1>6, <2>2, <2>3, NextStageKeeps
<1>7. CASE Kind(i) \in {"generation", "coalesce", "fallback"}
  <2>1. rec'[i] = IdleRec
    BY <1>1, <1>7, Typed DEF AfterScheduled, Return
  <2>2. rec'[i].pc = "idle" /\ rec'[i].base.status.delivery = 0
    BY <2>1 DEF IdleRec, NewMirror
  <2>3. LeaseKept(i)'
    BY <1>1, <1>2, <1>3, <2>2 DEF LeaseKept, LeftAlone
  <2> QED
    BY <1>1, <1>2, <1>4, <2>1, <2>2, <2>3, IdleKeeps
<1> QED
  BY <1>1, <1>5, <1>6, <1>7 DEF AfterScheduled

\* A failed call or a crash forgets the plan; the next Reconcile starts afresh.
LEMMA FailureKeeps ==
  ASSUME TypeOK, NEW i \in Instances, ExclusionInv(i), Abort(i) \/ Crash(i)
  PROVE  ExclusionInv(i)'
<1>1. /\ rec' = [rec EXCEPT ![i] = IdleRec]
      /\ mirror' = mirror /\ jobs' = jobs /\ lease' = lease
      /\ \A h \in Handlers : hook'[h] \in {hook[h], IdleHook}
  BY DEF Abort, Crash, ReturnError, objects
<1>2. \A k \in Instances : cache'[k].mirror \in {cache[k].mirror, mirror}
  <2>1. CASE Abort(i)
    BY <2>1 DEF Abort, objects
  <2>2. CASE Crash(i)
    <3>1. cache \in [Instances -> Caches]
      BY DEF TypeOK
    <3>2. cache' = [cache EXCEPT
            ![i] = [mirror |-> IF "mirror" \in Lagging THEN mirror ELSE @.mirror,
                    jobs |-> IF "jobs" \in Lagging THEN VisibleJobs(jobs) ELSE @.jobs,
                    lease |-> IF "lease" \in Lagging THEN lease ELSE @.lease]]
      BY <2>2 DEF Crash, SyncCache
    <3>3. /\ \A k \in Instances \ {i} : cache'[k] = cache[k]
          /\ cache'[i].mirror = IF "mirror" \in Lagging THEN mirror ELSE cache[i].mirror
      BY <3>1, <3>2
    <3> QED
      BY <3>3
  <2> QED
    BY <2>1, <2>2
<1> QED
  BY <1>1, <1>2, GivesUp

------------------------------------------------------------------------------
(***************************************************************************)
(* The theorem.                                                            *)
(***************************************************************************)
\* Every step keeps the invariant, unless it disturbs.
LEMMA ExclusionNext ==
  ASSUME TypeOK, NEW i \in Instances, ExclusionInv(i), Next, Undisturbed(i)
  PROVE  ExclusionInv(i)'
<1>1. CASE ClusterNext /\ UNCHANGED <<hook, rec>>
  BY <1>1, ClusterKnows, ClusterBeside, BesideKeeps DEF ExclusionInv
<1>2. CASE WebhookNext /\ UNCHANGED rec
  BY <1>2, WebhookKnows, WebhookBeside, BesideKeeps DEF ExclusionInv
<1>3. CASE ReconcilerNext
  <2>1. StepOf(i)
    BY <1>3, StepsAlone DEF Undisturbed
  <2>2. CASE Start(i) \/ CompletedGet(i) \/ ScheduledGet(i)
    BY <2>2, StartKeeps, CompletedGetKeeps, ScheduledGetKeeps DEF Undisturbed, ReadsCurrent
  <2>3. CASE ReconcileUnobservedGeneration(i) \/ ReconcilePendingResync(i)
    BY <2>3, GenerationKeeps, PendingKeeps DEF Undisturbed, ReadsCurrent
  <2>4. CASE ListJobs(i) \/ GetHolder(i)
    BY <2>4, ListJobsKeeps, GetHolderKeeps DEF Undisturbed, ReadsCurrent
  <2>5. CASE ReleaseGet(i) \/ GetLease(i) \/ UndoGet(i)
    BY <2>5, ReleaseGetKeeps, GetLeaseKeeps, UndoGetKeeps DEF Undisturbed, ReadsCurrent
  <2>6. CASE ReconcileFallback(i)
    BY <2>6, FallbackKeeps DEF Undisturbed, SchedulesForPresent
  <2>7. CASE CreateJobFails(i)
    BY <2>7, CreateJobFailsKeeps DEF Undisturbed, FailsForGood
  <2>8. CASE \/ CompletedPatch(i) \/ ReleaseDelete(i) \/ UntilNext(i) \/ CreateLease(i)
             \/ UpdateLease(i) \/ CreateJob(i) \/ UndoDelete(i) \/ ScheduledPatch(i)
             \/ Abort(i) \/ Crash(i)
    BY <2>8, CompletedPatchKeeps, ReleaseDeleteKeeps, UntilNextKeeps, CreateLeaseKeeps,
       UpdateLeaseKeeps, CreateJobKeeps, UndoDeleteKeeps, ScheduledPatchKeeps, FailureKeeps
  <2> QED
    BY <2>1, <2>2, <2>3, <2>4, <2>5, <2>6, <2>7, <2>8 DEF StepOf, ReconcileStep
<1> QED
  BY <1>1, <1>2, <1>3 DEF Next

\* Nor does it depend on anything but the state.
LEMMA ExclusionStutters ==
  ASSUME TypeOK, NEW i \in Instances, ExclusionInv(i), UNCHANGED vars
  PROVE  ExclusionInv(i)'
<1>1. Beside /\ UNCHANGED rec
  BY Typed, Numbers DEF vars, Beside, Exists, Running, Gen
<1>2. DeliveryKnown(i)'
  BY DEF vars, ExclusionInv, DeliveryKnown
<1> QED
  BY <1>1, <1>2, BesideKeeps

\* At the start there is no Job but perhaps that of an older operator.
LEMMA ExclusionInit ==
  ASSUME Init, NEW i \in Instances
  PROVE  ExclusionInv(i)
<1> USE DEF Exists, Running, Gen, At, Kind, Past, Recording, Acquiring, InHand,
            InFallback
<1>1. /\ mirror = NewMirror /\ lease = NoJob /\ hook = [h \in Handlers |-> IdleHook]
      /\ rec[i] = IdleRec /\ \A k \in Instances : cache[k].mirror = NewMirror
  BY DEF Init, ClusterInit, WebhookInit, ReconcilerInit
<1>2. \A n \in JobNames : /\ n # LegacyJob => jobs[n] = AbsentJob
                          /\ jobs[n] \in {AbsentJob, NewJob(0, 0)}
  BY DEF Init, ClusterInit
<1>3. \A n \in JobNames : Exists(n) => n = LegacyJob /\ Gen(n) = 0
  BY <1>2, Phases
<1>4. /\ rec[i].pc = "idle" /\ rec[i].op.kind = "none" /\ rec[i].base.status.delivery = 0
      /\ ~mirror.status.pending /\ mirror.gen = 1
      /\ \A h \in Handlers : hook[h].pc = "idle" /\ hook[h].base.status.delivery = 0
      /\ \A k \in Instances : cache[k].mirror.status.delivery = 0
  BY <1>1 DEF IdleRec, NoOp, NewMirror, IdleHook
<1>5. OneActiveJob /\ GensExist /\ LegacyAlone(i) /\ LeaseKept(i)
  BY <1>3, <1>4, Phases DEF OneActiveJob, GensExist, LegacyAlone, LeaseKept
<1>6. Shape(i) /\ OpFits(i) /\ LeaseRead(i)
  BY <1>4 DEF Shape, OpFits, LeaseRead
<1>7. DeliveryKnown(i) /\ ListedFinished(i) /\ NoneNewer(i)
  BY <1>4 DEF DeliveryKnown, ListedFinished, NoneNewer
<1> QED
  BY <1>5, <1>6, <1>7 DEF ExclusionInv

\* A Job that runs holds the Lease, or is of an older generation than any Job a Reconcile
\* will create (createLockedSyncJob), as long as no step disturbs.
THEOREM ExclusionInvariant ==
  ASSUME NEW i \in Instances
  PROVE  Spec /\ [][Undisturbed(i)]_vars => []ExclusionInv(i)
<1>1. Init => ExclusionInv(i)
  BY ExclusionInit
<1>2. ExclusionInv(i) /\ TypeOK /\ [Next]_vars /\ [Undisturbed(i)]_vars => ExclusionInv(i)'
  BY ExclusionNext, ExclusionStutters
<1> QED
  BY <1>1, <1>2, TypeCorrect, PTL DEF Spec

\* No two sync Jobs of one generation run at once (activeJobExists and
\* acquireSyncLease): not with lagging caches that catch up before they decide, not
\* through crashes, failed calls, spec changes, schedules and expiring
\* Jobs in any combination.  It takes one of four steps to lose the exclusion: a second
\* instance's, a decision from a copy that is behind, a schedule for a generation that
\* is over, or a failed create under a name that runs.
THEOREM Exclusive ==
  ASSUME NEW i \in Instances
  PROVE  Spec /\ [][Undisturbed(i)]_vars => []OneActiveJob
<1>1. ExclusionInv(i) => OneActiveJob
  BY DEF ExclusionInv
<1> QED
  BY <1>1, ExclusionInvariant, PTL

------------------------------------------------------------------------------
(***************************************************************************)
(* The target repository.  While the spec does not change all Jobs are of  *)
(* one generation, so no other Job clones before a push and pushes after.  *)
(***************************************************************************)

\* Whatever a Job cloned is at least what the target shows.
ClonesCurrent ==
  /\ target <= source
  /\ \A n \in JobNames : jobs[n].phase = "cloned" => jobs[n].got \in target..source

\* With one generation a Job that runs is the only one.
LEMMA RunsAlone ==
  ASSUME TypeOK, OneActiveJob, GensExist, mirror.gen = 1,
         NEW n \in JobNames, NEW o \in JobNames, Running(n), Running(o)
  PROVE  n = o
<1>1. jobs[n].gen \in Nat /\ jobs[o].gen \in Nat
  BY DEF TypeOK, Job
<1>2. Gen(n) <= 1 /\ Gen(o) <= 1
  BY Phases DEF GensExist, Exists, Running
<1>3. SameGeneration(n, o)
  BY <1>1, <1>2 DEF SameGeneration, Gen
<1> QED
  BY <1>3 DEF OneActiveJob, Running

\* A step that leaves the repositories alone clones nothing.
LEMMA NothingCloned ==
  ASSUME TypeOK, ClonesCurrent, UNCHANGED <<source, target>>,
         \A n \in JobNames : jobs'[n] = jobs[n] \/ jobs'[n].phase # "cloned"
  PROVE  ClonesCurrent'
BY DEF ClonesCurrent

\* A push shows what its Job cloned, and no other Job holds an older clone.
LEMMA ClonesStayCurrent ==
  ASSUME TypeOK, ClonesCurrent, OneActiveJob, GensExist, mirror.gen = 1,
         [Next]_vars
  PROVE  ClonesCurrent' /\ (target' >= target)
<1>1. /\ jobs \in [JobNames -> Job]
      /\ source \in Nat /\ target \in Nat
      /\ \A n \in JobNames : jobs[n].got \in Nat
  BY DEF TypeOK, Job, Revisions
<1>2. ASSUME UNCHANGED <<source, target>>,
             \A n \in JobNames : jobs'[n] = jobs[n] \/ jobs'[n].phase # "cloned"
      PROVE  ClonesCurrent' /\ (target' >= target)
  BY <1>1, <1>2, NothingCloned
<1>3. CASE Push
  BY <1>1, <1>3 DEF Push, objects, ClonesCurrent
<1>4. ASSUME NEW n \in JobNames, JobClones(n)
      PROVE  ClonesCurrent' /\ (target' >= target)
  BY <1>1, <1>4 DEF JobClones, repositories, ClonesCurrent
<1>5. ASSUME NEW n \in JobNames, JobPushes(n)
      PROVE  ClonesCurrent' /\ (target' >= target)
  <2>1. jobs[n].got \in target..source /\ target' = jobs[n].got /\ source' = source
    BY <1>5 DEF JobPushes, ClonesCurrent
  <2>2. ASSUME NEW o \in JobNames, jobs'[o].phase = "cloned"
        PROVE  FALSE
    <3>1. CASE o = n
      BY <1>1, <1>5, <2>2, <3>1 DEF JobPushes, Job
    <3>2. CASE o # n
      <4>1. jobs[o].phase = "cloned"
        BY <1>1, <1>5, <2>2, <3>2 DEF JobPushes
      <4>2. Running(o) /\ Running(n)
        BY <1>5, <4>1 DEF JobPushes, Running, JobRunning, RunningPhases
      <4> QED
        BY <3>2, <4>2, RunsAlone
    <3> QED
      BY <3>1, <3>2
  <2> QED
    BY <1>1, <2>1, <2>2 DEF ClonesCurrent
<1>6. ASSUME NEW n \in JobNames, JobSucceeds(n) \/ JobFails(n) \/ JobExpires(n)
      PROVE  ClonesCurrent' /\ (target' >= target)
  <2>1. \A o \in JobNames \ {n} : jobs'[o] = jobs[o]
    BY <1>1, <1>6 DEF JobSucceeds, JobFails, JobExpires, SetJob
  <2>2. CASE JobSucceeds(n)
    <3>1. jobs'[n] = [jobs[n] EXCEPT !.phase = "complete"] /\ jobs[n] \in Job
      BY <1>1, <2>2 DEF JobSucceeds, SetJob
    <3>2. jobs'[n].phase = "complete"
      BY <3>1 DEF Job
    <3> QED
      BY <1>2, <2>1, <2>2, <3>2 DEF JobSucceeds, repositories
  <2>3. CASE JobFails(n)
    <3>1. jobs'[n] = [jobs[n] EXCEPT !.phase = "failed", !.got = 0] /\ jobs[n] \in Job
      BY <1>1, <2>3 DEF JobFails, SetJob
    <3>2. jobs'[n].phase = "failed"
      BY <3>1 DEF Job
    <3> QED
      BY <1>2, <2>1, <2>3, <3>2 DEF JobFails, repositories
  <2>4. CASE JobExpires(n)
    <3>1. jobs'[n].phase = "absent"
      BY <1>1, <2>4 DEF JobExpires, SetJob, AbsentJob
    <3> QED
      BY <1>2, <2>1, <2>4, <3>1 DEF JobExpires, repositories
  <2> QED
    BY <1>6, <2>2, <2>3, <2>4
<1>7. ASSUME jobs' = jobs, UNCHANGED repositories
      PROVE  ClonesCurrent' /\ (target' >= target)
  BY <1>2, <1>7 DEF repositories
<1>8. ASSUME ClusterNext
      PROVE  ClonesCurrent' /\ (target' >= target)
  <2>1. ASSUME NEW i \in Instances,
               \/ RefreshMirror(i) \/ RefreshJobs(i) \/ RefreshLease(i)
               \/ TimerFires(i) \/ Resync(i)
        PROVE  ClonesCurrent' /\ (target' >= target)
    BY <1>7, <2>1 DEF RefreshMirror, RefreshJobs, RefreshLease, TimerFires, Resync, objects
  <2>2. CASE Tick \/ ChangeSpec
    BY <1>7, <2>2 DEF Tick, ChangeSpec, objects
  <2>3. ASSUME NEW d \in Deliveries, Redeliver(d) \/ LoseDelivery(d)
        PROVE  ClonesCurrent' /\ (target' >= target)
    BY <1>2, <2>3 DEF Redeliver, LoseDelivery, objects
  <2> QED
    BY <1>3, <1>4, <1>5, <1>6, <1>8, <2>1, <2>2, <2>3 DEF ClusterNext
<1>9. ASSUME WebhookNext
      PROVE  ClonesCurrent' /\ (target' >= target)
  BY <1>2, <1>9
     DEF WebhookNext, HandleGitHub, HookGet, HookPatch, HookFails, objects, repositories
<1>10. ASSUME NEW i \in Instances, StepOf(i)
       PROVE  ClonesCurrent' /\ (target' >= target)
  <2>1. ASSUME NEW op, jobs' = JobsWith(op.name, op.gen, op.rev), NEW n \in JobNames
        PROVE  jobs'[n] = jobs[n] \/ jobs'[n].phase # "cloned"
    BY <1>1, <2>1 DEF JobsWith, NewJob
  <2>2. ASSUME NEW n \in JobNames PROVE jobs'[n] = jobs[n] \/ jobs'[n].phase # "cloned"
    BY <1>10, <2>1, Touches DEF CreateJob, CreateJobFails
  <2>3. UNCHANGED repositories
    BY <1>10, Touches
  <2> QED
    BY <1>2, <2>2, <2>3 DEF repositories
<1>11. CASE UNCHANGED vars
  BY <1>7, <1>11 DEF vars, objects, repositories
<1> QED
  BY <1>8, <1>9, <1>10, <1>11, StepsOfInstances DEF Next

\* While the spec stands the target never shows an older revision than it did (the
\* runner's forced pushes), whatever is pushed, fails, crashes or expires, as long as
\* no step disturbs.
THEOREM TargetAdvances ==
  ASSUME NEW i \in Instances
  PROVE  Spec /\ [][Undisturbed(i)]_vars /\ [](mirror.gen = 1) => TargetNeverRegresses
<1>1. Init => ClonesCurrent
  BY DEF Init, ClusterInit, ClonesCurrent, AbsentJob, NewJob
<1>2. TypeOK /\ ClonesCurrent /\ OneActiveJob /\ GensExist /\ mirror.gen = 1 /\ [Next]_vars
        => ClonesCurrent' /\ [target' >= target]_target
  BY ClonesStayCurrent
<1>3. ExclusionInv(i) => OneActiveJob /\ GensExist
  BY DEF ExclusionInv
<1> QED
  BY <1>1, <1>2, <1>3, ExclusionInvariant, TypeCorrect, PTL DEF Spec, TargetNeverRegresses

------------------------------------------------------------------------------
(***************************************************************************)
(* The strict contract.  Contract and StrictContract differ in two guards: *)
(* that of Schedule and that of Report.                                    *)
(***************************************************************************)

\* The Job whose outcome is recorded has not expired meanwhile.
RecordsPresent(i) == CompletedPatch(i) => JobExists(jobs[rec[i].done.name])

\* A sync is under way when its Job runs.
LEMMA UnderwayRuns ==
  ASSUME TypeOK, NEW n \in JobNames
  PROVE  StrictContract!Underway(n) => Running(n)
<1>1. jobs[n].phase \in {"absent"} \cup RunningPhases \cup FinishedPhases
  BY DEF TypeOK, Job
<1>2. Syncs[n].state = SyncState(jobs[n].phase)
  BY DEF Syncs
<1> QED
  BY <1>1, <1>2, SyncStates
     DEF StrictContract!Underway, Running, JobRunning, RunningPhases, FinishedPhases

\* A Job is created only when no other runs: the Lease is its own.
LEMMA CreatedAlone ==
  ASSUME TypeOK, NEW i \in Instances, mirror.gen = 1, ExclusionInv(i), At(i, "createJob"),
         ~Exists(rec[i].op.name), NEW n \in JobNames
  PROVE  ~Running(n)
<1>1. Acquiring(i) /\ lease = rec[i].op.name
  BY DEF Acquiring, At, ExclusionInv, LeaseRead
<1>2. rec[i].op.gen \in 1..mirror.gen /\ mirror.gen = 1
  BY <1>1, HolderOrOlder, Typed, Numbers
<1>3. ~Running(LegacyJob)
  BY <1>1, HolderOrOlder
<1>4. CASE n # LegacyJob /\ Running(n)
  <2>1. n # lease
    BY <1>1, <1>4, Phases DEF Exists, Running
  <2>2. Gen(n) < rec[i].op.gen /\ Gen(n) # 0 /\ jobs[n].gen \in Nat
    BY <1>1, <1>4, <2>1, HolderOrOlder
  <2> QED
    BY <1>2, <2>2 DEF Gen
<1> QED
  BY <1>3, <1>4

\* What a create schedules, it schedules strictly.
LEMMA StrictlyScheduled ==
  ASSUME TypeOK, IInv, NEW i \in Instances, mirror.gen = 1, ExclusionInv(i),
         CreateJob(i) \/ CreateJobFails(i)
  PROVE  [StrictContract!Next]_(StrictContract!vars)
<1> DEFINE op == rec[i].op
<1>1. \/ UNCHANGED Contract!vars
      \/ op.name \in JobNames /\ ~JobExists(jobs[op.name]) /\ Contract!Schedule(op.name)
  BY Creates, CreationSchedules, Typed
<1>2. CASE UNCHANGED Contract!vars
  BY <1>2 DEF Contract!vars, StrictContract!vars
<1>3. CASE op.name \in JobNames /\ ~JobExists(jobs[op.name]) /\ Contract!Schedule(op.name)
  <2>1. \A n \in JobNames : ~StrictContract!Underway(n)
    BY <1>3, CreatedAlone, UnderwayRuns DEF CreateJob, CreateJobFails, Exists
  <2>2. StrictContract!Schedule(op.name)
    BY <1>3, <2>1
       DEF Contract!Schedule, StrictContract!Schedule, Contract!NewSync, StrictContract!NewSync
  <2> QED
    BY <1>3, <2>2 DEF StrictContract!Next
<1> QED
  BY <1>1, <1>2, <1>3

\* A completion reports the revision of a Job that completed, or none.
LEMMA CompletionReports ==
  ASSUME NEW m \in Mirror, NEW name, NEW job, NEW now
  PROVE  LET a == ApplyCompletion(m, name, job, now) IN
         \/ a.status.mirrored = m.status.mirrored
         \/ job.phase = "complete" /\ a.status.mirrored = job.rev
<1> DEFINE n == [m EXCEPT !.status.observed = m.gen]
           Shaped(k) == DOMAIN k = {"gen", "status"} /\ DOMAIN k.status = DOMAIN m.status
           Reports(v) == v = m.status.mirrored \/ (job.phase = "complete" /\ v = job.rev)
<1>1. ASSUME NEW k, Shaped(k), k.status.mirrored = m.status.mirrored, NEW gen
      PROVE  LET o == ApplyOutcome(k, name, job, gen) IN
             Shaped(o) /\ Reports(o.status.mirrored)
  BY <1>1 DEF ApplyOutcome, MirroredAfter, Mirror, Status
<1>2. ASSUME NEW k, Shaped(k)
      PROVE  ApplyFollowup(k, now).status.mirrored = k.status.mirrored
  BY <1>2 DEF ApplyFollowup, Mirror, Status
<1>3. Shaped(m) /\ Shaped(n) /\ n.status.mirrored = m.status.mirrored
  BY DEF Mirror, Status
<1>4. ApplyCompletedJobStatus(m, name, job, now)
        = ApplyFollowup(ApplyOutcome(n, name, job, m.gen), now)
  BY DEF ApplyCompletedJobStatus
<1>5. ApplyCompletedLegacyJobStatus(m, name, job)
        = ApplyOutcome(m, name, job, m.status.observed)
  BY DEF ApplyCompletedLegacyJobStatus
<1> HIDE DEF n, Shaped, Reports
<1>6. Reports(ApplyCompletedLegacyJobStatus(m, name, job).status.mirrored)
  BY <1>1, <1>3, <1>5
<1>7. Reports(ApplyCompletedJobStatus(m, name, job, now).status.mirrored)
  BY <1>1, <1>2, <1>3, <1>4
<1> QED
  BY <1>6, <1>7 DEF ApplyCompletion, Reports

\* The API server takes the reported revision as it takes the other fields.
LEMMA MirroredTaken ==
  ASSUME mirror \in Mirror, NEW base, NEW new, PatchMirror(base, new)
  PROVE  mirror'.status.mirrored
           = Patched(base.status.mirrored, new.status.mirrored, mirror.status.mirrored)
BY DEF PatchMirror, MergePatch, Mirror, Status

\* What the patch of a completion reports, it reports strictly: the Job it is of has
\* completed and is still there.
LEMMA StrictlyReported ==
  ASSUME TypeOK, IInv, IInv', NEW i \in Instances, ExclusionInv(i), CompletedPatch(i),
         RecordsPresent(i)
  PROVE  [StrictContract!Next]_(StrictContract!vars)
<1> DEFINE base == rec[i].base
           name == rec[i].done.name
           job == rec[i].done.job
           new == ApplyCompletion(base, name, job, rec[i].plan.now)
<1>1. mirror \in Mirror /\ base \in Mirror /\ name \in JobNames
  BY Typed, Numbers
<1>2. PatchMirror(base, new) /\ rec[i].pc = "completedPatch"
  BY DEF CompletedPatch, At
<1>3. Contract!Report
  BY Typed, CompletedPatchReports
<1>4. \/ new.status.mirrored = base.status.mirrored
      \/ job.phase = "complete" /\ new.status.mirrored = job.rev
  BY <1>1, CompletionReports
<1>5. mirror'.status.mirrored
        = Patched(base.status.mirrored, new.status.mirrored, mirror.status.mirrored)
  <2> HIDE DEF base, new
  <2> QED
    BY <1>1, <1>2, MirroredTaken
<1>6. jobs[name] = job
  BY <1>2 DEF ExclusionInv, ListedFinished, GoodCopy, InHand, Past, RecordsPresent
<1> HIDE DEF base, name, job, new
<1>7. CASE mirror'.status.mirrored = mirror.status.mirrored
  BY <1>3, <1>7 DEF Contract!Report, StrictContract!vars
<1>8. CASE mirror'.status.mirrored # mirror.status.mirrored
  <2>1. job.phase = "complete" /\ mirror'.status.mirrored = job.rev
    BY <1>4, <1>5, <1>8 DEF Patched
  <2>2. Syncs[name].state = "succeeded" /\ Syncs[name].rev = mirror'.status.mirrored
    BY <1>1, <1>6, <2>1, SyncStates DEF Syncs
  <2>3. StrictContract!Report
    BY <1>1, <1>3, <2>2 DEF Contract!Report, StrictContract!Report
  <2> QED
    BY <2>3 DEF StrictContract!Next
<1> QED
  BY <1>7, <1>8

\* The other steps are steps of either contract, or are not seen.
LEMMA StrictlySeen ==
  ASSUME TypeOK, IInv, IInv', NEW i \in Instances, mirror.gen = 1, ExclusionInv(i), Next,
         Undisturbed(i), RecordsPresent(i)
  PROVE  [StrictContract!Next]_(StrictContract!vars)
<1>1. Contract!vars = StrictContract!vars
  BY DEF Contract!vars, StrictContract!vars
<1>2. CASE ClusterNext
  <2>1. ASSUME NEW n \in JobNames
        PROVE  /\ Contract!Fetch(n) => StrictContract!Fetch(n)
               /\ Contract!Deliver(n) => StrictContract!Deliver(n)
               /\ Contract!Succeed(n) => StrictContract!Succeed(n)
               /\ Contract!Fail(n) => StrictContract!Fail(n)
               /\ Contract!Forget(n) => StrictContract!Forget(n)
    BY DEF Contract!Fetch, StrictContract!Fetch, Contract!Deliver, StrictContract!Deliver,
           Contract!Succeed, StrictContract!Succeed, Contract!Fail, StrictContract!Fail,
           Contract!Forget, StrictContract!Forget, Contract!Underway, StrictContract!Underway,
           Contract!Ended, StrictContract!Ended, Contract!Move, StrictContract!Move,
           Contract!NoSync, StrictContract!NoSync
  <2>2. Contract!Push => StrictContract!Push
    BY DEF Contract!Push, StrictContract!Push
  <2>3. CASE ClusterSees
    BY <2>1, <2>2, <2>3 DEF ClusterSees, StrictContract!Next
  <2>4. CASE UNCHANGED Contract!vars
    BY <1>1, <2>4 DEF Contract!vars, StrictContract!vars
  <2> QED
    BY <1>2, <2>3, <2>4, ClusterSeen
<1>3. CASE WebhookNext
  <2>1. CASE Contract!Request
    BY <2>1 DEF Contract!Request, StrictContract!Request, StrictContract!Next
  <2>2. CASE UNCHANGED Contract!vars
    BY <2>2 DEF Contract!vars, StrictContract!vars
  <2> QED
    BY <1>3, <2>1, <2>2, WebhookSeen
<1>4. CASE ReconcilerNext
  <2>1. StepOf(i)
    BY <1>4, StepsAlone DEF Undisturbed
  <2>3. CASE CreateJob(i) \/ CreateJobFails(i)
    BY <2>3, StrictlyScheduled
  <2>4. CASE CompletedPatch(i)
    BY <2>4, StrictlyReported
  <2>5. CASE ~(CreateJob(i) \/ CreateJobFails(i) \/ CompletedPatch(i))
    <3>1. UNCHANGED Contract!vars
      BY <2>1, <2>5, ReconcilerHides DEF StepOf, ReconcileStep
    <3> QED
      BY <3>1 DEF Contract!vars, StrictContract!vars
  <2> QED
    BY <2>3, <2>4, <2>5
<1> QED
  BY <1>2, <1>3, <1>4 DEF Next

\* While the spec stands, and no step disturbs, the operator runs one sync at a time, and
\* reports a revision only while a successful Job for it exists (createLockedSyncJob,
\* reconcileCompletedJobs), unless the Job expires before its outcome is recorded.
THEOREM StrictlyContracted ==
  ASSUME NEW i \in Instances
  PROVE  Spec /\ [][Undisturbed(i)]_vars /\ [][RecordsPresent(i)]_vars /\ [](mirror.gen = 1)
           => KeepsStrictContract
<1>1. Init => StrictContract!Init
  BY InitSeen DEF Contract!Init, StrictContract!Init, Contract!NoSync, StrictContract!NoSync,
                  Contract!NewSync, StrictContract!NewSync
<1>2. IInv /\ UNCHANGED vars => UNCHANGED StrictContract!vars
  <2> SUFFICES ASSUME IInv, UNCHANGED vars PROVE UNCHANGED StrictContract!vars
    OBVIOUS
  <2>1. UNCHANGED Contract!vars
    BY NotSeen DEF vars, objects, repositories
  <2> QED
    BY <2>1 DEF Contract!vars, StrictContract!vars
<1>3. TypeOK /\ IInv /\ IInv' /\ ExclusionInv(i) /\ mirror.gen = 1
          /\ [Next]_vars /\ [Undisturbed(i)]_vars /\ [RecordsPresent(i)]_vars
        => [StrictContract!Next]_(StrictContract!vars)
  <2> SUFFICES ASSUME TypeOK, IInv, IInv', ExclusionInv(i), mirror.gen = 1, [Next]_vars,
                      [Undisturbed(i)]_vars, [RecordsPresent(i)]_vars
               PROVE  [StrictContract!Next]_(StrictContract!vars)
    OBVIOUS
  <2>1. CASE UNCHANGED vars
    BY <1>2, <2>1
  <2>2. CASE ~UNCHANGED vars
    BY <2>2, StrictlySeen
  <2> QED
    BY <2>1, <2>2
<1> QED
  BY <1>1, <1>3, ExclusionInvariant, Invariance, TypeCorrect, PTL
     DEF Spec, KeepsStrictContract, StrictContract!Spec
==============================================================================
