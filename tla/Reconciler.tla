------------------------------ MODULE Reconciler ------------------------------
(***************************************************************************)
(* The GitMirror controller, internal/controller/gitmirror_controller.go.  *)
(* Each instance reconciles the mirror on one worker.  A Reconcile is the  *)
(* sequence of its calls to the API server and to the cache; what it does  *)
(* between two calls is part of the step of the call before, and works on  *)
(* the copies it made, not on what the cluster has become meanwhile.       *)
(***************************************************************************)
EXTENDS Webhook

CONSTANTS
  Fallback,    \* whether spec.fallback.schedule is set
  LostAnswers  \* whether a create that fails may have been served

ASSUME ReconcilerFlagsAssumption == {Fallback, LostAnswers} \subseteq BOOLEAN

VARIABLE rec  \* the Reconcile each instance is in

Pcs == {"idle", "list", "completed", "completedPatch", "releaseGet",
        "releaseDelete", "generation", "pending", "fallback", "untilNext",
        "leaseCreate", "leaseGet", "holderGet", "leaseUpdate", "createJob",
        "undoGet", "undoDelete", "scheduledGet", "scheduledPatch"}

(***************************************************************************)
(* What Reconcile keeps of the mirror and the Jobs it read at its start:   *)
(* the arguments mirror, active and now of the reconcile functions.  The   *)
(* stamp makes Job names of now.                                           *)
(***************************************************************************)
Plan == [gen : 0..MaxGen, unobserved : BOOLEAN, pending : BOOLEAN,
         triggered : Times, active : BOOLEAN, now : Times, stamp : 0..MaxStamp]

NoPlan == [gen |-> 0, unobserved |-> FALSE, pending |-> FALSE, triggered |-> 0,
           active |-> FALSE, now |-> 0, stamp |-> 0]

\* A finished Job of the list, as listed.
Listed == [name : JobNames, job : Job]
NoListed == [name |-> LegacyJob, job |-> AbsentJob]

\* The sync Job being scheduled, for whom, and the holder of the Lease it met.
Op == [kind : {"none", "followup", "generation", "pending", "fallback", "coalesce"},
       name : JobNames \cup {NoJob}, gen : 0..MaxGen, rev : Revisions,
       holder : JobNames \cup {NoJob}]

NoOp == [kind |-> "none", name |-> NoJob, gen |-> 0, rev |-> 0, holder |-> NoJob]

Rec == [pc : Pcs, plan : Plan, todo : SUBSET Listed, done : Listed,
        followup : BOOLEAN, op : Op, base : Mirror]

IdleRec == [pc |-> "idle", plan |-> NoPlan, todo |-> {}, done |-> NoListed,
            followup |-> FALSE, op |-> NoOp, base |-> NewMirror]

ReconcilerInit == rec = [i \in Instances |-> IdleRec]

(***************************************************************************)
(* Time stamps.  A name made of the current time is new: no copy of a Job, *)
(* of the status or of the Lease holds it, and no other Reconcile.         *)
(***************************************************************************)
MirrorNames(m) == {m.status.lastJob, m.status.completed}
PresentJobs(js) == {n \in JobNames : JobExists(js[n])}

NamesInUse ==
  PresentJobs(jobs) \cup MirrorNames(mirror) \cup {lease}
    \cup UNION {PresentJobs(cache[i].jobs) \cup MirrorNames(cache[i].mirror)
                  \cup {cache[i].lease} : i \in Instances}
    \cup UNION {MirrorNames(hook[h].base) : h \in Handlers}
    \cup UNION {MirrorNames(rec[i].base) : i \in Instances}

FreshStamps ==
  {k \in Stamps : /\ ResyncJob(k) \notin NamesInUse
                  /\ ScheduledJob(k) \notin NamesInUse
                  /\ \A i \in Instances : rec[i].plan.stamp # k}

\* Which new stamp is taken does not matter: the least one.
NextStamp(k) == k \in FreshStamps /\ \A l \in FreshStamps : k <= l

------------------------------------------------------------------------------
(***************************************************************************)
(* Reconcile: read the mirror, list its Jobs, then the four reconcile      *)
(* functions in turn.                                                      *)
(***************************************************************************)
At(i, pc) == rec[i].pc = pc

\* Reconcile returns; requeue: with RequeueAfter.
ReturnAtOnce(i, requeue) ==  \* variant
  /\ rec' = [rec EXCEPT ![i] = IdleRec]
  /\ armed' = armed
Return(i, requeue) ==
  /\ rec' = [rec EXCEPT ![i] = IdleRec]
  /\ armed' = [armed EXCEPT ![i] = @ \/ requeue]

\* Where Reconcile goes once reconcileCompletedJobs has nothing left to do.
FallbackStage == "fallback"
PendingStage(plan) == IF plan.pending /\ ~plan.active THEN "pending" ELSE FallbackStage
GenerationStage(plan) ==
  IF plan.unobserved /\ ~plan.active THEN "generation" ELSE PendingStage(plan)
CompletedStage(plan, todo) == IF todo # {} THEN "completed" ELSE GenerationStage(plan)

Start(i) ==
  /\ At(i, "idle") /\ queued[i]
  /\ queued' = [queued EXCEPT ![i] = FALSE]
  /\ rec' = [rec EXCEPT ![i].pc = "list", ![i].base = SeenMirror(i)]
  /\ UNCHANGED <<objects, armed, repositories, clock, faults, hook>>

ListJobs(i) ==
  /\ At(i, "list")
  /\ \E k \in Stamps :
       LET m == rec[i].base
           listed == JobsForGeneration(SeenJobs(i), m.gen)
           plan == [gen |-> m.gen,
                    unobserved |-> m.status.observed # m.gen,
                    pending |-> m.status.pending,
                    triggered |-> m.status.triggered,
                    active |-> ActiveJobExists(listed),
                    now |-> clock, stamp |-> k]
           todo == {[name |-> n, job |-> listed[n]] :
                      n \in {n \in JobNames : RecordsCompletion(m, listed, n)}}
       IN /\ NextStamp(k)
          /\ rec' = [rec EXCEPT ![i] = [IdleRec EXCEPT !.pc = CompletedStage(plan, todo),
                                                       !.plan = plan, !.todo = todo]]
  /\ UNCHANGED <<objects, queued, armed, repositories, clock, faults, hook>>

------------------------------------------------------------------------------
(***************************************************************************)
(* reconcileCompletedJobs: for every finished Job, in the list's order     *)
(* (any), patch the status, release the Lease, schedule the follow-up.     *)
(***************************************************************************)
NextCompleted(i) ==
  rec' = [rec EXCEPT ![i] = [IdleRec EXCEPT
            !.pc = CompletedStage(rec[i].plan, rec[i].todo),
            !.plan = rec[i].plan, !.todo = rec[i].todo]]

CompletedGet(i) ==
  /\ At(i, "completed")
  /\ \E l \in rec[i].todo :
       rec' = [rec EXCEPT ![i].pc = "completedPatch", ![i].todo = @ \ {l},
                          ![i].done = l, ![i].base = SeenMirror(i)]
  /\ UNCHANGED <<objects, queued, armed, repositories, clock, faults, hook>>

\* The follow-up is for the generation of the mirror Reconcile started from.
FollowupOp(r) ==
  [NoOp EXCEPT !.kind = "followup", !.name = ResyncJob(r.plan.stamp),
               !.gen = r.plan.gen, !.rev = r.base.status.requested]

CompletedPatch(i) ==
  /\ At(i, "completedPatch")
  /\ LET r == rec[i]
         followup == NeedsFollowup(r.base, r.done.name, r.done.job)
     IN /\ PatchMirror(r.base, ApplyCompletion(r.base, r.done.name, r.done.job, r.plan.now))
        /\ rec' = [rec EXCEPT ![i].pc = "releaseGet",
                              ![i].followup = followup,
                              ![i].op = IF followup THEN FollowupOp(r) ELSE NoOp,
                              ![i].base = NewMirror]
  /\ UNCHANGED <<jobs, lease, cache, leaseCopies, armed, repositories, clock, faults, hook>>

\* After releaseSyncLease: the follow-up, or the next finished Job.
AfterRelease(i) ==
  IF rec[i].followup
  THEN rec' = [rec EXCEPT ![i].pc = "leaseCreate", ![i].done = NoListed,
                          ![i].followup = FALSE]
  ELSE NextCompleted(i)

ReleaseGet(i) ==
  /\ At(i, "releaseGet")
  /\ IF SeenLease(i) = rec[i].done.name
     THEN rec' = [rec EXCEPT ![i].pc = "releaseDelete"]
     ELSE AfterRelease(i)
  /\ UNCHANGED <<objects, queued, armed, repositories, clock, faults, hook>>

\* The delete carries no precondition: whoever holds the Lease by now loses it.
DeleteLease ==
  /\ lease' = NoJob
  /\ leaseCopies' = IF lease = NoJob THEN leaseCopies ELSE {}

ReleaseDelete(i) ==
  /\ At(i, "releaseDelete")
  /\ DeleteLease
  /\ AfterRelease(i)
  /\ UNCHANGED <<mirror, jobs, cache, queued, armed, repositories, clock, faults, hook>>

------------------------------------------------------------------------------
(***************************************************************************)
(* reconcileUnobservedGeneration, reconcilePendingResync,                  *)
(* reconcileFallback: read the mirror again, choose the Job to schedule.   *)
(***************************************************************************)
Schedule(i, op) == rec' = [rec EXCEPT ![i].pc = "leaseCreate", ![i].op = op]

ReconcileUnobservedGeneration(i) ==
  /\ At(i, "generation")
  /\ LET m == SeenMirror(i) IN
       IF m.status.observed = m.gen
       THEN rec' = [rec EXCEPT ![i].pc = PendingStage(rec[i].plan)]
       ELSE Schedule(i, [NoOp EXCEPT !.kind = "generation", !.name = GenerationJob(m.gen),
                                     !.gen = m.gen, !.rev = m.status.requested])
  /\ UNCHANGED <<objects, queued, armed, repositories, clock, faults, hook>>

ReconcilePendingResync(i) ==
  /\ At(i, "pending")
  /\ LET m == SeenMirror(i) IN
       IF ~m.status.pending
       THEN rec' = [rec EXCEPT ![i].pc = FallbackStage]
       ELSE Schedule(i, [NoOp EXCEPT !.kind = "pending",
                                     !.name = PendingJobName(m, rec[i].plan.stamp),
                                     !.gen = m.gen, !.rev = m.status.requested])
  /\ UNCHANGED <<objects, queued, armed, repositories, clock, faults, hook>>

\* NextFallbackTime is the first instant after the last trigger, now if there
\* was none.
FallbackDueAgain(triggered, now) == triggered <= now  \* variant
FallbackDue(triggered, now) == triggered < now

\* While a Job is active the fallback only records that a sync is pending.
ReconcileFallback(i) ==
  /\ At(i, "fallback")
  /\ LET plan == rec[i].plan IN
       IF ~Fallback THEN Return(i, FALSE)
       ELSE IF ~FallbackDue(plan.triggered, clock)
       THEN rec' = [rec EXCEPT ![i].pc = "untilNext"] /\ UNCHANGED armed
       ELSE /\ IF plan.active
               THEN rec' = [rec EXCEPT ![i].pc = "scheduledGet",
                                       ![i].op = [NoOp EXCEPT !.kind = "coalesce"]]
               ELSE Schedule(i, [NoOp EXCEPT !.kind = "fallback",
                                             !.name = ScheduledJob(plan.stamp),
                                             !.gen = plan.gen])
            /\ UNCHANGED armed
  /\ UNCHANGED <<objects, queued, repositories, clock, faults, hook>>

\* The RequeueAfter is time.Until the next instant, by a clock read again: an
\* instant that has passed since gives a negative one, which requeues nothing.
UntilNext(i) ==
  /\ At(i, "untilNext")
  /\ Return(i, ~FallbackDue(rec[i].plan.triggered, clock))
  /\ UNCHANGED <<objects, queued, repositories, clock, faults, hook>>

------------------------------------------------------------------------------
(***************************************************************************)
(* createLockedSyncJob and acquireSyncLease: create the Lease, or take it  *)
(* over from a holder whose Job is not active any more, then create the    *)
(* Job.  A Job that exists under the name counts as created.               *)
(***************************************************************************)
CreateLease(i) ==
  /\ At(i, "leaseCreate")
  /\ IF lease = NoJob
     THEN /\ lease' = rec[i].op.name
          /\ leaseCopies' = {}
          /\ rec' = [rec EXCEPT ![i].pc = "createJob"]
     ELSE /\ rec' = [rec EXCEPT ![i].pc = "leaseGet"]
          /\ UNCHANGED <<lease, leaseCopies>>
  /\ UNCHANGED <<mirror, jobs, cache, queued, armed, repositories, clock, faults, hook>>

\* An error return: the work queue retries with backoff.
ReturnError(i) ==
  /\ rec' = [rec EXCEPT ![i] = IdleRec]
  /\ queued' = [queued EXCEPT ![i] = TRUE]

\* The copy read here is the one LeaseUpdate sends back.
GetLease(i) ==
  /\ At(i, "leaseGet")
  /\ LET holder == SeenLease(i) IN
       IF holder = NoJob
       THEN ReturnError(i) /\ UNCHANGED leaseCopies
       ELSE /\ rec' = [rec EXCEPT
                         ![i].pc = IF holder = rec[i].op.name THEN "leaseUpdate"
                                   ELSE "holderGet",
                         ![i].op.holder = holder]
            /\ leaseCopies' = IF LeaseSeenIsCurrent(i)
                              THEN leaseCopies \cup {<<i, "held">>}
                              ELSE leaseCopies \ {<<i, "held">>}
            /\ UNCHANGED queued
  /\ UNCHANGED <<mirror, jobs, lease, cache, armed, repositories, clock, faults, hook>>

\* Not acquired: try again in five seconds.
GetHolder(i) ==
  /\ At(i, "holderGet")
  /\ LET op == rec[i].op IN
       IF JobNameActiveForGeneration(SeenJobs(i), op.holder, op.gen)
       THEN Return(i, TRUE)
       ELSE rec' = [rec EXCEPT ![i].pc = "leaseUpdate"] /\ UNCHANGED armed
  /\ UNCHANGED <<objects, queued, repositories, clock, faults, hook>>

\* An update of an old copy is a conflict, so not acquired; of a Lease that has
\* been deleted, an error.
UpdateLease(i) ==
  /\ At(i, "leaseUpdate")
  /\ IF <<i, "held">> \in leaseCopies
     THEN /\ lease' = rec[i].op.name
          /\ leaseCopies' = {}
          /\ rec' = [rec EXCEPT ![i].pc = "createJob", ![i].op.holder = NoJob]
          /\ UNCHANGED <<queued, armed>>
     ELSE /\ \/ lease # NoJob /\ Return(i, TRUE) /\ UNCHANGED queued
             \/ lease = NoJob /\ ReturnError(i) /\ UNCHANGED armed
          /\ UNCHANGED <<lease, leaseCopies>>
  /\ UNCHANGED <<mirror, jobs, cache, repositories, clock, faults, hook>>

\* The Jobs once the API server has served a create.
JobsWith(name, gen, rev) ==
  IF JobExists(jobs[name]) THEN jobs
  ELSE [jobs EXCEPT ![name] = NewJob(gen, rev)]

CreateJob(i) ==
  /\ At(i, "createJob")
  /\ LET op == rec[i].op IN jobs' = JobsWith(op.name, op.gen, op.rev)
  /\ queued' = Notified("jobs", jobs' # jobs)
  /\ rec' = [rec EXCEPT ![i].pc = "scheduledGet"]
  /\ UNCHANGED <<mirror, lease, cache, leaseCopies, armed, repositories, clock, faults, hook>>

\* The create fails, or its answer is lost: release the Lease, return the error.
CreateJobFails(i) ==
  /\ At(i, "createJob")
  /\ faults < MaxFaults /\ faults' = faults + 1
  /\ LET op == rec[i].op IN
       jobs' \in {jobs} \cup (IF LostAnswers THEN {JobsWith(op.name, op.gen, op.rev)}
                             ELSE {})
  /\ queued' = Notified("jobs", jobs' # jobs)
  /\ rec' = [rec EXCEPT ![i].pc = "undoGet"]
  /\ UNCHANGED <<mirror, lease, cache, leaseCopies, armed, repositories, clock, hook>>

UndoGet(i) ==
  /\ At(i, "undoGet")
  /\ IF SeenLease(i) = rec[i].op.name
     THEN rec' = [rec EXCEPT ![i].pc = "undoDelete"] /\ UNCHANGED queued
     ELSE ReturnError(i)
  /\ UNCHANGED <<objects, armed, repositories, clock, faults, hook>>

UndoDelete(i) ==
  /\ At(i, "undoDelete")
  /\ DeleteLease
  /\ ReturnError(i)
  /\ UNCHANGED <<mirror, jobs, cache, armed, repositories, clock, faults, hook>>

------------------------------------------------------------------------------
(***************************************************************************)
(* The status patch that records the scheduled Job.                        *)
(***************************************************************************)
ScheduledGet(i) ==
  /\ At(i, "scheduledGet")
  /\ rec' = [rec EXCEPT ![i].pc = "scheduledPatch", ![i].base = SeenMirror(i)]
  /\ UNCHANGED <<objects, queued, armed, repositories, clock, faults, hook>>

ApplyScheduled(m, op, plan) ==
  CASE op.kind = "coalesce" -> ApplyWebhookState(m, Scheduled, plan.now, TRUE)
    [] op.kind = "fallback" ->
         ApplySyncScheduledForGeneration(
           ApplyWebhookState(m, Scheduled, plan.now, FALSE), op.name, op.gen, plan.now)
    [] OTHER -> ApplySyncScheduledForGeneration(m, op.name, op.gen, plan.now)

\* The fallback's RequeueAfter is the next instant after the now of the plan, or
\* after the last trigger when it coalesced; an instant that has passed, as the
\* latter always has, gives none.
AfterScheduled(i) ==
  LET kind == rec[i].op.kind
      plan == rec[i].plan
  IN \/ kind = "followup" /\ NextCompleted(i) /\ UNCHANGED armed
     \/ kind = "pending" /\ UNCHANGED armed
          /\ rec' = [rec EXCEPT ![i] = [IdleRec EXCEPT !.pc = FallbackStage, !.plan = plan]]
     \/ kind \in {"generation", "coalesce"} /\ Return(i, FALSE)
     \/ kind = "fallback" /\ Return(i, ~FallbackDue(plan.now, clock))

ScheduledPatch(i) ==
  /\ At(i, "scheduledPatch")
  /\ LET r == rec[i] IN PatchMirror(r.base, ApplyScheduled(r.base, r.op, r.plan))
  /\ AfterScheduled(i)
  /\ UNCHANGED <<jobs, lease, cache, leaseCopies, repositories, clock, faults, hook>>

------------------------------------------------------------------------------
(***************************************************************************)
(* A call of the Reconcile fails and the work queue retries; or the        *)
(* process ends and another one starts from the objects of the cluster,    *)
(* the handlers of its requests gone.                                      *)
(***************************************************************************)
Abort(i) ==
  /\ faults < MaxFaults /\ faults' = faults + 1
  /\ rec[i].pc \notin {"idle", "fallback", "untilNext", "createJob"}
  /\ ReturnError(i)
  /\ UNCHANGED <<objects, armed, repositories, clock, hook>>

Crash(i) ==
  /\ faults < MaxFaults /\ faults' = faults + 1
  /\ rec' = [rec EXCEPT ![i] = IdleRec]
  /\ hook' = [h \in Handlers |-> IF hook[h].host = i THEN IdleHook ELSE hook[h]]
  /\ SyncCache(i)
  /\ queued' = [queued EXCEPT ![i] = TRUE]
  /\ armed' = [armed EXCEPT ![i] = FALSE]
  /\ UNCHANGED <<mirror, jobs, lease, repositories, clock>>

ReconcilerNext ==
  \E i \in Instances :
    \/ Start(i) \/ ListJobs(i)
    \/ CompletedGet(i) \/ CompletedPatch(i) \/ ReleaseGet(i) \/ ReleaseDelete(i)
    \/ ReconcileUnobservedGeneration(i) \/ ReconcilePendingResync(i)
    \/ ReconcileFallback(i) \/ UntilNext(i)
    \/ CreateLease(i) \/ GetLease(i) \/ GetHolder(i) \/ UpdateLease(i)
    \/ CreateJob(i) \/ CreateJobFails(i) \/ UndoGet(i) \/ UndoDelete(i)
    \/ ScheduledGet(i) \/ ScheduledPatch(i)
    \/ Abort(i) \/ Crash(i)
==============================================================================
