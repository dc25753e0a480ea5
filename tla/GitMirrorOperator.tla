-------------------------- MODULE GitMirrorOperator --------------------------
(***************************************************************************)
(* The operator: webhook handlers and reconcilers of one or more instances *)
(* over one cluster, for one GitMirror.  The specification, the fairness   *)
(* the deployment gives, and the properties of the whole.                  *)
(***************************************************************************)
EXTENDS Reconciler, FiniteSets

vars == <<mirror, jobs, lease, cache, leaseCopies, queued, armed, source, target,
          delivered, inbox, clock, faults, hook, rec>>

Init == ClusterInit /\ WebhookInit /\ ReconcilerInit

Next ==
  \/ ClusterNext /\ UNCHANGED <<hook, rec>>
  \/ WebhookNext /\ UNCHANGED rec
  \/ ReconcilerNext

Spec == Init /\ [][Next]_vars

(***************************************************************************)
(* Fairness.  A process that runs takes its steps: the worker takes what   *)
(* is queued and finishes its Reconcile, a handler answers.  Informers     *)
(* catch up and timers fire.  A Job ends, which activeDeadlineSeconds      *)
(* guarantees where it is set.  Nothing else is fair: users need not push, *)
(* the schedule need not tick, the resync need not come.                   *)
(***************************************************************************)
ReconcileStep(i) ==
  \/ Start(i) \/ ListJobs(i)
  \/ CompletedGet(i) \/ CompletedPatch(i) \/ ReleaseGet(i) \/ ReleaseDelete(i)
  \/ ReconcileUnobservedGeneration(i) \/ ReconcilePendingResync(i)
  \/ ReconcileFallback(i) \/ UntilNext(i)
  \/ CreateLease(i) \/ GetLease(i) \/ GetHolder(i) \/ UpdateLease(i)
  \/ CreateJob(i) \/ UndoGet(i) \/ UndoDelete(i)
  \/ ScheduledGet(i) \/ ScheduledPatch(i)

Fairness ==
  /\ \A i \in Instances :
       /\ WF_vars(ReconcileStep(i))
       /\ WF_vars(TimerFires(i) /\ UNCHANGED <<hook, rec>>)
       /\ WF_vars(RefreshMirror(i) /\ UNCHANGED <<hook, rec>>)
       /\ WF_vars(RefreshJobs(i) /\ UNCHANGED <<hook, rec>>)
       /\ WF_vars(RefreshLease(i) /\ UNCHANGED <<hook, rec>>)
  /\ \A h \in Handlers : WF_vars((HookGet(h) \/ HookPatch(h)) /\ UNCHANGED rec)
  /\ WF_vars(\E n \in JobNames : (JobSucceeds(n) \/ JobFails(n)) /\ UNCHANGED <<hook, rec>>)

FairSpec == Spec /\ Fairness

------------------------------------------------------------------------------
(***************************************************************************)
(* Steps that disturb.  Nothing in the code keeps caches up to date, calls *)
(* from failing, Jobs from expiring or a second instance from starting;    *)
(* all of them are behaviours of Spec.  What the code can promise in spite *)
(* of them, it promises of a behaviour as long as none of these few steps  *)
(* has been taken, each of which is known to break a promise (README.md).  *)
(***************************************************************************)
StepOf(i) == ReconcileStep(i) \/ CreateJobFails(i) \/ Abort(i) \/ Crash(i)

\* Instance i alone reconciles (leader election).
Alone(i) == \A k \in Instances \ {i} : ~StepOf(k)

\* What a Reconcile reads to decide or to patch is what there is.  Caches may lag,
\* as long as they have caught up at that call.
ReadsCurrent(i) ==
  /\ \/ Start(i) \/ CompletedGet(i) \/ ReconcileUnobservedGeneration(i)
     \/ ReconcilePendingResync(i) \/ ScheduledGet(i)
     => SeenMirror(i) = mirror
  /\ ListJobs(i) \/ GetHolder(i) => SeenJobs(i) = VisibleJobs(jobs)
  /\ ReleaseGet(i) \/ GetLease(i) \/ UndoGet(i) => SeenLease(i) = lease

\* The Job of a schedule is for the generation the mirror has by then.
SchedulesForPresent(i) ==
  ReconcileFallback(i) /\ rec'[i].op.kind = "fallback" => rec[i].plan.gen = mirror.gen

\* After a create that failed no Job runs under its name: the create was not
\* served after all, and an earlier Job of this Reconcile does not have that name.
FailsForGood(i) == CreateJobFails(i) => ~JobRunning(jobs'[rec[i].op.name])

Undisturbed(i) ==
  Alone(i) /\ ReadsCurrent(i) /\ SchedulesForPresent(i) /\ FailsForGood(i)

\* No Job is created under the name of the one recorded last, or of one the cache
\* still shows as finished: either has expired, and its name is used again.
CreatesNewNames(i) ==
  (CreateJob(i) \/ CreateJobFails(i)) /\ jobs' # jobs =>
    /\ rec[i].op.name # mirror.status.completed
    /\ ~JobFinished(SeenJobs(i)[rec[i].op.name])

\* Recording an outcome needs less: the mirror read just before the patch.
RecordsUndisturbed(i) ==
  Alone(i) /\ (CompletedGet(i) => SeenMirror(i) = mirror) /\ CreatesNewNames(i)

------------------------------------------------------------------------------
(***************************************************************************)
(* Types.                                                                  *)
(***************************************************************************)

\* Every variable holds a value of its kind: names the builder gives Jobs,
\* statuses the API accepts, program counters of Reconcile and HandleGitHub.
TypeOK ==
  /\ mirror \in Mirror
  /\ jobs \in [JobNames -> Job]
  /\ lease \in JobNames \cup {NoJob}
  /\ cache \in [Instances -> Caches]
  /\ leaseCopies \subseteq LeaseCopies
  /\ queued \in [Instances -> BOOLEAN]
  /\ armed \in [Instances -> BOOLEAN]
  /\ source \in Revisions /\ target \in Revisions /\ delivered \in Revisions
  /\ inbox \subseteq Deliveries
  /\ clock \in Times \ {0}
  /\ faults \in 0..MaxFaults
  /\ hook \in [Handlers -> Hook]
  /\ rec \in [Instances -> Rec]

------------------------------------------------------------------------------
(***************************************************************************)
(* Exclusion.  The list of active Jobs is read at the start of Reconcile   *)
(* and the Lease is checked at its end, each from a cache, and a follow-up *)
(* does not look at the list at all.                                       *)
(***************************************************************************)

\* No two sync Jobs that belong to one generation of the mirror run at once
\* (activeJobExists and acquireSyncLease): they would push over each other.
SameGeneration(n, o) ==
  jobs[n].gen = jobs[o].gen \/ 0 \in {jobs[n].gen, jobs[o].gen}

OneActiveJob ==
  \A n, o \in JobNames :
    JobRunning(jobs[n]) /\ JobRunning(jobs[o]) /\ SameGeneration(n, o) => n = o

\* While the spec does not change the target repository never goes back to an
\* older revision: the exact mode's forced pushes come from one Job at a time,
\* each of which cloned after the one before had finished.
TargetNeverRegresses == [][target' >= target]_target

------------------------------------------------------------------------------
(***************************************************************************)
(* Status.  Handlers and reconcilers patch it from copies of different     *)
(* age, without a resource version.                                        *)
(***************************************************************************)

\* lastMirroredRevision names a revision the target has shown, whatever caches,
\* instances and crashes did to the patches that recorded it.
MirroredRevisionDelivered == mirror.status.mirrored <= delivered

\* lastError agrees with the Job lastCompletedJobName names.
OutcomeMatchesJob ==
  \A n \in JobNames :
    mirror.status.completed = n /\ JobFinished(jobs[n])
      => mirror.status.error = (jobs[n].phase = "failed")

\* Recording a webhook does not undo what a reconciler recorded between the
\* handler's read and its patch (PatchGitMirrorStatus).
Outcome(m) == <<m.status.lastJob, m.status.completed, m.status.mirrored, m.status.error>>

IntentKeepsOutcome ==
  [][(\E h \in Handlers : HookPatch(h)) => Outcome(mirror') = Outcome(mirror)]_<<mirror, hook>>

------------------------------------------------------------------------------
(***************************************************************************)
(* Progress.  What is asked for is remembered by the status alone; it is   *)
(* done only if some event, timer or running Job brings Reconcile back.    *)
(***************************************************************************)

\* The outcome of the last Job is in the status, unless the Job expired or is
\* one of an older generation, which Reconcile does not look at.
LastOutcomeRecorded ==
  LET last == mirror.status.lastJob IN
    \/ last \in {NoJob, mirror.status.completed}
    \/ ~JobExists(jobs[last])
    \/ ~JobGenerationMatches(jobs[last], mirror.gen)

Done ==
  /\ ~mirror.status.pending
  /\ mirror.status.observed = mirror.gen
  /\ LastOutcomeRecorded

\* Nothing will happen any more unless a user, GitHub or the schedule acts.
Settled ==
  /\ \A i \in Instances :
       /\ ~queued[i] /\ ~armed[i] /\ rec[i].pc = "idle"
       /\ "mirror" \in Lagging => cache[i].mirror = mirror
       /\ "jobs" \in Lagging => cache[i].jobs = VisibleJobs(jobs)
  /\ \A n \in JobNames :
       ~(JobRunning(jobs[n]) /\ jobs[n].gen \in {0, mirror.gen})

\* No wake-up is lost: the operator comes to rest only with no resync pending,
\* the generation observed and the last outcome recorded.
SettledMeansDone == Settled => Done

\* An instance that rests without a timer while no Job runs: nothing will bring it
\* back for the schedule.
Unscheduled(i) ==
  /\ Fallback /\ ~queued[i] /\ ~armed[i] /\ At(i, "idle")
  /\ \A n \in JobNames : ~JobRunning(jobs[n])

\* reconcileFallback loses the schedule in one way only: it finds the next instant
\* still to come, and the instant passes before time.Until is taken of it.  No
\* other return, and no coalesced instant, whose RequeueAfter has always passed,
\* leaves an instance without the wake-up for the next one.
ScheduleKept ==
  [][\A i \in Instances :
       ~Unscheduled(i) /\ Unscheduled(i)' =>
         UntilNext(i) /\ FallbackDue(rec[i].plan.triggered, clock)]_vars

\* No instant is scheduled more than twice.  Twice it may be: lastTriggeredAt is the
\* time Reconcile began, and an instant that passes between that and the check is
\* still due for the next Reconcile.  The first instant is the generation's Job's
\* (without faults, and with Jobs that do not expire).
ScheduledTwiceAtMost ==
  Cardinality({k \in Stamps : JobExists(jobs[ScheduledJob(k)])}) <= 2 * (clock - 1)

\* The status does not stay unsettled: a pending resync is scheduled or handed to a
\* follow-up, a generation is observed, an outcome recorded.  That a follow-up
\* is created in the end is not said, and is not so (FollowupIsScheduled).
EventuallySettled == ~Done ~> Done

\* No Reconcile is under way and every Job there is has been recorded.
AtRest ==
  /\ \A i \in Instances : At(i, "idle")
  /\ \A n \in JobNames : JobExists(jobs[n]) => n = mirror.status.completed

\* What was asked for while the operator rested is scheduled: a Job for the revision
\* runs, unless another one has been asked for since.  Failed calls, crashes, lost
\* answers, expired Jobs and a Lease left behind delay it, no more.
RequestScheduled ==
  \A r \in Revisions \ {0} :
    (AtRest /\ mirror.status.pending /\ mirror.status.requested = r)
      ~> (\/ mirror.status.requested # r
          \/ \E n \in JobNames : JobRunning(jobs[n]) /\ jobs[n].rev = r)

------------------------------------------------------------------------------
(***************************************************************************)
(* Refinement.  What the operator promises to somebody who sees only the   *)
(* repositories, the Jobs and two fields of the status (SyncContract).     *)
(***************************************************************************)
SyncState(phase) ==
  CASE phase = "absent" -> "none"
    [] phase = "created" -> "asked"
    [] phase = "cloned" -> "fetched"
    [] phase = "pushed" -> "delivered"
    [] phase = "complete" -> "succeeded"
    [] OTHER -> "failed"

Syncs == [n \in JobNames |-> [state |-> SyncState(jobs[n].phase),
                              rev |-> jobs[n].rev, got |-> jobs[n].got]]

Contract == INSTANCE SyncContract WITH
  Names <- JobNames, Strict <- FALSE, shown <- delivered,
  requested <- mirror.status.requested, reported <- mirror.status.mirrored,
  syncs <- Syncs

StrictContract == INSTANCE SyncContract WITH
  Names <- JobNames, Strict <- TRUE, shown <- delivered,
  requested <- mirror.status.requested, reported <- mirror.status.mirrored,
  syncs <- Syncs

\* However far caches lag and however many instances run: a webhook's patch
\* touches the requested revision alone and a completion's the mirrored one
\* alone, each within what was pushed and shown, and a Job is created only for a
\* pushed revision, once under its name.
KeepsContract == Contract!Spec

\* One instance with prompt caches, crashes included, runs one sync at a time, and
\* reports a revision only while a successful Job for it exists.
KeepsStrictContract == StrictContract!Spec

------------------------------------------------------------------------------
(***************************************************************************)
(* What the documentation says and the code does not keep.                 *)
(***************************************************************************)

\* README.md:182: pendingResync is true when a push arrived while a sync Job
\* was active.  Here: every active Job cloned before the last recorded push.
LatePushIsPending ==
  (/\ \A i \in Instances : At(i, "idle")
   /\ \E n \in JobNames : JobRunning(jobs[n])
   /\ \A n \in JobNames :
        JobRunning(jobs[n]) => jobs[n].phase = "cloned" /\ jobs[n].got < mirror.status.requested)
    => mirror.status.pending

\* README.md:184: a spec change gets a fresh Job for the new generation, so an
\* observed generation has one (Jobs do not expire where this is checked).
ObservedGenerationHasJob ==
  mirror.status.observed = mirror.gen => \E n \in JobNames : jobs[n].gen = mirror.gen

\* status_update_test.go:16: a status patch preserves unrelated current fields,
\* so recording a webhook keeps the Ready condition.
IntentKeepsReady ==
  [][(\E h \in Handlers : HookPatch(h))
       => mirror'.status.conditions.ready = mirror.status.conditions.ready]_<<mirror, hook>>
==============================================================================
