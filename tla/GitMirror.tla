------------------------------ MODULE GitMirror ------------------------------
(***************************************************************************)
(* The GitMirror resource and the functions that write its status:         *)
(* internal/controller/status.go and status_update.go, with the names      *)
(* internal/jobs/builder.go gives to sync Jobs.  Nothing here has a state: *)
(* the modules of the controller and of the webhook receiver apply these   *)
(* operators to the copies of the resource they hold.                      *)
(*                                                                         *)
(* Revisions are numbered by the push that made them, deliveries by the    *)
(* push they announce, 0 being the empty string.  Times are counted in     *)
(* instants of the fallback schedule, 0 being nil.                         *)
(*                                                                         *)
(* In all modules an operator marked "variant" is a plausible mistake in   *)
(* the definition that follows it.  No action uses it: it is there to see  *)
(* that a property notices the mistake.                                    *)
(***************************************************************************)
EXTENDS Naturals

CONSTANTS
  MaxGen,     \* bound on metadata.generation
  MaxPush,    \* bound on the pushes to the source repository
  MaxTick,    \* bound on the instants of the fallback schedule
  MaxStamp    \* bound on the time stamps in use at once in Job names

ASSUME MaxGenAssumption == MaxGen \in Nat \ {0}
ASSUME MaxPushAssumption == MaxPush \in Nat \ {0}
ASSUME MaxTickAssumption == MaxTick \in Nat \ {0}
ASSUME MaxStampAssumption == MaxStamp \in Nat \ {0}

Generations == 1..MaxGen
Revisions == 0..MaxPush
Deliveries == 1..MaxPush
Times == 0..MaxTick
Stamps == 1..MaxStamp

\* The delivery ID the fallback path writes, the literal "scheduled".
Scheduled == MaxPush + 1

(***************************************************************************)
(* Names of sync Jobs: the kind of the trigger ID and what makes it one of *)
(* its kind.  A legacy Job was created by a version of the operator that   *)
(* did not annotate Jobs with the generation they mirror.                  *)
(***************************************************************************)
NoJob == <<"none", 0>>
LegacyJob == <<"legacy", 0>>
GenerationJob(g) == <<"generation", g>>
DeliveryJob(d) == <<"delivery", d>>
ResyncJob(k) == <<"resync", k>>
ScheduledJob(k) == <<"scheduled", k>>

JobNames ==
  {LegacyJob}
    \cup {GenerationJob(g) : g \in Generations}
    \cup {DeliveryJob(d) : d \in 1..Scheduled}
    \cup {ResyncJob(k) : k \in Stamps}
    \cup {ScheduledJob(k) : k \in Stamps}

(***************************************************************************)
(* A Job as the operator sees it: the generation and revision annotations  *)
(* (gen 0: not annotated), and its progress.  "cloned" and "pushed" tell   *)
(* apart what the runner has done so far; got is the source revision of    *)
(* the clone until it is pushed.                                           *)
(***************************************************************************)
RunningPhases == {"created", "cloned", "pushed"}
FinishedPhases == {"complete", "failed"}

Job == [phase : {"absent"} \cup RunningPhases \cup FinishedPhases,
        gen : 0..MaxGen, rev : Revisions, got : Revisions]

AbsentJob == [phase |-> "absent", gen |-> 0, rev |-> 0, got |-> 0]
NewJob(gen, rev) == [phase |-> "created", gen |-> gen, rev |-> rev, got |-> 0]

JobExists(job) == job.phase # "absent"
JobFinished(job) == job.phase \in FinishedPhases
JobRunning(job) == job.phase \in RunningPhases

\* What the operator takes for active: a Job not finished, started or not.
JobActiveOnceStarted(job) == job.phase \in RunningPhases \ {"created"}  \* variant
JobActive(job) == JobRunning(job)

\* A Job without the annotation belongs to every generation.
JobGenerationMatchesAnnotated(job, gen) == job.gen = gen  \* variant
JobGenerationMatches(job, gen) == job.gen = 0 \/ job.gen = gen

(***************************************************************************)
(* The status.  The conditions are one list, which a merge patch replaces  *)
(* as a whole: the Ready condition's status and the SyncPending reason,    *)
(* each with the generation it was set for.                                *)
(***************************************************************************)
Conditions ==
  [ready : {"Unknown", "True", "False"},
   readyGen : 0..MaxGen,
   sync : {"None", "WebhookReceived", "ActiveJobExists", "JobScheduled",
           "FollowupScheduled"},
   syncGen : 0..MaxGen]

Status ==
  [observed : 0..MaxGen,       \* observedGeneration
   delivery : 0..Scheduled,    \* lastDeliveryID
   requested : Revisions,      \* lastRequestedRevision
   mirrored : Revisions,       \* lastMirroredRevision
   triggered : Times,          \* lastTriggeredAt
   pending : BOOLEAN,          \* pendingResync
   lastJob : JobNames \cup {NoJob},
   completed : JobNames \cup {NoJob},   \* lastCompletedJobName
   error : BOOLEAN,            \* lastError is not empty
   conditions : Conditions]

Mirror == [gen : Generations, status : Status]

NewMirror ==
  [gen |-> 1,
   status |-> [observed |-> 0, delivery |-> 0, requested |-> 0, mirrored |-> 0,
               triggered |-> 0, pending |-> FALSE, lastJob |-> NoJob,
               completed |-> NoJob, error |-> FALSE,
               conditions |-> [ready |-> "Unknown", readyGen |-> 0,
                               sync |-> "None", syncGen |-> 0]]]

------------------------------------------------------------------------------
(***************************************************************************)
(* status.go: what a caller makes of the copy it read.                     *)
(***************************************************************************)
SetReady(conditions, gen, value) ==
  [conditions EXCEPT !.ready = value, !.readyGen = gen]

SetSyncPendingAhead(conditions, gen, reason) ==  \* variant
  [conditions EXCEPT !.sync = reason, !.syncGen = gen + 1]
SetSyncPending(conditions, gen, reason) ==
  [conditions EXCEPT !.sync = reason, !.syncGen = gen]

ApplyWebhookState(m, delivery, now, active) ==
  IF active
  THEN [m EXCEPT !.status.delivery = delivery,
                 !.status.pending = TRUE,
                 !.status.conditions = SetSyncPending(@, m.gen, "ActiveJobExists")]
  ELSE [m EXCEPT !.status.delivery = delivery,
                 !.status.triggered = now,
                 !.status.pending = FALSE,
                 !.status.conditions = SetSyncPending(@, m.gen, "JobScheduled")]

ApplyWebhookIntent(m, delivery, rev) ==
  [m EXCEPT !.status.delivery = delivery,
            !.status.requested = IF rev # 0 THEN rev ELSE @,
            !.status.pending = TRUE,
            !.status.conditions = SetSyncPending(@, m.gen, "WebhookReceived")]

ApplySyncScheduled(m, name, now) ==
  [m EXCEPT !.status.observed = m.gen,
            !.status.triggered = now,
            !.status.lastJob = name,
            !.status.pending = FALSE,
            !.status.conditions = SetSyncPending(@, m.gen, "JobScheduled")]

ApplySyncScheduledForGeneration(m, name, gen, now) ==
  IF m.gen = gen THEN ApplySyncScheduled(m, name, now) ELSE m

\* What a finished Job leaves of lastError and of lastMirroredRevision.
ErrorKept(m, job) == m.status.error \/ job.phase = "failed"  \* variant
ErrorAfter(m, job) == job.phase = "failed"

MirroredAsRequested(m, job) ==  \* variant
  IF job.phase = "complete" THEN m.status.requested ELSE m.status.mirrored
MirroredAfter(m, job) ==
  IF job.phase = "complete" /\ job.rev # 0 THEN job.rev ELSE m.status.mirrored

\* The part every finished Job records; gen is the Ready condition's.
ApplyOutcome(m, name, job, gen) ==
  LET ready == IF job.phase = "complete" THEN "True" ELSE "False" IN
  [m EXCEPT !.status.lastJob = name,
            !.status.completed = name,
            !.status.error = ErrorAfter(m, job),
            !.status.mirrored = MirroredAfter(m, job),
            !.status.conditions = SetReady(@, gen, ready)]

\* A push coalesced while the Job ran is handed over to a follow-up Job.
ApplyFollowup(m, now) ==
  IF m.status.pending
  THEN [m EXCEPT !.status.pending = FALSE,
                 !.status.triggered = now,
                 !.status.conditions = SetSyncPending(@, m.gen, "FollowupScheduled")]
  ELSE m

ApplyCompletedJobStatus(m, name, job, now) ==
  ApplyFollowup(
    ApplyOutcome([m EXCEPT !.status.observed = m.gen], name, job, m.gen), now)

ApplyCompletedLegacyJobStatus(m, name, job) ==
  ApplyOutcome(m, name, job, m.status.observed)

\* The closure reconcileCompletedJobs hands to PatchGitMirrorStatus, and the
\* value it leaves in its variable followup.
CompletionApplies(m, name, job) ==
  /\ m.status.completed # name
  /\ JobGenerationMatches(job, m.gen)

ApplyCompletion(m, name, job, now) ==
  IF ~CompletionApplies(m, name, job) THEN m
  ELSE IF job.gen = 0 THEN ApplyCompletedLegacyJobStatus(m, name, job)
  ELSE ApplyCompletedJobStatus(m, name, job, now)

NeedsFollowup(m, name, job) ==
  CompletionApplies(m, name, job) /\ job.gen # 0 /\ m.status.pending

------------------------------------------------------------------------------
(***************************************************************************)
(* gitmirror_controller.go: what Reconcile makes of the mirror and the     *)
(* Jobs it read, js being Jobs by name.                                    *)
(***************************************************************************)
\* jobsForGeneration: the Jobs of other generations are as if not listed.
JobsForGeneration(js, gen) ==
  [n \in JobNames |-> IF JobGenerationMatches(js[n], gen) THEN js[n] ELSE AbsentJob]

ActiveJobExists(js) == \E n \in JobNames : JobActive(js[n])

\* The Jobs of the list that reconcileCompletedJobs records: finished, not the
\* one recorded last, and not older than a last Job that is still listed.
RecordsCompletion(m, listed, n) ==
  /\ JobFinished(listed[n])
  /\ m.status.completed # n
  /\ \/ m.status.lastJob \in {NoJob, n}
     \/ ~JobExists(listed[m.status.lastJob])

\* The trigger ID is the last delivery's, a time stamp if there was none.
PendingJobName(m, stamp) ==
  IF m.status.delivery = 0 THEN ResyncJob(stamp) ELSE DeliveryJob(m.status.delivery)

\* Whether the Job that holds the Lease keeps a mirror of generation gen out.
NoHolderActive(js, n, gen) == FALSE  \* variant
MissingHolderActive(js, n, gen) ==  \* variant
  ~JobExists(js[n]) \/ (JobActive(js[n]) /\ JobGenerationMatches(js[n], gen))
JobNameActiveForGeneration(js, n, gen) ==
  JobActive(js[n]) /\ JobGenerationMatches(js[n], gen)

------------------------------------------------------------------------------
(***************************************************************************)
(* status_update.go: a JSON merge patch carries the fields in which the    *)
(* mutated copy differs from the copy it was made from, and no resource    *)
(* version: the API server keeps its own value of every other field and    *)
(* never answers with a conflict.                                          *)
(***************************************************************************)
PatchedWhole(base, new, server) == new  \* variant
Patched(base, new, server) == IF new = base THEN server ELSE new

MergePatch(base, new, server) ==
  [server EXCEPT !.status =
    [observed |-> Patched(base.status.observed, new.status.observed, @.observed),
     delivery |-> Patched(base.status.delivery, new.status.delivery, @.delivery),
     requested |-> Patched(base.status.requested, new.status.requested, @.requested),
     mirrored |-> Patched(base.status.mirrored, new.status.mirrored, @.mirrored),
     triggered |-> Patched(base.status.triggered, new.status.triggered, @.triggered),
     pending |-> Patched(base.status.pending, new.status.pending, @.pending),
     lastJob |-> Patched(base.status.lastJob, new.status.lastJob, @.lastJob),
     completed |-> Patched(base.status.completed, new.status.completed, @.completed),
     error |-> Patched(base.status.error, new.status.error, @.error),
     conditions |-> Patched(base.status.conditions, new.status.conditions,
                            @.conditions)]]
==============================================================================
