# A specification of git-mirror-operator

The operator keeps copies of git repositories: a `GitMirror` resource names a
source on GitHub and a target; a push webhook, a change of the spec or a cron
schedule makes the controller create a Kubernetes Job, whose pod clones the
source and pushes the clone to the target.  These modules model the controller,
the webhook receiver, the status they share and the sync runner.  TLC checks them
on small instances; TLAPS proves for every value of the constants that each is
type correct, that the operator implements an abstract contract, that what a
runner reports as done is done, that Jobs exclude each other, that the status
tells the truth about them, and that no wake-up is lost.

## Inventory

| part | source | state | operations | modelled in |
|---|---|---|---|---|
| controller | `internal/controller/gitmirror_controller.go` | none of its own between Reconciles; within one, the copies it read | `Reconcile` and the four reconcile functions, `createLockedSyncJob`, `acquireSyncLease`, `releaseSyncLease` | `Reconciler` |
| status | `internal/controller/status.go`, `status_update.go`, `api/v1alpha1` | the status of the `GitMirror` | `Apply...`, `PatchGitMirrorStatus` | `GitMirror` |
| webhook receiver | `internal/webhook/server.go`, `internal/github` | none; each request its locals | `HandleGitHub`, `findMirror`, `webhookSecret`, `VerifySignature256` | `Webhook`, `SharedRepository` |
| cluster (external) | - | `GitMirror`s, Jobs, Lease, informer caches, work queues, source and target | informers, timers, Job controller, garbage collector, users, GitHub | `Cluster`, `SharedRepository`, `SyncJob` |
| Job builder | `internal/jobs/builder.go` | none | `BuildSyncJob` | `JobBuilder`, `SyncJob`; names and annotations in `GitMirror` |
| sync runner | `sync/main.go`, `internal/syncenv` | the clone in its pod, the target | `ConfigFromEnv`, `Run`: checks, clone, push branches, push tags | `SyncRunner`, `SyncJob` |
| API rules | `api/v1alpha1/gitmirror_types.go` | - | validation of a spec | `JobBuilder` |
| manager, HTTP server | `cmd/main.go` | flags | start | the instances of `Cluster` |
| charts, RBAC, tests | `charts`, `config`, `test` | - | - | not modelled |

How they interact.  A delivery becomes a patch of the status
(`lastRequestedRevision`, `pendingResync`), which wakes the controller through
its watch of `GitMirror`s; the controller takes the repository's Lease, creates
a Job and patches the status again; the Job's changes wake the controller
through its watch of owned Jobs; it records the outcome, releases the Lease and
may create a follow-up Job.  Nothing but the API server connects the parts, and
every read of it but that of a webhook secret comes from a cache.

What is hard.  Handlers and reconcilers patch one status without a resource
version; the controller decides on a list of Jobs it read several calls ago; the
Lease is keyed by a Job name that may not exist yet; any call can fail, any
process can end between two calls; a lost wake-up leaves work undone with nobody
to notice; Jobs run, retry, are killed and expire on their own time; several
`GitMirror`s may share a Lease; four places, in two binaries and the CRD, decide what
a valid spec is.  `PROJECT.json` lists these hazards line by line with the properties that cover them.

What makes it correct.

- Controller: no two sync Jobs of one generation run at once; no work is left
  without a wake-up; the status settles in the end, and what is asked of an operator
  at rest gets its Job.
- Status: a field keeps what another writer recorded; the outcome belongs to the
  Job it names; a mirrored revision has been mirrored.
- Receiver: a delivery is recorded only for a `GitMirror` it was signed for.
- Builder and runner: an admitted spec is built, a built Job is accepted; success
  means the target has what the spec asks for; additive mode loses nothing; tags do
  not arrive before their branches; a Job ends.

## Modules

| chain (each EXTENDS the one before) | what it is |
|---|---|
| `GitMirror`, `Cluster`, `Webhook`, `Reconciler`, `GitMirrorOperator` | one `GitMirror`, every API call a step; `MCOperator` for TLC, `OperatorProofs`, `ContractProofs`, `StatusProofs`, `OperatorExclusionProofs` |
| `SyncContract` | what that operator promises; instantiated by `GitMirrorOperator` |
| `GitMirror`, `SharedRepository` | several `GitMirror`s of one repository; `MCSharedRepository`, `SharedRepositoryProofs`, `ExclusionProofs` |
| `SyncRunner`, with `JobBuilder`, `SyncJob` | one Job from its spec to its end; `MCSyncJob`, `SyncRunnerProofs`, `SyncJobProofs` |

**GitMirror.**  The status as a record, one operator for each function of
`status.go`, and `MergePatch`: `PatchGitMirrorStatus` reads a copy, mutates it
and sends the difference, so a step has the copy (`base`), the mutated copy and
the server's present value, and each field is the mutated one only where it
differs from `base`.  The conditions are one field, because a JSON merge patch of
a custom resource replaces a list as a whole.  Revisions are numbers of pushes,
0 the empty string; times are counted in instants of the cron schedule, 0 nil.
`lastWebhookAt`, `lastSuccessAt` and `lastFailureAt`, which nothing reads, are left
out.  What the reconcile functions compute without a call (`JobsForGeneration`,
`RecordsCompletion`, `JobNameActiveForGeneration`...) is here too, for
`Reconciler` and `SharedRepository` both need it.

**Cluster.**  One `GitMirror`, its Jobs by name, one Lease.  `Lagging` says
for which kinds of object an instance's cache may be behind; such a cache jumps to
the server's value at any time, and the jump is what puts the mirror in the queue.
A kind that does not lag is read from the server and queues at once.  The Lease's
resource version is the set `leaseCopies` of the copies that are still current,
which is all an update depends on.  A Job goes from created to cloned to pushed
(pods may fail and clone again at any point), then to complete or failed, then,
if `Expiring`, away; the operator sees only whether it finished.  `target` is the
revision the target shows, `delivered` the newest it ever showed.

**Webhook.**  `HandleGitHub(h, i, d)`: handler `h` of instance `i` takes a
delivery off the wire and compares it with the mirror it found; `HookGet` and
`HookPatch` are the two halves of the status patch; `HookFails` is an API error.

**Reconciler.**  A Reconcile is a sequence of calls to the API server; a step
is one call with everything the code does until the next.  `rec[i].plan` holds what
it read at its start: generation, pending, last trigger, `active`, `now`.

| code | steps |
|---|---|
| `Reconcile` | `Start`, `ListJobs` |
| `reconcileCompletedJobs` | `CompletedGet`, `CompletedPatch`, then the release and perhaps the creation below |
| `releaseSyncLease` | `ReleaseGet`, `ReleaseDelete`; after a failed create `UndoGet`, `UndoDelete` |
| `reconcileUnobservedGeneration` | `ReconcileUnobservedGeneration`, then the creation |
| `reconcilePendingResync` | `ReconcilePendingResync`, then the creation |
| `reconcileFallback` | `ReconcileFallback`, the check; then `UntilNext`, the return of an instant still to come, or the creation unless a Job is active |
| `acquireSyncLease` | `CreateLease`, `GetLease`, `GetHolder`, `UpdateLease` (a conflict: not acquired; the Lease gone: an error) |
| `createLockedSyncJob` | the above, then `CreateJob` or `CreateJobFails` |
| the patch that records the Job | `ScheduledGet`, `ScheduledPatch` |
| any call's error, the process's end | `Abort`, `Crash` |

A name made of the current time (`resync-<time>`, `scheduled-<time>`) is new; the
model takes the least of `MaxStamp` stamps that no object, cache or copy holds.
Requeueing is `armed` (a `RequeueAfter` is running) and `queued`; a timer that runs
stays, and code that returns `ctrl.Result{}` sets neither.  `reconcileFallback` reads
the clock to check the instant and once more for its `RequeueAfter`, and these
are two steps: a `RequeueAfter` that has passed sets no timer.

**SyncContract.**  Source, target, the syncs by name and two fields of the
status, with atomic steps: push, request, schedule, fetch, deliver, succeed, fail,
forget, report.  `GitMirrorOperator` instantiates it twice.  `Contract`: a request
is for something pushed, a sync is created once under its name and for something
pushed, a report names something shown.  `StrictContract` adds that syncs go one at
a time and that a report has a successful sync to show for it.  The mapping reads
the phases of the Jobs as states of syncs; Lease, caches, queues, handlers, copies
and all other fields of the status are not visible to the contract.

**SharedRepository.**  Several `GitMirror`s with one repository, hence one Lease
(`SyncLeaseName`), and one worker, as controller-runtime has by default.  The
receiver is complete: a request may be of another event, for another repository,
signed with any secret or none, without delivery ID (`Hooks` says which of these
webhooks are set up; the signature covers the payload only, that the delivery ID in
the header belongs to it is assumed); `FindMirror` gives the
candidates, of which the code takes the first of a list in no promised order, and
everything the code refuses leaves no trace.  A handler's decision and its patch are
two steps, so that `GitMirror`s change, or go, in between.  A Reconcile is taken in
steps between which others can act: `Begin` (Get, List and what is computed from
them), `RecordCompleted` for one finished Job, `Choose`, `AcquireLease`, `CreateJob`,
`RecordScheduled`; `Stage` says which comes next.  `DeleteMirror` and `CollectJobs`
are deletion and its cascade: the Jobs go, the Lease stays.  The calls within a
step, their failures and the caches are the subject of `Reconciler` and not
repeated.

**SyncRunner.**  `ConfigFromEnv` turns the pod's environment into a
configuration; `Run` follows it.  Refs are functions from names to commits.  Exact mode
overwrites and prunes; additive mode pushes unforced refspecs, so git refuses a
branch that is not a fast-forward and a tag that exists.  A push that fails may
have moved any subset of its refs.  A new pod starts with an empty `/tmp` from the
target the last one left.

**JobBuilder, SyncJob.**  A spec as the API server may hold it, what the CRD's
rules admit, what `BuildSyncJob` refuses and the environment it makes.  A `SyncJob`
is built or refused; its pods start once the Secrets they refer to exist, run the
runner's steps, and are killed at the deadline, if there is one, in the middle of
whatever they do.  `SyncJob` starts from specs the CRD would not admit as well, because
the builder checks them again.

Operators marked `variant` are small mistakes in the definition that follows
them.  No action uses them; replacing the definition by its variant makes the
property named in `PROJECT.json` fail, which shows that the property depends on
that code.

## Runs

The bounds are in the cfg files.

| run | instance | checks |
|---|---|---|
| `pushes_and_crashes` | 1 operator, 2 pushes, 1 fault | `TypeOK`, `OneActiveJob`, `TargetNeverRegresses`, `OutcomeMatchesJob`, `IntentKeepsOutcome`, `KeepsStrictContract` |
| `generations` | 2 generations, a legacy Job, 1 push, 1 fault | `OneActiveJob`, `SettledMeansDone` |
| `fallback_schedule` | 2 instants, 1 push | `OneActiveJob`, `ScheduledTwiceAtMost`, `ScheduleKept` |
| `lagging_caches` | all caches lag, 1 push | `MirroredRevisionDelivered`, `SettledMeansDone`, `KeepsContract` |
| `progress` | 1 push, 2 faults, lost answers, expiring Jobs, fairness | `EventuallySettled`, `RequestScheduled` |
| `shared_repository` | 2 `GitMirror`s, of which one changes and one is deleted, 2 secrets, 1 push, fairness | `TypeOK`, `OnlySigned`, `OneActiveJob`, `EventuallySettled`, `RequestScheduled` |
| `sync_runner` | 2 branches, 1 tag, 2 commits, 2 pods, every mode and kind of endpoint, fairness | `TypeOK`, `DoneMeansMirrored`, `AdmittedIsBuilt`, `BuiltIsAccepted`, `SpecifiedIsMirrored`, `AdditiveKeepsTarget`, `TagsAfterHeads`, `TagsOnlyIfAsked`, `JobEnds` |

What they show:

- `OneActiveJob`: with one instance and prompt caches the list of active Jobs
  and the Lease together exclude, for all interleavings with handlers, Jobs
  and a fault, also across an upgrade.
- `TargetNeverRegresses`: therefore forced pushes never take the target back
  while the spec stands.  Across a spec change they can: an older generation's Job
  runs on beside the new one, on purpose.
- `OutcomeMatchesJob`, `IntentKeepsOutcome`: fields patched from old copies do not
  mix up two Jobs' outcomes (the first as long as one instance records them from the
  mirror there is; see Proofs).
- `MirroredRevisionDelivered`: survives lag, a second instance and reordering,
  because the annotation was made before the clone; it is also proved.
- `KeepsStrictContract`, `KeepsContract`: the refinement.  The strict contract
  needs prompt caches and one instance, and its run has a crash and failing calls.
- `SettledMeansDone`: no path that gives up forgets its wake-up.
- `ScheduleKept`: the schedule is lost in one step only, the return of
  `gitmirror_controller.go:212` when the instant has passed since the check of line
  211.  A coalesced instant requeues nothing either, and the schedule still goes on,
  because the Job that was active and the patch bring Reconcile back.
- `ScheduledTwiceAtMost`: no instant is scheduled a third time.  A second time it may
  be: `lastTriggeredAt` is the time Reconcile began, and an instant that passes before
  the check is scheduled, and is still after `lastTriggeredAt`.
- `EventuallySettled`: the status does not stay unsettled: `pendingResync` is cleared,
  the generation observed, the outcome recorded.  It does not say that a Job came of
  it: a follow-up can be cleared and not created (run `followup`).
- `RequestScheduled`: does say so, of a request that meets the operator at rest, with
  no Reconcile under way and every Job recorded: a Job for that revision runs in the
  end, or another revision is asked for.  Faults, lost answers, expired Jobs and a
  crash between Lease and Job only delay it.  `shared_repository` checks both
  without faults, for a Lease that passes between `GitMirror`s, one of which leaves
  it behind.
- `OnlySigned`: no order of the list, no secret and no deletion in between makes
  a delivery count for a `GitMirror` that has another secret.
- `OneActiveJob` of `SharedRepository`: the status names the running Job, and the
  Lease keeps a Reconcile that has just created a follow-up from creating another
  Job on its old list.  Between two `GitMirror`s it holds until a spec changes.
- `AdmittedIsBuilt`, `BuiltIsAccepted`: the four places that judge a spec agree;
  what is left to the user are URLs and the contents of Secrets.
- `SpecifiedIsMirrored`, `TagsOnlyIfAsked`: the defaults of the two binaries
  compose: a mode left out is exact, and `includeTags: false` leaves the target's tags
  alone.  Specs are taken as they are stored: the API server stores `true` for an
  `includeTags` that was left out (`gitmirror_types.go:107`).
- `JobEnds`: with a deadline or with its Secrets a Job ends.  Without both its
  pod waits for ever and so does every later sync of that generation.

Bounds.  The operator's decisions compare one mirror copy with one list of Jobs
and one Lease; two pushes give a Job running, a push coalesced and a follow-up;
two generations give every comparison of an annotation; one fault at any call
gives every partial Reconcile (two in `progress`: a failure and one in the retry).
`MaxStamp` is at least the number of names that can be in use, except in
`lagging_caches`: there `StampsLeft` keeps the run to states where a Reconcile that
begins finds a stamp, and `FewJobs` to two Jobs on the server at once.  A state
outside these constraints is still checked, its successors are not.  This run has no
faults: with faults, `MirroredRevisionDelivered` and `KeepsContract` rest on their
proofs, `SettledMeansDone` on the run `generations` and its proof, both without lag
of the mirror.  No run checks a
pass with two instances; what holds of them is proved (`MirroredDelivered`,
`Contracted`, `IntentKept`, `NoWakeUpLost`, `ScheduleLostOneWay`).  Two `GitMirror`s are enough for a Lease taken over, lost and
left behind; with `MaxStamp` 2, one follow-up each and one more.  `Begin` of
`SharedRepository` needs a free stamp, and the push bound leaves one.
`MCHooks` has a hook signed for either `GitMirror` and one for each way to be refused.
`ScheduledTwiceAtMost` counts with two instants, of which the first is the new
generation's.  No run has a schedule and a spec change, or expiring Jobs and failing
creates, in a check of exclusion: what holds of them together is proved
(`Exclusive`), and what does not is told below.
In `MCMirrorSpecs` each kind of endpoint meets every other part of the spec that
the code reads together with it; the two endpoints go through the same code.
A Job and a repository nobody pushes to may stop, so `sync_runner`,
`shared_repository` and `followup` do not look for deadlocks.  The operator of
the other runs never may stop, and they do.

Fairness (`FairSpec`).  Weak fairness of: an instance's worker as a whole
(controller-runtime runs the queue), a running timer, each informer, each
handler, and the end of some running Job.  The last needs
`spec.job.activeDeadlineSeconds` or a git that does not hang: the builder sets a
deadline only if the spec does (`builder.go`, end of `BuildSyncJob`).  No fairness of
users, pushes, deliveries, schedule, resync or faults.  Faults are bounded, so
they stop.  `FairSpec` of `SharedRepository` has the worker (its queue is first in, first
out), timers, garbage collector, handlers and Jobs in the same sense, and nothing of
users and GitHub.  `FairJobSpec`: the Job controller acts, and passes the deadline if
there is one; that a git command ends is assumed only of Jobs without a deadline.

## Where code and documentation differ

Five runs expect a violation; each checks what a document, comment or test says.

| run | statement | what happens |
|---|---|---|
| `two_instances_exclusion` | README.md:14, the Lease prevents concurrent creation across instances | the holder's Job does not exist yet when a second instance looks for it; it takes the Lease over and both create |
| `late_push` | README.md:182, `pendingResync` after a push during a Job | `ApplySyncScheduled` clears it on a copy read after the push |
| `followup` | status.go:93, a follow-up is requested | the completion is recorded before the follow-up Job exists; the Lease has gone to another `GitMirror`, and the retry finds nothing to do.  One failed call does the same with one `GitMirror` |
| `observed_generation` | README.md:184, a spec change gets a fresh Job | the delivery's Job of the older generation has the same name and counts as created |
| `ready_condition` | status_update_test.go:16, a patch preserves unrelated fields | the list of conditions is patched as a whole |

Met while modelling and not stated by any document:

- The schedule.  `reconcileFallback` compares the instant with one reading of the
  clock and takes `time.Until` of it by another (`gitmirror_controller.go:211-212`).
  If the instant passes in between, controller-runtime is given a `RequeueAfter` that
  is not positive and requeues nothing; there is no Job and no patch.  The schedule
  waits for the next event, or the informers' resync (hours).  And an instant that
  passes between the start of a Reconcile and its check is scheduled twice.
- The outcome.  A Job that expired can be created again under its name (a delivery
  repeated, a generation unobserved because a patch failed).  If that is the name
  recorded last, the outcome of the new Job is never recorded.

Exclusion is lost in four ways, each a behaviour that TLC gave when an earlier
invariant of exclusion was too weak.  They are the four conditions of `Undisturbed`:

- A second instance (`Alone`): run `two_instances_exclusion`.
- A decision from a copy that is behind (`ReadsCurrent`).  With the Job or Lease cache
  behind, the holder's Job is not found, or the first pass of a Reconcile schedules
  the pending Job and the next does not see it.  With the mirror cache behind, an
  outcome recorded already is recorded again, with another follow-up.
- A schedule for a generation that is over (`SchedulesForPresent`).  A Reconcile of
  generation 1 records a completion and creates the follow-up.  The spec changes.
  `reconcilePendingResync` reads the mirror again, takes the Lease over from the
  follow-up, which is of another generation, and creates the delivery's Job for
  generation 2.  `reconcileFallback` still has the mirror of the start: the holder is
  of another generation again, so it takes the Lease over and creates the scheduled
  Job of generation 1 beside the follow-up.
- A create that fails while a Job runs under its name (`FailsForGood`), which then
  loses its Lease: `createLockedSyncJob` releases it by name.  Either the create was
  served and its answer lost; the retry, or the follow-up of another completion,
  takes the free Lease.  Or a Reconcile records two completions, with a push in
  between: both follow-ups have one name, made of the Reconcile's `now`, and the
  create of the second fails while the first runs.

Repeated older deliveries set `lastRequestedRevision` back.
With two instances or a lagging mirror cache `observedGeneration` and the outcome can
be patched back.  Of several `GitMirror`s of one repository a push is recorded for one
only, and refused if it is signed for another.  A holder's Job is compared with the
asker's generation, so after a spec change two `GitMirror`s of one repository do not
exclude each other.  A pod whose Secret is missing keeps its Job active for ever
unless the spec sets a deadline.  In additive mode a branch rewritten in the source
makes every later Job fail.  Nobody checks what was cloned: a source without branches
makes an exact Job prune every branch of the target, and the model's clones include
that one.

## Proofs

`OperatorProofs` (for all instances, handlers, bounds, lagging kinds and flags,
from the modules' named assumptions only):

- `Invariance`: `Spec => []IInv`
- `TypeCorrect`: `Spec => []TypeOK`
- `MirroredDelivered`: `Spec => []MirroredRevisionDelivered`

`MirroredRevisionDelivered` is not inductive: the patch that writes
`lastMirroredRevision` takes it from a Job as listed earlier, on a copy of the
status read through a cache, and other patches bring back what older copies held.
`IInv` therefore bounds every copy: a status, wherever it is held (server, cache,
handler, Reconcile), requests at most `source` and names at most `delivered`; a Job,
wherever it is held, is for at most `source`, its clone is not older than what it
is for, and once it pushed, what it is for is at most `delivered`.  Copying keeps
such bounds, and `source` and `delivered` only grow (`BoundsGrow`).  Two facts about
control are needed besides: a busy handler has an instance as its host, and a
Reconcile past its list has a stamp.  `NextBounded` has a lemma for each group of
actions, a step for each action.

`SyncRunnerProofs` (for all repositories, ancestries, configurations and backoff
limits): `Invariance`, `TypeCorrect`, `DoneMirrors`, `TagsFollowHeads`, `AdditiveKeeps`.  The
strengthening says that a pod that got as far as its tags has all its branches in
the target, and that a pod past its checks has one of the two modes.

`ContractProofs` (for all constants of the operator): `Contracted`, `Spec =>
KeepsContract`.  Each action is shown to leave what the contract sees alone or to be
one of its steps.  The patches need most: `PatchGitMirrorStatus` sends differences
only, so a webhook's patch changes `requested` alone and a completion's `mirrored`
alone, whatever the copies hold, and `IInv` bounds both by `source` and `delivered`.
By the same reasoning `IntentKept`, `Spec => IntentKeepsOutcome`.

`SyncJobProofs` (for all specs, repositories and backoff limits): `RunsRunner`, `JobSpec
=> Spec`, because a pod killed at the deadline is a command that fails;
`AdmittedBuilt`, `BuiltAccepted`, and `SpecifiedMirrored`, which takes
`DoneMirrors` through `RunsRunner`; and `TagsAsked`, `JobSpec => TagsOnlyIfAsked`.
The invariant says that the configuration is the one the builder makes of the spec,
that only built Jobs run, and that a pod gets to its tags only if asked.

`SharedRepositoryProofs` (for any finite set of `GitMirror`s): `TypeCorrect`, and
`Signed`, whose invariant carries the signature with the delivery: through the
handler that found the `GitMirror` to the status.

`ExclusionProofs`: `Exclusive`, `Spec => []OneActiveJob`.  A Reconcile decides once,
from its list, that no Job of the generation is active, and may then create two: a
follow-up, and a Job for the generation or the pending resync.  `XInv` says why
at most one runs.  In a Reconcile past its list, whatever runs of its generation it
has created itself, and nothing is of a newer one (`GensOfWork`, `OnlyOwn`, `NoneNewer`); a
follow-up it created holds the Lease (`FollowupHolds`), so that the second Job is
refused; and who has the Lease with a Job to create is alone (`HolderAlone`).  For
`OnlyOwn` to survive the next completion, a running Job must not have a finished one
beside it that is still to be recorded: while a Job runs, the status names it, or
names one that is recorded, or the worker is about to record it (`RunningIsNamed`,
`ListedFinished`).  As long as no spec has changed, whatever runs has the Lease
(`RunningHolds`), which gives the exclusion between `GitMirror`s.  TLC checked every
conjunct on the instance of `shared_repository` before it was proved.

`StatusProofs` (any number of handlers, crashes, failed calls,
lost answers, copies of the Lease of any age):

- `OutcomeMatches`: `Spec /\ [][RecordsUndisturbed(i)]_vars => []OutcomeMatchesJob`: in every
  behaviour in which only `i` reconciles, the read just before the patch of a
  completion is current, and no Job is created under the name recorded last or one the
  cache still shows as finished.  Caches may lag in every other read, Jobs expire,
  answers get lost.  The invariant: a finished Job stays as it is until it is gone, so
  every copy of one, in the cache or in a Reconcile's list, is good or of a Job that is
  absent (`CopiesGood`), which creating under new names keeps so, for what a Reconcile
  creates while Jobs are left to record is a follow-up, under the stamp of now
  (`OneByOne`); between the read and the patch of a completion nobody else writes the
  outcome (`PatchFits`); and the Job the status names, if it is there, is finished
  (`OutcomeKept`).
- `Awake`, `NoWakeUpLost`: `Spec => []SettledMeansDone`, and `ScheduleLostOneWay`:
  `Spec => ScheduleKept`, for any number of instances that read the mirror as it is
  (the latter: Jobs too).  `AwakeInv` is the inductive form of "whatever is left has a
  queue entry, a timer or a running Job": an instance whose queue is empty has seen no
  change since its Reconcile began, so its plan is what the server would tell it now, and
  at each place in Reconcile what it will do next follows from that plan; every
  return therefore arms the timer, leaves an active Job that will wake it, or leaves
  nothing to do.  Other instances' patches put it back in the queue.  For the schedule
  each action is then shown to leave no instance without timer, queue entry and Job,
  but for `UntilNext` after the instant.

`OperatorExclusionProofs` assumes no flag and no bound.  The code reads through caches, its
calls fail, every Job has a time to live and nothing stops a second instance, so
these are behaviours of `Spec`, and the theorems are about all of them, up to the
first step that is one of the four above: `Undisturbed(i)` is a condition on steps,
`[][Undisturbed(i)]_vars` on behaviours.  Each of its conjuncts excludes the very
step that loses the exclusion and nothing around it: caches may lag as long as
they have caught up at the calls that decide, specs may change with a schedule set
unless in that one Reconcile, creates may fail beside expiring Jobs.

- `ExclusionInvariant`, `Exclusive`: `Spec /\ [][Undisturbed(i)]_vars => []OneActiveJob`, with
  every call of Reconcile a step of its own.
- `TargetAdvances`: with `[](mirror.gen = 1)`, the spec stands, `TargetNeverRegresses`.
  `ClonesCurrent` bounds every clone that is still to be pushed by `target` and
  `source`; that a push does not go below another clone is `OneActiveJob`.
- `StrictlyContracted`: also with `[][RecordsPresent(i)]_vars`, `KeepsStrictContract`.
  `RecordsPresent` says that a completion is patched while its Job is still there:
  the operator may report a Job that expired between its list and its patch, and the
  strict contract would have it to show.  The two contracts differ in two guards, so
  the steps shown in `ContractProofs` are reused.

The argument of `ExclusionInv`.  A Reconcile may create two Jobs or three: a follow-up,
one for the generation or the pending resync, and a scheduled one, and it decides on a
list read at its start.  `LeaseKept` says that a Job that runs has the Lease, or that
neither this Reconcile nor a later one creates another of its generation
(`LeftAlone`).  While a Job has the Lease, `GetHolder` keeps others of its generation
out.  It can lose it only to a Job of a newer generation: then its generation is over
for the mirror, hence for every later Reconcile, and what the present one still has to
do is newer, the fallback, which schedules for the mirror's generation or not at all,
or a coalesced instant, which creates nothing.  It is not released from under it,
because what a Reconcile releases is the Lease of a Job that is finished
(`ListedFinished`: a good copy, and not the follow-up just created) or whose create
failed for good.  `NoneNewer` (Jobs newer than the plan are this Reconcile's), `Shape`
and `OpFits` (what is created where, for which generation, under which name),
`LeaseRead` (what was read of the Lease still holds) and `DeliveryKnown` (a pending
resync is named after a delivery, not after a time) carry that from the list to the
create.  `LegacyAlone`: a Job without a generation counts for all, so beside it
nothing is created.  TLC checked `ExclusionInv` with `Next /\ Undisturbed(i)` as the next-state
relation, with each of lagging caches, lost answers, expiring Jobs, legacy Jobs,
schedules and spec changes and with several of them together, before it was proved.

Only model-checked: `EventuallySettled`, `RequestScheduled` and `JobEnds`, for TLAPS proves no
liveness under fairness and nothing about `ENABLED`; `ScheduledTwiceAtMost`, which counts
Jobs over a whole behaviour; and `SettledMeansDone` with a lagging mirror cache
(`lagging_caches`), where two changes that cancel out before the cache sees them look
like none, because the model's mirrors have no resource version: there is no
inductive invariant over what an instance has seen.  No module here needs a recursive
definition or an induction over data, which would be out of reach as well.

## Not modelled

A `GitMirror` deleted and created again under its name (it would need object
identities beside names); deletion of a Job by hand, hence no `DeletionTimestamp` in
`JobActive`; a generation annotation that does not parse, which only the operator
writes; a delivery ID that is not that of the signed payload beside it; several
`GitMirror`s together
with lagging caches, failing calls, crashes or a schedule (each is modelled, not
all at once); repositories that differ (they share nothing but the worker); the
default image of the sync Jobs, resources, labels, security context, known hosts;
lifetimes of tokens; the environment given to git and the text of logs; two runners
on one target at once in ref detail; metrics, probes, flags and certificates; charts
and RBAC.

## Plan

1. Done: `GitMirror`, `Cluster`, `Webhook`, `Reconciler`, `GitMirrorOperator`,
   `SyncRunner`, their runs and first theorems; `SyncContract` and the proof that the
   operator implements it; `JobBuilder` and `SyncJob`; `SharedRepository` with the
   whole receiver, and mutual exclusion as a theorem.
2. Done: `OneActiveJob`, `TargetNeverRegresses`, `KeepsStrictContract`, `OutcomeMatchesJob`,
   `SettledMeansDone` and `ScheduleKept` as theorems of `GitMirrorOperator`, the
   first four under conditions on single steps instead of on configurations.
3. `SharedRepository` as an abstraction of `GitMirrorOperator`: one `GitMirror` of the
   first, its larger steps, and a proof that the second's calls implement them where
   no call fails.
4. Two runners on one target, which is what the violated exclusion leads to, with
   refs as in `SyncRunner`.
5. Object identities, for a `GitMirror` that is created again.
