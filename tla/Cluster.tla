------------------------------- MODULE Cluster -------------------------------
(***************************************************************************)
(* What the operator runs against: the API server with one GitMirror, its  *)
(* sync Jobs and the repository's Lease, the informer caches and work      *)
(* queues of the operator's instances, the Job controller running the sync *)
(* runner, and the source and target repositories with their webhooks.     *)
(*                                                                         *)
(* An instance reads the API server through its cache (mgr.GetClient()).   *)
(* Lagging names the kinds of object whose cached copy may be behind; for  *)
(* the other kinds the cache is as good as the server.                     *)
(***************************************************************************)
EXTENDS GitMirror

CONSTANTS
  Instances,   \* operator processes
  Lagging,     \* kinds of object whose informer caches may be behind
  LegacyJobs,  \* whether the unannotated Job of an older operator may run
  Expiring,    \* whether finished Jobs reach their time to live
  MaxFaults    \* bound on crashes, API errors and lost or repeated deliveries

Kinds == {"mirror", "jobs", "lease"}

ASSUME LaggingAssumption == Lagging \subseteq Kinds
ASSUME FlagsAssumption == {LegacyJobs, Expiring} \subseteq BOOLEAN
ASSUME MaxFaultsAssumption == MaxFaults \in Nat

VARIABLES
  mirror,       \* the GitMirror on the API server
  jobs,         \* the Jobs on the API server, by name
  lease,        \* the holder of the repository's Lease, NoJob: no Lease
  cache,        \* the informers' copies of the three, by instance
  leaseCopies,  \* the copies of the Lease with its current resourceVersion
  queued,       \* whether the mirror is in the instance's work queue
  armed,        \* whether a RequeueAfter of the instance is running
  source,       \* the head of the source repository
  target,       \* the revision the target repository shows
  delivered,    \* the newest revision the target repository ever showed
  inbox,        \* webhook deliveries on their way
  clock,        \* instants of the fallback schedule that have passed
  faults        \* faults so far

objects == <<mirror, jobs, lease, cache, leaseCopies>>
repositories == <<source, target, delivered, inbox>>

Caches == [mirror : Mirror, jobs : [JobNames -> Job], lease : JobNames \cup {NoJob}]

\* Copies of the Lease: the informer's, and the one a reconcile holds.
LeaseCopies == Instances \X {"cached", "held"}

ClusterInit ==
  /\ mirror = NewMirror
  /\ \E old \in IF LegacyJobs THEN {AbsentJob, NewJob(0, 0)} ELSE {AbsentJob} :
       jobs = [n \in JobNames |-> IF n = LegacyJob THEN old ELSE AbsentJob]
  /\ lease = NoJob
  /\ cache = [i \in Instances |->
                [mirror |-> mirror, jobs |-> jobs, lease |-> lease]]
  /\ leaseCopies = {}
  /\ queued = [i \in Instances |-> TRUE]
  /\ armed = [i \in Instances |-> FALSE]
  /\ source = 0 /\ target = 0 /\ delivered = 0 /\ inbox = {}
  /\ clock = 1
  /\ faults = 0

\* What a Job object shows: not how far its pod got.
Visible(job) == IF JobRunning(job) THEN NewJob(job.gen, job.rev) ELSE job
VisibleJobs(js) == [n \in JobNames |-> Visible(js[n])]

(***************************************************************************)
(* Reads by instance i, through its cache.                                 *)
(***************************************************************************)
SeenMirror(i) == IF "mirror" \in Lagging THEN cache[i].mirror ELSE mirror
SeenJobs(i) == IF "jobs" \in Lagging THEN cache[i].jobs ELSE VisibleJobs(jobs)
SeenLease(i) == IF "lease" \in Lagging THEN cache[i].lease ELSE lease

\* Whether the copy of the Lease that instance i reads is the current one.
LeaseSeenIsCurrent(i) == "lease" \notin Lagging \/ <<i, "cached">> \in leaseCopies

\* The queues after a change of an object the controller watches, a mirror or
\* one of its Jobs: the informers of the kinds that lag put the mirror in the
\* queue when they catch up.
NotifiedOfMirror(kind, changed) ==  \* variant
  [i \in Instances |-> queued[i] \/ (changed /\ kind = "mirror" /\ kind \notin Lagging)]
Notified(kind, changed) ==
  [i \in Instances |-> queued[i] \/ (changed /\ kind \notin Lagging)]

\* A status patch by the operator, from the copy base and its mutated form.
PatchMirror(base, new) ==
  LET m == MergePatch(base, new, mirror) IN
  /\ mirror' = m
  /\ queued' = Notified("mirror", m # mirror)

------------------------------------------------------------------------------
(***************************************************************************)
(* Informers and timers.                                                   *)
(***************************************************************************)
RefreshMirror(i) ==
  /\ "mirror" \in Lagging /\ cache[i].mirror # mirror
  /\ cache' = [cache EXCEPT ![i].mirror = mirror]
  /\ queued' = [queued EXCEPT ![i] = TRUE]
  /\ UNCHANGED <<mirror, jobs, lease, leaseCopies, armed, repositories, clock, faults>>

RefreshJobs(i) ==
  /\ "jobs" \in Lagging /\ cache[i].jobs # VisibleJobs(jobs)
  /\ cache' = [cache EXCEPT ![i].jobs = VisibleJobs(jobs)]
  /\ queued' = [queued EXCEPT ![i] = TRUE]
  /\ UNCHANGED <<mirror, jobs, lease, leaseCopies, armed, repositories, clock, faults>>

\* The controller does not watch Leases: their cache wakes nobody.
RefreshLease(i) ==
  /\ "lease" \in Lagging /\ <<i, "cached">> \notin leaseCopies
  /\ cache' = [cache EXCEPT ![i].lease = lease]
  /\ leaseCopies' = leaseCopies \cup {<<i, "cached">>}
  /\ UNCHANGED <<mirror, jobs, lease, queued, armed, repositories, clock, faults>>

\* A starting process waits for its caches to sync.
SyncCache(i) ==
  /\ cache' = [cache EXCEPT
       ![i] = [mirror |-> IF "mirror" \in Lagging THEN mirror ELSE @.mirror,
               jobs |-> IF "jobs" \in Lagging THEN VisibleJobs(jobs) ELSE @.jobs,
               lease |-> IF "lease" \in Lagging THEN lease ELSE @.lease]]
  /\ leaseCopies' = IF "lease" \in Lagging
                    THEN leaseCopies \cup {<<i, "cached">>} ELSE leaseCopies

TimerFires(i) ==
  /\ armed[i]
  /\ armed' = [armed EXCEPT ![i] = FALSE]
  /\ queued' = [queued EXCEPT ![i] = TRUE]
  /\ UNCHANGED <<objects, repositories, clock, faults>>

\* The informers' periodic resync queues every object.
Resync(i) ==
  /\ ~queued[i]
  /\ queued' = [queued EXCEPT ![i] = TRUE]
  /\ UNCHANGED <<objects, armed, repositories, clock, faults>>

Tick ==
  /\ clock < MaxTick
  /\ clock' = clock + 1
  /\ UNCHANGED <<objects, queued, armed, repositories, faults>>

------------------------------------------------------------------------------
(***************************************************************************)
(* Users of the cluster and of the source repository.                      *)
(***************************************************************************)
ChangeSpec ==
  /\ mirror.gen < MaxGen
  /\ mirror' = [mirror EXCEPT !.gen = @ + 1]
  /\ queued' = Notified("mirror", TRUE)
  /\ UNCHANGED <<jobs, lease, cache, leaseCopies, armed, repositories, clock, faults>>

Push ==
  /\ source < MaxPush
  /\ source' = source + 1
  /\ inbox' = inbox \cup {source + 1}
  /\ UNCHANGED <<objects, queued, armed, target, delivered, clock, faults>>

\* The sender repeats a delivery.
Redeliver(d) ==
  /\ faults < MaxFaults
  /\ d <= source /\ d \notin inbox
  /\ inbox' = inbox \cup {d}
  /\ faults' = faults + 1
  /\ UNCHANGED <<objects, queued, armed, source, target, delivered, clock>>

LoseDelivery(d) ==
  /\ faults < MaxFaults
  /\ d \in inbox
  /\ inbox' = inbox \ {d}
  /\ faults' = faults + 1
  /\ UNCHANGED <<objects, queued, armed, source, target, delivered, clock>>

------------------------------------------------------------------------------
(***************************************************************************)
(* The Job controller and the runner in the Job's pod: clone the source,   *)
(* push what was cloned.  A pod may fail in the middle and be started      *)
(* again, which clones again, until the Job fails for good.  The Job       *)
(* object does not show what its pod does.                                 *)
(***************************************************************************)
SetJob(n, job) ==
  /\ jobs' = [jobs EXCEPT ![n] = job]
  /\ queued' = Notified("jobs", TRUE)
  /\ UNCHANGED <<mirror, lease, cache, leaseCopies, armed, clock, faults>>

JobClones(n) ==
  /\ JobRunning(jobs[n])
  /\ jobs' = [jobs EXCEPT ![n].phase = "cloned", ![n].got = source]
  /\ UNCHANGED <<mirror, lease, cache, leaseCopies, queued, armed, repositories,
                 clock, faults>>

JobPushes(n) ==
  /\ jobs[n].phase = "cloned"
  /\ jobs' = [jobs EXCEPT ![n].phase = "pushed", ![n].got = 0]
  /\ target' = jobs[n].got
  /\ delivered' = IF jobs[n].got > delivered THEN jobs[n].got ELSE delivered
  /\ UNCHANGED <<mirror, lease, cache, leaseCopies, queued, armed, source, inbox,
                 clock, faults>>

JobSucceeds(n) ==
  /\ jobs[n].phase = "pushed"
  /\ SetJob(n, [jobs[n] EXCEPT !.phase = "complete"])
  /\ UNCHANGED repositories

JobFails(n) ==
  /\ JobRunning(jobs[n])
  /\ SetJob(n, [jobs[n] EXCEPT !.phase = "failed", !.got = 0])
  /\ UNCHANGED repositories

JobExpires(n) ==
  /\ Expiring /\ JobFinished(jobs[n])
  /\ SetJob(n, AbsentJob)
  /\ UNCHANGED repositories

ClusterNext ==
  \/ \E i \in Instances :
       \/ RefreshMirror(i) \/ RefreshJobs(i) \/ RefreshLease(i)
       \/ TimerFires(i) \/ Resync(i)
  \/ Tick \/ ChangeSpec \/ Push
  \/ \E d \in Deliveries : Redeliver(d) \/ LoseDelivery(d)
  \/ \E n \in JobNames :
       JobClones(n) \/ JobPushes(n) \/ JobSucceeds(n) \/ JobFails(n) \/ JobExpires(n)
==============================================================================
