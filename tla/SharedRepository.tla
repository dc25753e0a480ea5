--------------------------- MODULE SharedRepository ---------------------------
(***************************************************************************)
(* Several GitMirrors of one GitHub repository in one namespace: the       *)
(* webhook receiver picks one of them for a delivery and checks it with    *)
(* that one's secret (internal/webhook/server.go, internal/github), one    *)
(* worker reconciles them in turn (gitmirror_controller.go), and their     *)
(* Jobs share the Lease that is named after the repository.  A GitMirror   *)
(* may be deleted, its Jobs are then collected; nobody deletes the Lease.  *)
(*                                                                         *)
(* The modules Webhook and Reconciler take the calls of a handler and of a *)
(* Reconcile apart, with their failures.  Here caches are prompt, no call  *)
(* fails, a status patch is one step and so is the acquisition of the      *)
(* Lease.  No GitMirror has a fallback schedule, Jobs do not expire, and   *)
(* whether a Job succeeds decides nothing.                                 *)
(***************************************************************************)
EXTENDS GitMirror, FiniteSets, Sequences

CONSTANTS
  Mirrors,    \* names of the GitMirrors
  NoMirror,   \* no GitMirror
  Secrets,    \* values of webhook secrets
  NoSecret,   \* a Secret without the key; a delivery without signature
  SecretOf,   \* the value webhookSecretRef leads to, by GitMirror
  Hooks,      \* webhooks that users have set up, right or wrong
  Changing,   \* bound: GitMirrors whose spec changes
  Leaving     \* bound: GitMirrors that are deleted

ASSUME MirrorsAssumption == IsFiniteSet(Mirrors)
ASSUME NoMirrorAssumption == NoMirror \notin Mirrors
ASSUME SecretOfAssumption ==
  NoSecret \notin Secrets /\ SecretOf \in [Mirrors -> Secrets \cup {NoSecret}]

VARIABLES
  mirrors,  \* the GitMirrors on the API server
  deleted,  \* those that are gone
  jobs,     \* the Jobs of each, by name
  lease,    \* the GitMirror and the Job in the Lease's holder, NoHolder: no Lease
  queue,    \* the work queue
  armed,    \* GitMirrors with a RequeueAfter running
  work,     \* the worker's Reconcile
  source,   \* pushes to the repository
  inbox,    \* requests on their way to the receiver
  sent,     \* signed deliveries ever sent, with the secret they were signed with
  hook      \* deliveries that handlers are about to record, and for which GitMirror

cluster == <<mirrors, deleted, jobs, lease>>
github == <<source, inbox, sent, hook>>
vars == <<cluster, queue, armed, work, github>>

NoHolder == <<NoMirror, NoJob>>

Request == [event : {"push", "other"}, shared : BOOLEAN,  \* names this repository
            id : 0..MaxPush, rev : Revisions, secret : Secrets \cup {NoSecret}]

Op == [kind : {"none", "followup", "generation", "pending"},
       name : JobNames \cup {NoJob}, gen : 0..MaxGen, rev : Revisions]
NoOp == [kind |-> "none", name |-> NoJob, gen |-> 0, rev |-> 0]

Work == [pc : {"idle", "completed", "generation", "pending", "acquire", "create",
               "record", "return"},
         mirror : Mirrors \cup {NoMirror}, gen : 0..MaxGen, unobserved : BOOLEAN,
         pending : BOOLEAN, active : BOOLEAN, stamp : 0..MaxStamp,
         todo : SUBSET [name : JobNames, job : Job], op : Op]
Idle == [pc |-> "idle", mirror |-> NoMirror, gen |-> 0, unobserved |-> FALSE,
         pending |-> FALSE, active |-> FALSE, stamp |-> 0, todo |-> {}, op |-> NoOp]

\* The worker starts with every GitMirror in its queue, in any order.
Init ==
  /\ mirrors = [m \in Mirrors |-> NewMirror]
  /\ deleted = {}
  /\ jobs = [m \in Mirrors |-> [n \in JobNames |-> AbsentJob]]
  /\ lease = NoHolder
  /\ queue \in {q \in [1..Cardinality(Mirrors) -> Mirrors] :
                  \A i, j \in DOMAIN q : q[i] = q[j] => i = j}
  /\ armed = {}
  /\ work = Idle
  /\ source = 0 /\ inbox = {} /\ sent = {} /\ hook = {}

\* The queue with m in it; a GitMirror is in it once.
Enqueued(m) == IF \E i \in DOMAIN queue : queue[i] = m THEN queue ELSE Append(queue, m)

\* A patch of m's status, which wakes the controller if it changes anything.
PatchMirror(m, new) ==
  /\ mirrors' = [mirrors EXCEPT ![m] = new]
  /\ queue' = IF new = mirrors[m] THEN queue ELSE Enqueued(m)

------------------------------------------------------------------------------
(***************************************************************************)
(* The webhook receiver.                                                   *)
(***************************************************************************)
\* A push to the source.  Its delivery may be of a hook that is not set up for
\* this receiver: another event, another name or secret, no delivery ID.  The
\* signature covers the payload only; that the ID in the header is the payload's is
\* GitHub's doing, and assumed.
HookOf(r) ==
  [event |-> r.event, shared |-> r.shared, identified |-> r.id # 0, secret |-> r.secret]

Push ==
  /\ source < MaxPush
  /\ source' = source + 1
  /\ \E r \in Request :
       /\ HookOf(r) \in Hooks
       /\ r.id \in {0, source + 1} /\ r.rev = source + 1
       /\ inbox' = inbox \cup {r}
       /\ sent' = IF r.id # 0 /\ r.secret # NoSecret
                  THEN sent \cup {[id |-> r.id, secret |-> r.secret]} ELSE sent
  /\ UNCHANGED <<cluster, queue, armed, work, hook>>

\* findMirror returns the first of a list, which the cache gives in any order.
FindMirror(r) == IF r.shared THEN Mirrors \ deleted ELSE {}

\* The payload is signed with the GitMirror's secret, which is not empty.
VerifySignatureOfAny(m, r) ==  \* variant
  r.secret \in {SecretOf[o] : o \in Mirrors} \ {NoSecret}
VerifySignature(m, r) == SecretOf[m] # NoSecret /\ r.secret = SecretOf[m]

\* A request that is refused leaves no trace.
HandleGitHub(r) ==
  /\ r \in inbox
  /\ inbox' = inbox \ {r}
  /\ \/ /\ r.event # "push" \/ FindMirror(r) = {}
        /\ UNCHANGED hook
     \/ /\ r.event = "push"
        /\ \E m \in FindMirror(r) :
             hook' = IF /\ VerifySignature(m, r)
                        /\ r.id # 0
                        /\ mirrors[m].status.delivery # r.id
                     THEN hook \cup {[mirror |-> m, id |-> r.id, rev |-> r.rev]}
                     ELSE hook
  /\ UNCHANGED <<cluster, queue, armed, work, source, sent>>

\* The GitMirror may be gone by now.
RecordDelivery(h) ==
  /\ h \in hook
  /\ hook' = hook \ {h}
  /\ IF h.mirror \in deleted THEN UNCHANGED <<mirrors, queue>>
     ELSE PatchMirror(h.mirror, ApplyWebhookIntent(mirrors[h.mirror], h.id, h.rev))
  /\ UNCHANGED <<deleted, jobs, lease, armed, work, source, inbox, sent>>

------------------------------------------------------------------------------
(***************************************************************************)
(* The worker.                                                             *)
(***************************************************************************)
Now == 1  \* time, which decides nothing here

At(pc) == work.pc = pc

\* The reconcile functions in turn; after the last one Reconcile returns.
Stage(w) ==
  IF w.todo # {} THEN [w EXCEPT !.op = NoOp, !.pc = "completed"]
  ELSE IF w.unobserved /\ ~w.active THEN [w EXCEPT !.op = NoOp, !.pc = "generation"]
  ELSE IF w.pending /\ ~w.active THEN [w EXCEPT !.op = NoOp, !.pc = "pending"]
  ELSE Idle

\* A GitMirror that is not found is done with.
Begin ==
  /\ At("idle") /\ queue # <<>>
  /\ queue' = Tail(queue)
  /\ LET m == mirrors[Head(queue)]
         listed == JobsForGeneration(jobs[Head(queue)], m.gen)
     IN IF Head(queue) \in deleted THEN UNCHANGED work
        ELSE \E k \in Stamps :
          /\ ResyncJob(k) \notin {m.status.lastJob, m.status.completed}
          /\ ~JobExists(jobs[Head(queue)][ResyncJob(k)])
          /\ \A l \in 1..(k - 1) : JobExists(jobs[Head(queue)][ResyncJob(l)])
          /\ work' = Stage([Idle EXCEPT
               !.mirror = Head(queue), !.gen = m.gen,
               !.unobserved = m.status.observed # m.gen,
               !.pending = m.status.pending,
               !.active = ActiveJobExists(listed),
               !.stamp = k,
               !.todo = {[name |-> n, job |-> listed[n]] :
                           n \in {n \in JobNames : RecordsCompletion(m, listed, n)}}])
  /\ UNCHANGED <<cluster, armed, github>>

\* An error return: the work queue retries.
Fail ==
  /\ work' = Idle
  /\ queue' = Enqueued(work.mirror)

\* reconcileCompletedJobs: patch, releaseSyncLease.
RecordCompleted ==
  /\ At("completed")
  /\ LET m == work.mirror IN
       IF m \in deleted THEN Fail /\ UNCHANGED <<mirrors, lease>>
       ELSE \E l \in work.todo :
         LET rest == [work EXCEPT !.todo = @ \ {l}] IN
         /\ PatchMirror(m, ApplyCompletion(mirrors[m], l.name, l.job, Now))
         /\ lease' = IF lease = <<m, l.name>> THEN NoHolder ELSE lease
         /\ work' = IF NeedsFollowup(mirrors[m], l.name, l.job)
                    THEN [rest EXCEPT !.pc = "acquire",
                            !.op = [kind |-> "followup", name |-> ResyncJob(work.stamp),
                                    gen |-> work.gen,
                                    rev |-> mirrors[m].status.requested]]
                    ELSE Stage(rest)
  /\ UNCHANGED <<deleted, jobs, armed, github>>

\* reconcileUnobservedGeneration, reconcilePendingResync: up to the Lease.
Choose ==
  /\ At("generation") \/ At("pending")
  /\ LET m == mirrors[work.mirror]
         name == IF At("generation") THEN GenerationJob(m.gen)
                 ELSE PendingJobName(m, work.stamp)
         idle == IF At("generation") THEN m.status.observed = m.gen ELSE ~m.status.pending
     IN IF work.mirror \in deleted THEN Fail
        ELSE /\ work' = IF idle
                        THEN IF At("generation") THEN Stage([work EXCEPT !.unobserved = FALSE])
                             ELSE Idle
                        ELSE [work EXCEPT !.pc = "acquire",
                                !.op = [kind |-> work.pc, name |-> name, gen |-> m.gen,
                                        rev |-> m.status.requested]]
             /\ UNCHANGED queue
  /\ UNCHANGED <<cluster, armed, github>>

\* acquireSyncLease: the holder's Job, whosever it is, is compared with the
\* generation of this GitMirror.
HolderActive ==
  /\ lease # NoHolder
  /\ lease # <<work.mirror, work.op.name>>
  /\ JobNameActiveForGeneration(jobs[lease[1]], lease[2], work.op.gen)

AcquireLease ==
  /\ At("acquire")
  /\ IF HolderActive
     THEN work' = Idle /\ armed' = armed \cup {work.mirror} /\ UNCHANGED lease
     ELSE /\ lease' = <<work.mirror, work.op.name>>
          /\ work' = [work EXCEPT !.pc = "create"]
          /\ UNCHANGED armed
  /\ UNCHANGED <<mirrors, deleted, jobs, queue, github>>

\* createLockedSyncJob: the API server takes a Job whose owner is gone.
CreateJob ==
  /\ At("create")
  /\ LET m == work.mirror
         new == ~JobExists(jobs[m][work.op.name])
     IN /\ jobs' = IF new THEN [jobs EXCEPT ![m][work.op.name] = NewJob(work.op.gen, work.op.rev)]
                   ELSE jobs
        /\ queue' = IF new THEN Enqueued(m) ELSE queue
  /\ work' = [work EXCEPT !.pc = "record"]
  /\ UNCHANGED <<mirrors, deleted, lease, armed, github>>

RecordScheduled ==
  /\ At("record")
  /\ LET m == work.mirror
         op == work.op
     IN IF m \in deleted THEN Fail /\ UNCHANGED mirrors
        ELSE /\ PatchMirror(m, ApplySyncScheduledForGeneration(mirrors[m], op.name, op.gen, Now))
             /\ work' = IF op.kind = "followup" THEN Stage(work) ELSE Idle
  /\ UNCHANGED <<deleted, jobs, lease, armed, github>>

Reconcile ==
  \/ Begin \/ RecordCompleted \/ Choose \/ AcquireLease \/ CreateJob
  \/ RecordScheduled

------------------------------------------------------------------------------
(***************************************************************************)
(* The cluster and its users.                                              *)
(***************************************************************************)
TimerFires(m) ==
  /\ m \in armed
  /\ armed' = armed \ {m}
  /\ queue' = Enqueued(m)
  /\ UNCHANGED <<cluster, work, github>>

ChangeSpec(m) ==
  /\ m \in Changing \ deleted /\ mirrors[m].gen < MaxGen
  /\ mirrors' = [mirrors EXCEPT ![m].gen = @ + 1]
  /\ queue' = Enqueued(m)
  /\ UNCHANGED <<deleted, jobs, lease, armed, work, github>>

DeleteMirror(m) ==
  /\ m \in Leaving \ deleted
  /\ deleted' = deleted \cup {m}
  /\ queue' = Enqueued(m)
  /\ UNCHANGED <<mirrors, jobs, lease, armed, work, github>>

\* The garbage collector deletes the Jobs, running or not, of an owner that is gone.
CollectJobs(m) ==
  /\ m \in deleted
  /\ \E n \in JobNames : JobExists(jobs[m][n])
  /\ jobs' = [jobs EXCEPT ![m] = [n \in JobNames |-> AbsentJob]]
  /\ queue' = Enqueued(m)
  /\ UNCHANGED <<mirrors, deleted, lease, armed, work, github>>

JobEnds(m, n) ==
  /\ JobRunning(jobs[m][n])
  /\ jobs' = [jobs EXCEPT ![m][n].phase = "complete"]
  /\ queue' = Enqueued(m)
  /\ UNCHANGED <<mirrors, deleted, lease, armed, work, github>>

Next ==
  \/ Push
  \/ \E r \in inbox : HandleGitHub(r)
  \/ \E h \in hook : RecordDelivery(h)
  \/ Reconcile
  \/ \E m \in Mirrors :
       \/ TimerFires(m) \/ ChangeSpec(m) \/ DeleteMirror(m) \/ CollectJobs(m)
       \/ \E n \in JobNames : JobEnds(m, n)

Spec == Init /\ [][Next]_vars

\* The worker, the timers, the garbage collector and the Jobs go on; so do the
\* handlers that have found a GitMirror.
FairSpec ==
  /\ Spec
  /\ WF_vars(Reconcile)
  /\ WF_vars(\E h \in hook : RecordDelivery(h))
  /\ \A m \in Mirrors :
       /\ WF_vars(TimerFires(m))
       /\ WF_vars(CollectJobs(m))
       /\ WF_vars(\E n \in JobNames : JobEnds(m, n))

------------------------------------------------------------------------------
\* The state of the server, the worker and the requests.
TypeOK ==
  /\ mirrors \in [Mirrors -> Mirror]
  /\ deleted \subseteq Mirrors
  /\ jobs \in [Mirrors -> [JobNames -> Job]]
  /\ lease \in (Mirrors \X JobNames) \cup {NoHolder}
  /\ queue \in Seq(Mirrors)
  /\ armed \subseteq Mirrors
  /\ work \in Work
  /\ source \in 0..MaxPush
  /\ inbox \subseteq Request
  /\ sent \subseteq [id : Deliveries, secret : Secrets]
  /\ hook \subseteq [mirror : Mirrors, id : Deliveries, rev : Revisions]

\* Whichever GitMirror the receiver picks of a list in any order, a delivery is
\* recorded only for one whose own secret its payload was signed with, and only if
\* it has an ID (findMirror, webhookSecret, VerifySignature256).
OnlySigned ==
  \A m \in Mirrors :
    LET d == mirrors[m].status.delivery
    IN  d # 0 => [id |-> d, secret |-> SecretOf[m]] \in sent

\* Jobs of one GitMirror and generation exclude each other although the Lease may
\* go to another GitMirror meanwhile; and as long as no spec changed, so do the
\* Jobs of all GitMirrors of the repository: the holder's Job is compared with
\* the generation of whoever asks (SyncLeaseName, jobNameActiveForGeneration).
NoSpecChanged == \A m \in Mirrors : mirrors[m].gen = 1

OneActiveJob ==
  \A m, o \in Mirrors \ deleted : \A n, p \in JobNames :
    /\ JobRunning(jobs[m][n]) /\ JobRunning(jobs[o][p])
    /\ jobs[m][n].gen = jobs[o][p].gen
    /\ m = o \/ NoSpecChanged
    => <<m, n>> = <<o, p>>

LastOutcomeRecorded(m) ==
  LET last == mirrors[m].status.lastJob IN
    \/ last \in {NoJob, mirrors[m].status.completed}
    \/ ~JobExists(jobs[m][last])
    \/ ~JobGenerationMatches(jobs[m][last], mirrors[m].gen)

Done(m) ==
  \/ m \in deleted
  \/ /\ ~mirrors[m].status.pending
     /\ mirrors[m].status.observed = mirrors[m].gen
     /\ LastOutcomeRecorded(m)

\* No GitMirror waits for ever for the Lease it shares with others, deleted ones
\* among them: its status settles.  That a follow-up taken out of pendingResync is
\* ever created is not said, and is not so (FollowupIsScheduled).
EventuallySettled == \A m \in Mirrors : ~Done(m) ~> Done(m)

\* A GitMirror not being reconciled, with no Job that runs or is to be recorded.
AtRest(m) ==
  /\ work.mirror # m
  /\ \A n \in JobNames :
       /\ ~JobRunning(jobs[m][n])
       /\ ~RecordsCompletion(mirrors[m], JobsForGeneration(jobs[m], mirrors[m].gen), n)

\* What is asked of a GitMirror at rest is scheduled, whoever has the Lease: a Job for
\* the revision runs, unless another one is asked for or the GitMirror deleted.
RequestScheduled ==
  \A m \in Mirrors, r \in Revisions \ {0} :
    (AtRest(m) /\ mirrors[m].status.pending /\ mirrors[m].status.requested = r)
      ~> (\/ m \in deleted \/ mirrors[m].status.requested # r
          \/ \E n \in JobNames : JobRunning(jobs[m][n]) /\ jobs[m][n].rev = r)

------------------------------------------------------------------------------
(***************************************************************************)
(* What the code says and does not keep.                                   *)
(***************************************************************************)

\* Nothing will happen any more unless a user or GitHub acts.
Settled ==
  /\ work = Idle /\ queue = <<>> /\ armed = {} /\ hook = {}
  /\ \A m \in Mirrors, n \in JobNames : ~JobRunning(jobs[m][n])

\* status.go:93: a FollowupScheduled condition announces a follow-up Job, so the
\* operator does not come to rest on it.
FollowupIsScheduled ==
  Settled => \A m \in Mirrors : mirrors[m].status.conditions.sync # "FollowupScheduled"
==============================================================================
