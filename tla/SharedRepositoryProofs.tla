------------------------ MODULE SharedRepositoryProofs ------------------------
(***************************************************************************)
(* SharedRepository is type correct, and a delivery is recorded only for a *)
(* GitMirror with whose own secret it was signed, for any number of        *)
(* GitMirrors, secrets and pushes.                                         *)
(*                                                                         *)
(* OnlySigned is not inductive.  What a request carries was sent, and what *)
(* a handler is about to record was verified against the GitMirror it has  *)
(* found; no other patch touches lastDeliveryID.                           *)
(***************************************************************************)
EXTENDS SharedRepository, FiniteSetTheorems, TLAPS

\* A Reconcile under way has a GitMirror and a stamp, and one that is past the
\* choice of a Job has its name.
WorkUnderway ==
  /\ ~At("idle") => work.mirror \in Mirrors /\ work.stamp \in Stamps
  /\ At("acquire") \/ At("create") \/ At("record") => work.op.name \in JobNames

SignedRequests ==
  \A r \in inbox :
    r.id # 0 /\ r.secret # NoSecret => [id |-> r.id, secret |-> r.secret] \in sent

SignedHooks ==
  \A h \in hook : [id |-> h.id, secret |-> SecretOf[h.mirror]] \in sent

IInv == TypeOK /\ WorkUnderway /\ SignedRequests /\ SignedHooks /\ OnlySigned

------------------------------------------------------------------------------
(***************************************************************************)
(* Values.                                                                 *)
(***************************************************************************)

\* The names the controller makes are names of Jobs.
LEMMA NamesType ==
  /\ \A g \in Generations : GenerationJob(g) \in JobNames
  /\ \A d \in 1..Scheduled : DeliveryJob(d) \in JobNames
  /\ \A k \in Stamps : ResyncJob(k) \in JobNames
BY DEF JobNames

\* A new mirror, Jobs, and the worker at rest.
LEMMA NewTypes ==
  /\ NewMirror \in Mirror /\ NewMirror.status.delivery = 0
  /\ AbsentJob \in Job
  /\ \A gen \in 0..MaxGen, rev \in Revisions : NewJob(gen, rev) \in Job
  /\ NoOp \in Op
  /\ Idle \in Work
<1> USE MaxGenAssumption, MaxPushAssumption, MaxTickAssumption, MaxStampAssumption
<1>1. NewMirror \in Mirror /\ NewMirror.status.delivery = 0
  BY DEF NewMirror, Mirror, Status, Conditions, Generations, Revisions, Times, Scheduled
<1>2. AbsentJob \in Job /\ \A gen \in 0..MaxGen, rev \in Revisions : NewJob(gen, rev) \in Job
  BY DEF AbsentJob, NewJob, Job, Revisions, RunningPhases, FinishedPhases
<1>3. NoOp \in Op
  BY DEF NoOp, Op, Revisions
<1>4. Idle \in Work
  BY <1>3 DEF Idle, Work
<1> QED
  BY <1>1, <1>2, <1>3, <1>4

\* The conditions that status.go sets are conditions.
LEMMA ConditionsType ==
  ASSUME NEW c \in Conditions, NEW gen \in 0..MaxGen
  PROVE  /\ \A v \in {"True", "False"} : SetReady(c, gen, v) \in Conditions
         /\ \A r \in {"WebhookReceived", "JobScheduled", "FollowupScheduled"} :
              SetSyncPending(c, gen, r) \in Conditions
BY DEF SetReady, SetSyncPending, Conditions

\* A recorded delivery is the mirror's last delivery.
LEMMA IntentType ==
  ASSUME NEW m \in Mirror, NEW id \in Deliveries, NEW rev \in Revisions
  PROVE  /\ ApplyWebhookIntent(m, id, rev) \in Mirror
         /\ ApplyWebhookIntent(m, id, rev).status.delivery = id
<1>1. m.gen \in 0..MaxGen /\ m.status.conditions \in Conditions
  BY DEF Mirror, Status, Generations
<1>2. SetSyncPending(m.status.conditions, m.gen, "WebhookReceived") \in Conditions
  BY <1>1, ConditionsType
<1>3. id \in 0..Scheduled
  BY MaxPushAssumption DEF Deliveries, Scheduled
<1> QED
  BY <1>2, <1>3 DEF ApplyWebhookIntent, Mirror, Status

\* A Job recorded as scheduled leaves the last delivery alone.
LEMMA ScheduledType ==
  ASSUME NEW m \in Mirror, NEW name \in JobNames, NEW gen
  PROVE  /\ ApplySyncScheduledForGeneration(m, name, gen, Now) \in Mirror
         /\ ApplySyncScheduledForGeneration(m, name, gen, Now).status.delivery
              = m.status.delivery
<1>1. m.gen \in 0..MaxGen /\ m.status.conditions \in Conditions
  BY DEF Mirror, Status, Generations
<1>2. SetSyncPending(m.status.conditions, m.gen, "JobScheduled") \in Conditions
  BY <1>1, ConditionsType
<1>3. Now \in Times
  BY MaxTickAssumption DEF Now, Times
<1> QED
  BY <1>1, <1>2, <1>3
     DEF ApplySyncScheduledForGeneration, ApplySyncScheduled, Mirror, Status

\* A recorded completion leaves the last delivery alone.
LEMMA CompletionType ==
  ASSUME NEW m \in Mirror, NEW name \in JobNames, NEW job \in Job
  PROVE  /\ ApplyCompletion(m, name, job, Now) \in Mirror
         /\ ApplyCompletion(m, name, job, Now).status.delivery = m.status.delivery
<1> DEFINE n == [m EXCEPT !.status.observed = m.gen]
<1>1. m.gen \in 0..MaxGen /\ m.status.observed \in 0..MaxGen
  BY DEF Mirror, Status, Generations
<1>2. n \in Mirror /\ n.status.delivery = m.status.delivery
  BY <1>1 DEF Mirror, Status
<1>3. ASSUME NEW k \in Mirror, NEW gen \in 0..MaxGen
      PROVE  /\ ApplyOutcome(k, name, job, gen) \in Mirror
             /\ ApplyOutcome(k, name, job, gen).status.delivery = k.status.delivery
  <2>1. \A v \in {"True", "False"} : SetReady(k.status.conditions, gen, v) \in Conditions
    BY ConditionsType DEF Mirror, Status
  <2>2. MirroredAfter(k, job) \in Revisions /\ ErrorAfter(k, job) \in BOOLEAN
    BY DEF MirroredAfter, ErrorAfter, Job, Mirror, Status
  <2> QED
    BY <2>1, <2>2 DEF ApplyOutcome, Mirror, Status
<1>4. ASSUME NEW k \in Mirror
      PROVE  /\ ApplyFollowup(k, Now) \in Mirror
             /\ ApplyFollowup(k, Now).status.delivery = k.status.delivery
  <2>1. k.status.conditions \in Conditions /\ k.gen \in 0..MaxGen
    BY DEF Mirror, Status, Generations
  <2>2. SetSyncPending(k.status.conditions, k.gen, "FollowupScheduled") \in Conditions
    BY <2>1, ConditionsType
  <2>3. Now \in Times
    BY MaxTickAssumption DEF Now, Times
  <2> QED
    BY <2>2, <2>3 DEF ApplyFollowup, Mirror, Status
<1> HIDE DEF n
<1>5. ApplyCompletedJobStatus(m, name, job, Now)
        = ApplyFollowup(ApplyOutcome(n, name, job, m.gen), Now)
  BY DEF ApplyCompletedJobStatus, n
<1>6. /\ ApplyCompletedJobStatus(m, name, job, Now) \in Mirror
      /\ ApplyCompletedJobStatus(m, name, job, Now).status.delivery = m.status.delivery
  <2> DEFINE k == ApplyOutcome(n, name, job, m.gen)
  <2>1. k \in Mirror /\ k.status.delivery = m.status.delivery
    BY <1>1, <1>2, <1>3
  <2> HIDE DEF k
  <2>2. ApplyFollowup(k, Now) \in Mirror /\ ApplyFollowup(k, Now).status.delivery = k.status.delivery
    BY <1>4, <2>1
  <2> QED
    BY <1>5, <2>1, <2>2 DEF k
<1>7. /\ ApplyCompletedLegacyJobStatus(m, name, job) \in Mirror
      /\ ApplyCompletedLegacyJobStatus(m, name, job).status.delivery = m.status.delivery
  BY <1>1, <1>3 DEF ApplyCompletedLegacyJobStatus
<1> QED
  BY <1>6, <1>7 DEF ApplyCompletion

\* The work queue holds GitMirrors.
LEMMA EnqueuedType ==
  ASSUME queue \in Seq(Mirrors), NEW m \in Mirrors
  PROVE  Enqueued(m) \in Seq(Mirrors)
BY DEF Enqueued

\* Between two stages the worker keeps its GitMirror and its stamp, or is at rest.
LEMMA StageType ==
  ASSUME NEW w \in Work
  PROVE  /\ Stage(w) \in Work
         /\ \/ Stage(w) = Idle
            \/ /\ Stage(w).pc \in {"completed", "generation", "pending"}
               /\ Stage(w).mirror = w.mirror /\ Stage(w).stamp = w.stamp
<1>1. \A pc \in {"completed", "generation", "pending"} :
        LET v == [w EXCEPT !.op = NoOp, !.pc = pc] IN
        v \in Work /\ v.pc = pc /\ v.mirror = w.mirror /\ v.stamp = w.stamp
  BY NewTypes DEF Work
<1> QED
  BY <1>1, NewTypes DEF Stage

------------------------------------------------------------------------------
(***************************************************************************)
(* Steps.                                                                  *)
(***************************************************************************)

\* A patch of one GitMirror leaves the others alone.
LEMMA PatchType ==
  ASSUME TypeOK, NEW m \in Mirrors, NEW new \in Mirror, PatchMirror(m, new)
  PROVE  /\ mirrors' \in [Mirrors -> Mirror]
         /\ \A o \in Mirrors : mirrors'[o] = IF o = m THEN new ELSE mirrors[o]
         /\ queue' \in Seq(Mirrors)
BY EnqueuedType DEF TypeOK, PatchMirror

\* A step that neither takes requests nor records deliveries keeps them signed.
LEMMA SignedKept ==
  ASSUME IInv, UNCHANGED <<inbox, sent, hook>>,
         \A m \in Mirrors : mirrors'[m].status.delivery = mirrors[m].status.delivery
  PROVE  SignedRequests' /\ SignedHooks' /\ OnlySigned'
BY DEF IInv, SignedRequests, SignedHooks, OnlySigned

\* At the start nothing was sent and no delivery is recorded.
LEMMA InitSigned == Init => IInv
<1> SUFFICES ASSUME Init PROVE IInv
  OBVIOUS
<1>1. Cardinality(Mirrors) \in Nat
  BY MirrorsAssumption, FS_CardinalityType
<1>2. queue \in Seq(Mirrors)
  BY <1>1 DEF Init
<1>3. jobs \in [Mirrors -> [JobNames -> Job]] /\ mirrors \in [Mirrors -> Mirror]
  BY NewTypes DEF Init
<1>4. TypeOK
  BY <1>2, <1>3, NewTypes, MaxPushAssumption DEF Init, TypeOK
<1>5. WorkUnderway
  BY DEF Init, Idle, WorkUnderway, At
<1>6. SignedRequests /\ SignedHooks /\ OnlySigned
  BY NewTypes DEF Init, SignedRequests, SignedHooks, OnlySigned
<1> QED
  BY <1>4, <1>5, <1>6 DEF IInv

\* A push: its delivery is among those sent if it is signed.
LEMMA PushSigned == IInv /\ Push => IInv'
<1> SUFFICES ASSUME IInv, Push PROVE IInv'
  OBVIOUS
<1> USE DEF IInv
<1>1. PICK r \in Request :
        /\ r.id \in {0, source + 1} /\ r.rev = source + 1
        /\ inbox' = inbox \cup {r}
        /\ sent' = IF r.id # 0 /\ r.secret # NoSecret
                   THEN sent \cup {[id |-> r.id, secret |-> r.secret]} ELSE sent
  BY DEF Push
<1>2. /\ source < MaxPush /\ source' = source + 1
      /\ UNCHANGED <<mirrors, deleted, jobs, lease, queue, armed, work, hook>>
  BY DEF Push, cluster
<1>3. source' \in 0..MaxPush /\ source + 1 \in Deliveries
  BY <1>2, MaxPushAssumption DEF TypeOK, Deliveries
<1>4. r.id # 0 /\ r.secret # NoSecret =>
        [id |-> r.id, secret |-> r.secret] \in [id : Deliveries, secret : Secrets]
  BY <1>1, <1>3 DEF Request
<1>5. inbox' \subseteq Request /\ sent' \subseteq [id : Deliveries, secret : Secrets]
  BY <1>1, <1>4 DEF TypeOK
<1>6. TypeOK'
  BY <1>2, <1>3, <1>5 DEF TypeOK
<1>7. WorkUnderway'
  BY <1>2 DEF WorkUnderway, At
<1>8. sent \subseteq sent'
  BY <1>1
<1>9. SignedRequests'
  BY <1>1, <1>8 DEF SignedRequests
<1>10. SignedHooks' /\ OnlySigned'
  BY <1>2, <1>8 DEF SignedHooks, OnlySigned
<1> QED
  BY <1>6, <1>7, <1>9, <1>10

\* The receiver: what it accepts was signed with the secret of the GitMirror it
\* found.
LEMMA HandlerSigned ==
  ASSUME IInv, NEW r \in inbox, HandleGitHub(r)
  PROVE  IInv'
<1> USE DEF IInv
<1>1. /\ inbox' = inbox \ {r}
      /\ UNCHANGED <<mirrors, deleted, jobs, lease, queue, armed, work, source, sent>>
  BY DEF HandleGitHub, cluster
<1>2. \/ hook' = hook
      \/ \E m \in Mirrors : /\ VerifySignature(m, r) /\ r.id # 0
                           /\ hook' = hook \cup {[mirror |-> m, id |-> r.id, rev |-> r.rev]}
  BY DEF HandleGitHub, FindMirror
<1>3. r \in Request
  BY DEF TypeOK
<1>4. hook' \subseteq [mirror : Mirrors, id : Deliveries, rev : Revisions] /\ SignedHooks'
  <2>1. CASE hook' = hook
    BY <2>1, <1>1 DEF TypeOK, SignedHooks
  <2>2. ASSUME NEW m \in Mirrors, VerifySignature(m, r), r.id # 0,
               hook' = hook \cup {[mirror |-> m, id |-> r.id, rev |-> r.rev]}
        PROVE  hook' \subseteq [mirror : Mirrors, id : Deliveries, rev : Revisions]
                 /\ SignedHooks'
    <3>1. r.id \in Deliveries /\ r.rev \in Revisions
      BY <1>3, <2>2, MaxPushAssumption DEF Request, Deliveries
    <3>2. [id |-> r.id, secret |-> SecretOf[m]] \in sent
      BY <2>2 DEF SignedRequests, VerifySignature
    <3> QED
      BY <1>1, <2>2, <3>1, <3>2 DEF TypeOK, SignedHooks
  <2> QED
    BY <1>2, <2>1, <2>2
<1>5. TypeOK'
  BY <1>1, <1>4 DEF TypeOK
<1>6. WorkUnderway' /\ SignedRequests' /\ OnlySigned'
  BY <1>1 DEF WorkUnderway, At, SignedRequests, OnlySigned
<1> QED
  BY <1>4, <1>5, <1>6

\* The patch of a handler records the delivery it verified.
LEMMA RecordSigned ==
  ASSUME IInv, NEW h \in hook, RecordDelivery(h)
  PROVE  IInv'
<1> USE DEF IInv
<1>1. /\ hook' = hook \ {h}
      /\ UNCHANGED <<deleted, jobs, lease, armed, work, source, inbox, sent>>
  BY DEF RecordDelivery
<1>2. h.mirror \in Mirrors /\ h.id \in Deliveries /\ h.rev \in Revisions
  BY DEF TypeOK
<1>3. [id |-> h.id, secret |-> SecretOf[h.mirror]] \in sent
  BY DEF SignedHooks
<1> DEFINE new == ApplyWebhookIntent(mirrors[h.mirror], h.id, h.rev)
<1>4. new \in Mirror /\ new.status.delivery = h.id
  BY <1>2, IntentType DEF TypeOK
<1>5. UNCHANGED <<mirrors, queue>> \/ PatchMirror(h.mirror, new)
  BY DEF RecordDelivery
<1> HIDE DEF new
<1>6. /\ mirrors' \in [Mirrors -> Mirror] /\ queue' \in Seq(Mirrors)
      /\ \A o \in Mirrors : mirrors'[o] = mirrors[o] \/ (o = h.mirror /\ mirrors'[o] = new)
  BY <1>2, <1>4, <1>5, PatchType DEF TypeOK
<1>7. TypeOK'
  BY <1>1, <1>6 DEF TypeOK
<1>8. WorkUnderway' /\ SignedRequests' /\ SignedHooks'
  BY <1>1 DEF WorkUnderway, At, SignedRequests, SignedHooks
<1>9. OnlySigned'
  BY <1>1, <1>3, <1>4, <1>6 DEF OnlySigned
<1> QED
  BY <1>7, <1>8, <1>9

\* The start of a Reconcile.
LEMMA BeginSigned == IInv /\ Begin => IInv'
<1> SUFFICES ASSUME IInv, Begin PROVE IInv'
  OBVIOUS
<1> USE DEF IInv
<1>1. /\ queue # <<>> /\ queue' = Tail(queue)
      /\ UNCHANGED <<mirrors, deleted, jobs, lease, armed, source, inbox, sent, hook>>
  BY DEF Begin, cluster, github
<1>2. Head(queue) \in Mirrors /\ queue' \in Seq(Mirrors)
  BY <1>1 DEF TypeOK
<1>3. CASE work' = work
  <2>1. TypeOK' /\ WorkUnderway'
    BY <1>1, <1>2, <1>3 DEF TypeOK, WorkUnderway, At
  <2> QED
    BY <1>1, <2>1, SignedKept
<1>4. CASE work' # work
  <2> DEFINE m == mirrors[Head(queue)]
             listed == JobsForGeneration(jobs[Head(queue)], m.gen)
             found == {[name |-> n, job |-> listed[n]] :
                         n \in {n \in JobNames : RecordsCompletion(m, listed, n)}}
  <2>1. PICK k \in Stamps :
          work' = Stage([Idle EXCEPT
               !.mirror = Head(queue), !.gen = m.gen,
               !.unobserved = m.status.observed # m.gen,
               !.pending = m.status.pending,
               !.active = ActiveJobExists(listed),
               !.stamp = k,
               !.todo = found])
    BY <1>4 DEF Begin
  <2>2. m \in Mirror
    BY <1>2 DEF TypeOK
  <2>3. listed \in [JobNames -> Job]
    BY <1>2, NewTypes DEF TypeOK, JobsForGeneration
  <2>4. found \subseteq [name : JobNames, job : Job]
    BY <2>3
  <2>5. ActiveJobExists(listed) \in BOOLEAN
    BY DEF ActiveJobExists
  <2>6. m.gen \in 0..MaxGen /\ m.status.pending \in BOOLEAN /\ k \in 0..MaxStamp
    BY <2>2, MaxStampAssumption DEF Mirror, Status, Generations, Stamps
  <2> DEFINE w == [Idle EXCEPT
               !.mirror = Head(queue), !.gen = m.gen,
               !.unobserved = m.status.observed # m.gen,
               !.pending = m.status.pending,
               !.active = ActiveJobExists(listed),
               !.stamp = k,
               !.todo = found]
  <2> HIDE DEF m, listed, found
  <2>7. w \in Work /\ w.mirror = Head(queue) /\ w.stamp = k
    BY <1>2, <2>4, <2>5, <2>6, NewTypes DEF Work, Idle
  <2>8. work' = Stage(w)
    BY <2>1
  <2> HIDE DEF w
  <2>9. work' \in Work /\ WorkUnderway'
    BY <1>2, <2>7, <2>8, StageType DEF WorkUnderway, At, Idle
  <2>10. TypeOK'
    BY <1>1, <1>2, <2>9 DEF TypeOK
  <2> QED
    BY <1>1, <2>9, <2>10, SignedKept
<1> QED
  BY <1>3, <1>4

\* reconcileCompletedJobs.
LEMMA CompletedSigned == IInv /\ RecordCompleted => IInv'
<1> SUFFICES ASSUME IInv, RecordCompleted PROVE IInv'
  OBVIOUS
<1> USE DEF IInv
<1>1. /\ work.mirror \in Mirrors /\ work.stamp \in Stamps /\ work \in Work
      /\ UNCHANGED <<deleted, jobs, armed, source, inbox, sent, hook>>
  BY DEF RecordCompleted, WorkUnderway, At, TypeOK, github
<1>2. CASE work.mirror \in deleted
  <2>1. Fail /\ UNCHANGED <<mirrors, lease>>
    BY <1>2 DEF RecordCompleted
  <2>2. queue' \in Seq(Mirrors) /\ work' = Idle
    BY <1>1, <2>1, EnqueuedType DEF Fail, TypeOK
  <2>3. TypeOK' /\ WorkUnderway'
    BY <1>1, <2>1, <2>2, NewTypes DEF TypeOK, WorkUnderway, At, Idle
  <2> QED
    BY <1>1, <2>1, <2>3, SignedKept
<1>3. CASE work.mirror \notin deleted
  <2> DEFINE m == work.mirror
  <2>1. PICK l \in work.todo :
          LET rest == [work EXCEPT !.todo = @ \ {l}] IN
          /\ PatchMirror(m, ApplyCompletion(mirrors[m], l.name, l.job, Now))
          /\ lease' = IF lease = <<m, l.name>> THEN NoHolder ELSE lease
          /\ work' = IF NeedsFollowup(mirrors[m], l.name, l.job)
                     THEN [rest EXCEPT !.pc = "acquire",
                             !.op = [kind |-> "followup", name |-> ResyncJob(work.stamp),
                                     gen |-> work.gen,
                                     rev |-> mirrors[m].status.requested]]
                     ELSE Stage(rest)
    BY <1>3 DEF RecordCompleted
  <2>2. l.name \in JobNames /\ l.job \in Job /\ mirrors[m] \in Mirror
    BY <1>1 DEF Work, TypeOK
  <2> DEFINE new == ApplyCompletion(mirrors[m], l.name, l.job, Now)
             rest == [work EXCEPT !.todo = @ \ {l}]
             op == [kind |-> "followup", name |-> ResyncJob(work.stamp),
                    gen |-> work.gen, rev |-> mirrors[m].status.requested]
  <2>3. new \in Mirror /\ new.status.delivery = mirrors[m].status.delivery
    BY <2>2, CompletionType
  <2>4. /\ PatchMirror(m, new)
        /\ lease' \in {NoHolder, lease}
        /\ work' = [rest EXCEPT !.pc = "acquire", !.op = op] \/ work' = Stage(rest)
    BY <2>1
  <2> HIDE DEF new
  <2>5. /\ mirrors' \in [Mirrors -> Mirror] /\ queue' \in Seq(Mirrors)
        /\ \A o \in Mirrors : mirrors'[o].status.delivery = mirrors[o].status.delivery
    BY <1>1, <2>3, <2>4, PatchType
  <2>6. rest \in Work /\ rest.mirror = m /\ rest.stamp = work.stamp
    BY <1>1 DEF Work
  <2>7. op \in Op /\ op.name \in JobNames
    BY <1>1, <2>2, NamesType DEF Op, Work, Mirror, Status
  <2> HIDE DEF rest, op
  <2>8. work' \in Work /\ WorkUnderway'
    <3>1. CASE work' = [rest EXCEPT !.pc = "acquire", !.op = op]
      <4>1. work' \in Work
        BY <3>1, <2>6, <2>7 DEF Work
      <4>2. work'.mirror = m /\ work'.stamp = work.stamp /\ work'.op = op
        BY <3>1, <2>6 DEF Work
      <4> QED
        BY <1>1, <2>7, <4>1, <4>2 DEF WorkUnderway, At
    <3>2. CASE work' = Stage(rest)
      BY <1>1, <2>6, <3>2, NewTypes, StageType DEF WorkUnderway, At, Idle
    <3> QED
      BY <2>4, <3>1, <3>2
  <2>9. TypeOK'
    BY <1>1, <2>4, <2>5, <2>8 DEF TypeOK
  <2> QED
    BY <1>1, <2>5, <2>8, <2>9, SignedKept
<1> QED
  BY <1>2, <1>3

\* reconcileUnobservedGeneration and reconcilePendingResync up to the Lease.
LEMMA ChooseSigned == IInv /\ Choose => IInv'
<1> SUFFICES ASSUME IInv, Choose PROVE IInv'
  OBVIOUS
<1> USE DEF IInv
<1> DEFINE m == mirrors[work.mirror]
           name == IF At("generation") THEN GenerationJob(m.gen)
                   ELSE PendingJobName(m, work.stamp)
           op == [kind |-> work.pc, name |-> name, gen |-> m.gen,
                  rev |-> m.status.requested]
<1>1. /\ At("generation") \/ At("pending")
      /\ work.mirror \in Mirrors /\ work.stamp \in Stamps /\ work \in Work /\ m \in Mirror
      /\ UNCHANGED <<mirrors, deleted, jobs, lease, armed, source, inbox, sent, hook>>
  BY DEF Choose, WorkUnderway, At, TypeOK, github, cluster
<1>2. m.status.delivery # 0 => m.status.delivery \in 1..Scheduled
  BY <1>1, MaxPushAssumption DEF Mirror, Status, Scheduled
<1>3. name \in JobNames
  BY <1>1, <1>2, NamesType DEF PendingJobName, Mirror
<1>4. op \in Op /\ op.name \in JobNames
  BY <1>1, <1>3 DEF Op, At, Mirror, Status, Generations
<1>5. \/ Fail
      \/ /\ \/ work' = Stage([work EXCEPT !.unobserved = FALSE])
            \/ work' = Idle
            \/ work' = [work EXCEPT !.pc = "acquire", !.op = op]
         /\ UNCHANGED queue
  BY DEF Choose
<1> HIDE DEF m, name, op
<1>6. queue' \in Seq(Mirrors)
  BY <1>1, <1>5, EnqueuedType DEF Fail, TypeOK
<1>7. work' \in Work /\ WorkUnderway'
  <2>1. CASE work' = Idle
    BY <2>1, NewTypes DEF WorkUnderway, At, Idle
  <2>2. CASE work' = Stage([work EXCEPT !.unobserved = FALSE])
    <3> DEFINE w == [work EXCEPT !.unobserved = FALSE]
    <3>1. w \in Work /\ w.mirror = work.mirror /\ w.stamp = work.stamp
      BY <1>1 DEF Work
    <3> HIDE DEF w
    <3>2. work' = Stage(w)
      BY <2>2 DEF w
    <3> QED
      BY <1>1, <3>1, <3>2, NewTypes, StageType DEF WorkUnderway, At, Idle
  <2>3. CASE work' = [work EXCEPT !.pc = "acquire", !.op = op]
    <3>1. work' \in Work
      BY <1>1, <1>4, <2>3 DEF Work
    <3>2. work'.mirror = work.mirror /\ work'.stamp = work.stamp /\ work'.op = op
      BY <1>1, <2>3 DEF Work
    <3> QED
      BY <1>1, <1>4, <3>1, <3>2 DEF WorkUnderway, At
  <2> QED
    BY <1>5, <2>1, <2>2, <2>3 DEF Fail
<1>8. TypeOK'
  BY <1>1, <1>6, <1>7 DEF TypeOK
<1> QED
  BY <1>1, <1>7, <1>8, SignedKept

\* acquireSyncLease.
LEMMA AcquireSigned == IInv /\ AcquireLease => IInv'
<1> SUFFICES ASSUME IInv, AcquireLease PROVE IInv'
  OBVIOUS
<1> USE DEF IInv
<1>1. /\ work.mirror \in Mirrors /\ work.stamp \in Stamps /\ work.op.name \in JobNames
      /\ work \in Work
      /\ UNCHANGED <<mirrors, deleted, jobs, queue, source, inbox, sent, hook>>
  BY DEF AcquireLease, WorkUnderway, At, TypeOK, github
<1>2. \/ work' = Idle /\ armed' = armed \cup {work.mirror} /\ UNCHANGED lease
      \/ /\ lease' = <<work.mirror, work.op.name>>
         /\ work' = [work EXCEPT !.pc = "create"]
         /\ UNCHANGED armed
  BY DEF AcquireLease
<1>3. work' \in Work /\ WorkUnderway'
  <2>1. CASE work' = Idle
    BY <2>1, NewTypes DEF WorkUnderway, At, Idle
  <2>2. CASE work' = [work EXCEPT !.pc = "create"]
    BY <1>1, <2>2 DEF Work, WorkUnderway, At
  <2> QED
    BY <1>2, <2>1, <2>2
<1>4. TypeOK'
  BY <1>1, <1>2, <1>3 DEF TypeOK
<1> QED
  BY <1>1, <1>3, <1>4, SignedKept

\* The create of a Job.
LEMMA CreateSigned == IInv /\ CreateJob => IInv'
<1> SUFFICES ASSUME IInv, CreateJob PROVE IInv'
  OBVIOUS
<1> USE DEF IInv
<1>1. /\ work.mirror \in Mirrors /\ work.stamp \in Stamps /\ work.op.name \in JobNames
      /\ work \in Work /\ work' = [work EXCEPT !.pc = "record"]
      /\ UNCHANGED <<mirrors, deleted, lease, armed, source, inbox, sent, hook>>
  BY DEF CreateJob, WorkUnderway, At, TypeOK, github
<1>2. NewJob(work.op.gen, work.op.rev) \in Job
  BY <1>1, NewTypes DEF Work, Op
<1>3. jobs' \in [Mirrors -> [JobNames -> Job]]
  BY <1>1, <1>2 DEF CreateJob, TypeOK
<1>4. queue' \in Seq(Mirrors)
  BY <1>1, EnqueuedType DEF CreateJob, TypeOK
<1>5. work' \in Work /\ WorkUnderway'
  BY <1>1 DEF Work, WorkUnderway, At
<1>6. TypeOK'
  BY <1>1, <1>3, <1>4, <1>5 DEF TypeOK
<1> QED
  BY <1>1, <1>5, <1>6, SignedKept

\* The patch that records a Job as scheduled.
LEMMA ScheduledSigned == IInv /\ RecordScheduled => IInv'
<1> SUFFICES ASSUME IInv, RecordScheduled PROVE IInv'
  OBVIOUS
<1> USE DEF IInv
<1> DEFINE m == work.mirror
           op == work.op
           new == ApplySyncScheduledForGeneration(mirrors[m], op.name, op.gen, Now)
<1>1. /\ m \in Mirrors /\ work.stamp \in Stamps /\ op.name \in JobNames
      /\ work \in Work /\ mirrors[m] \in Mirror
      /\ UNCHANGED <<deleted, jobs, lease, armed, source, inbox, sent, hook>>
  BY DEF RecordScheduled, WorkUnderway, At, TypeOK, github
<1>2. new \in Mirror /\ new.status.delivery = mirrors[m].status.delivery
  BY <1>1, ScheduledType
<1>3. \/ Fail /\ UNCHANGED mirrors
      \/ PatchMirror(m, new) /\ work' \in {Stage(work), Idle}
  BY DEF RecordScheduled
<1> HIDE DEF new
<1>4. /\ mirrors' \in [Mirrors -> Mirror] /\ queue' \in Seq(Mirrors)
      /\ \A o \in Mirrors : mirrors'[o].status.delivery = mirrors[o].status.delivery
  BY <1>1, <1>2, <1>3, PatchType, EnqueuedType DEF Fail, TypeOK
<1>5. work' \in Work /\ WorkUnderway'
  <2>1. CASE work' = Stage(work)
    BY <1>1, <2>1, NewTypes, StageType DEF WorkUnderway, At, Idle
  <2>2. CASE work' = Idle
    BY <2>2, NewTypes DEF WorkUnderway, At, Idle
  <2> QED
    BY <1>3, <2>1, <2>2 DEF Fail
<1>6. TypeOK'
  BY <1>1, <1>4, <1>5 DEF TypeOK
<1> QED
  BY <1>1, <1>4, <1>5, <1>6, SignedKept

\* Timers, users, the garbage collector and the Jobs.
LEMMA ClusterSigned ==
  ASSUME IInv, NEW m \in Mirrors,
         \/ TimerFires(m) \/ ChangeSpec(m) \/ DeleteMirror(m) \/ CollectJobs(m)
         \/ \E n \in JobNames : JobEnds(m, n)
  PROVE  IInv'
<1> USE DEF IInv
<1>1. /\ UNCHANGED <<lease, work, source, inbox, sent, hook>>
      /\ queue' = Enqueued(m)
  BY DEF TimerFires, ChangeSpec, DeleteMirror, CollectJobs, JobEnds, cluster, github
<1>2. queue' \in Seq(Mirrors)
  BY <1>1, EnqueuedType DEF TypeOK
<1>3. deleted' \subseteq Mirrors /\ armed' \subseteq Mirrors
  BY DEF TimerFires, ChangeSpec, DeleteMirror, CollectJobs, JobEnds, cluster, TypeOK
<1>4. /\ mirrors' \in [Mirrors -> Mirror]
      /\ \A o \in Mirrors : mirrors'[o].status.delivery = mirrors[o].status.delivery
  <2>1. CASE ChangeSpec(m)
    <3>1. mirrors[m] \in Mirror /\ mirrors[m].gen + 1 \in Generations
      BY <2>1, MaxGenAssumption DEF ChangeSpec, TypeOK, Mirror, Generations
    <3>2. [mirrors[m] EXCEPT !.gen = @ + 1] \in Mirror
      BY <3>1 DEF Mirror
    <3>3. mirrors' = [mirrors EXCEPT ![m] = [mirrors[m] EXCEPT !.gen = @ + 1]]
      BY <2>1 DEF ChangeSpec
    <3> QED
      BY <3>1, <3>2, <3>3 DEF TypeOK, Mirror
  <2>2. CASE ~ChangeSpec(m)
    BY <2>2 DEF TimerFires, DeleteMirror, CollectJobs, JobEnds, cluster, TypeOK
  <2> QED
    BY <2>1, <2>2
<1>5. jobs' \in [Mirrors -> [JobNames -> Job]]
  <2>1. CASE CollectJobs(m)
    BY <2>1, NewTypes DEF CollectJobs, TypeOK
  <2>2. ASSUME NEW n \in JobNames, JobEnds(m, n) PROVE jobs' \in [Mirrors -> [JobNames -> Job]]
    <3>1. \A j \in Job : [j EXCEPT !.phase = "complete"] \in Job
      BY DEF Job, FinishedPhases
    <3>2. jobs' = [jobs EXCEPT ![m] = [jobs[m] EXCEPT ![n] =
                     [jobs[m][n] EXCEPT !.phase = "complete"]]]
      BY <2>2 DEF JobEnds, TypeOK
    <3>3. jobs \in [Mirrors -> [JobNames -> Job]]
      BY DEF TypeOK
    <3> QED
      BY <3>1, <3>2, <3>3
  <2>3. CASE TimerFires(m) \/ ChangeSpec(m) \/ DeleteMirror(m)
    BY <2>3 DEF TimerFires, ChangeSpec, DeleteMirror, cluster, TypeOK
  <2> QED
    BY <2>1, <2>2, <2>3
<1>6. TypeOK'
  BY <1>1, <1>2, <1>3, <1>4, <1>5 DEF TypeOK
<1>7. WorkUnderway'
  BY <1>1 DEF WorkUnderway, At
<1> QED
  BY <1>1, <1>4, <1>6, <1>7, SignedKept

------------------------------------------------------------------------------
\* The inductive invariant: requests, handlers and statuses hold what was signed.
THEOREM Invariance == Spec => []IInv
<1>1. IInv /\ [Next]_vars => IInv'
  <2> SUFFICES ASSUME IInv, [Next]_vars PROVE IInv'
    OBVIOUS
  <2>1. CASE Push
    BY <2>1, PushSigned
  <2>2. CASE \E r \in inbox : HandleGitHub(r)
    BY <2>2, HandlerSigned
  <2>3. CASE \E h \in hook : RecordDelivery(h)
    BY <2>3, RecordSigned
  <2>4. CASE Reconcile
    BY <2>4, BeginSigned, CompletedSigned, ChooseSigned, AcquireSigned, CreateSigned,
       ScheduledSigned DEF Reconcile
  <2>5. CASE \E m \in Mirrors :
               \/ TimerFires(m) \/ ChangeSpec(m) \/ DeleteMirror(m) \/ CollectJobs(m)
               \/ \E n \in JobNames : JobEnds(m, n)
    BY <2>5, ClusterSigned
  <2>6. CASE UNCHANGED vars
    BY <2>6 DEF vars, cluster, github, IInv, TypeOK, WorkUnderway, At, SignedRequests,
                SignedHooks, OnlySigned
  <2> QED
    BY <2>1, <2>2, <2>3, <2>4, <2>5, <2>6 DEF Next
<1> QED
  BY <1>1, InitSigned, PTL DEF Spec

\* Every variable of the server, the worker and the receiver keeps its kind, for
\* any number of GitMirrors.
THEOREM TypeCorrect == Spec => []TypeOK
<1>1. IInv => TypeOK
  BY DEF IInv
<1> QED
  BY <1>1, Invariance, PTL

\* HandleGitHub records a delivery only for a GitMirror with whose own secret it
\* was signed, whichever the cache lists first and whatever is recorded meanwhile.
THEOREM Signed == Spec => []OnlySigned
<1>1. IInv => OnlySigned
  BY DEF IInv
<1> QED
  BY <1>1, Invariance, PTL
==============================================================================
