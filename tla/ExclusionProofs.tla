--------------------------- MODULE ExclusionProofs ---------------------------
(***************************************************************************)
(* The Jobs of SharedRepository exclude each other, for any number of      *)
(* GitMirrors, generations, pushes and Jobs.                               *)
(*                                                                         *)
(* A Reconcile decides once that no Job of its generation is active, and   *)
(* may then create two: a follow-up and the Job of a new generation or a   *)
(* new delivery.  The Lease keeps these two apart, and it does because     *)
(* nobody else releases it meanwhile; that the follow-up's completed Job   *)
(* was the only one of its generation follows from the order in which the  *)
(* status names Jobs.                                                      *)
(***************************************************************************)
EXTENDS SharedRepositoryProofs

Exists(m, n) == JobExists(jobs[m][n])
Running(m, n) == JobRunning(jobs[m][n])
Gen(m, n) == jobs[m][n].gen

Owner == work.mirror
Followup == ResyncJob(work.stamp)
Chosen == At("acquire") \/ At("create") \/ At("record")
Holding == At("create") \/ At("record")
JustCreated(m, n) == At("record") /\ m = Owner /\ n = work.op.name

\* A Job's generation is one its GitMirror had; there are no legacy Jobs here.
GensExist ==
  \A m \in Mirrors, n \in JobNames : Exists(m, n) => Gen(m, n) \in 1..mirrors[m].gen

\* A Reconcile that goes on has found no active Job, and is of a generation that
\* the Job it creates is not older than.
GensOfWork ==
  /\ ~At("idle") => ~work.active /\ work.gen \in 1..mirrors[Owner].gen
  /\ Chosen => /\ work.op.gen \in work.gen..mirrors[Owner].gen
               /\ work.op.kind = "followup" => work.op.gen = work.gen /\ work.op.name = Followup

\* What it listed and has still to record is finished, and is not the follow-up.
ListedFinished ==
  ~At("idle") =>
    \A l \in work.todo :
      /\ l.job.gen = work.gen /\ l.name # Followup
      /\ Owner \notin deleted =>
           Exists(Owner, l.name) /\ ~Running(Owner, l.name) /\ Gen(Owner, l.name) = work.gen

\* Jobs of its generation, or of a newer one, are those it has created itself.
NoneNewer ==
  ~At("idle") =>
    \A n \in JobNames : Exists(Owner, n) =>
      Gen(Owner, n) <= work.gen \/ (JustCreated(Owner, n) /\ Gen(Owner, n) = work.op.gen)

OnlyOwn ==
  ~At("idle") =>
    \A n \in JobNames : Running(Owner, n) /\ Gen(Owner, n) = work.gen =>
      n = Followup \/ JustCreated(Owner, n)

\* The follow-up it created keeps the Lease from other Jobs of the generation.
FollowupHolds ==
  /\ ~At("idle") /\ (Holding => work.op.gen = work.gen)
  /\ Running(Owner, Followup) /\ Gen(Owner, Followup) = work.gen
  => lease = <<Owner, Followup>>

\* With the Lease, no other Job of the generation runs.
HolderAlone ==
  Holding =>
    /\ lease = <<Owner, work.op.name>>
    /\ \A n \in JobNames : Running(Owner, n) /\ Gen(Owner, n) = work.op.gen => n = work.op.name

\* A running Job of the present generation is the one the status names, or that
\* names one whose completion is recorded: then no completion of it is recorded
\* beside the running Job.
Named(m, n) ==
  LET s == mirrors[m].status IN
    \/ s.lastJob = n
    \/ /\ s.lastJob = s.completed /\ s.lastJob \in JobNames
       /\ Exists(m, s.lastJob) /\ Gen(m, s.lastJob) = mirrors[m].gen

RunningIsNamed ==
  \A m \in Mirrors \ deleted, n \in JobNames :
    Running(m, n) /\ Gen(m, n) = mirrors[m].gen => Named(m, n) \/ JustCreated(m, n)

\* As long as no spec changed, whatever runs has the Lease.
RunningHolds ==
  NoSpecChanged => \A m \in Mirrors, n \in JobNames : Running(m, n) => lease = <<m, n>>

OneOfGeneration ==
  \A m \in Mirrors : \A n, p \in JobNames :
    Running(m, n) /\ Running(m, p) /\ Gen(m, n) = Gen(m, p) => n = p

XInv ==
  /\ GensExist /\ GensOfWork /\ ListedFinished /\ NoneNewer /\ OnlyOwn
  /\ FollowupHolds /\ HolderAlone /\ RunningIsNamed /\ RunningHolds
  /\ OneOfGeneration

------------------------------------------------------------------------------
(***************************************************************************)
(* Operators.                                                              *)
(***************************************************************************)

\* A Job that runs exists, and one that ended does not run.
LEMMA Phases ==
  \A j \in Job : /\ JobRunning(j) => JobExists(j) /\ ~JobFinished(j)
                 /\ JobFinished(j) => JobExists(j) /\ ~JobRunning(j)
                 /\ JobActive(j) <=> JobRunning(j)
                 /\ j.gen \in 0..MaxGen
BY DEF Job, JobRunning, JobExists, JobFinished, JobActive, RunningPhases, FinishedPhases

\* The phases of an absent and of a new Job.
LEMMA NewPhases ==
  /\ ~JobExists(AbsentJob) /\ ~JobRunning(AbsentJob)
  /\ \A gen, rev : /\ JobRunning(NewJob(gen, rev)) /\ JobExists(NewJob(gen, rev))
                   /\ NewJob(gen, rev).gen = gen
BY DEF AbsentJob, NewJob, JobExists, JobRunning, RunningPhases

\* What the patches leave of the names of Jobs in the status.
LEMMA IntentNames ==
  ASSUME NEW m \in Mirror, NEW id \in Deliveries, NEW rev \in Revisions
  PROVE  LET s == ApplyWebhookIntent(m, id, rev) IN
         /\ s.gen = m.gen /\ s.status.lastJob = m.status.lastJob
         /\ s.status.completed = m.status.completed
BY DEF ApplyWebhookIntent, Mirror, Status

\* A Job recorded as scheduled is named if its generation is still the present one.
LEMMA ScheduledNames ==
  ASSUME NEW m \in Mirror, NEW name, NEW gen
  PROVE  LET s == ApplySyncScheduledForGeneration(m, name, gen, Now) IN
         /\ s.gen = m.gen
         /\ s.status.lastJob = IF m.gen = gen THEN name ELSE m.status.lastJob
         /\ s.status.completed = m.status.completed
BY DEF ApplySyncScheduledForGeneration, ApplySyncScheduled, Mirror, Status

\* A completion that applies is named twice; one that does not leaves all alone.
LEMMA CompletionNames ==
  ASSUME NEW m \in Mirror, NEW name \in JobNames, NEW job \in Job
  PROVE  LET s == ApplyCompletion(m, name, job, Now) IN
         /\ s.gen = m.gen
         /\ \/ CompletionApplies(m, name, job)
                  /\ s.status.lastJob = name /\ s.status.completed = name
            \/ ~CompletionApplies(m, name, job) /\ s = m
<1> DEFINE n == [m EXCEPT !.status.observed = m.gen]
<1>1. n \in Mirror /\ n.gen = m.gen
  BY DEF Mirror, Status, Generations
<1>2. ASSUME NEW k \in Mirror, NEW gen
      PROVE  LET o == ApplyOutcome(k, name, job, gen) IN
             o.gen = k.gen /\ o.status.lastJob = name /\ o.status.completed = name
  BY DEF ApplyOutcome, Mirror, Status
<1>3. ASSUME NEW k \in Mirror
      PROVE  LET f == ApplyFollowup(k, Now) IN
             /\ f.gen = k.gen /\ f.status.lastJob = k.status.lastJob
             /\ f.status.completed = k.status.completed
  BY DEF ApplyFollowup, Mirror, Status
<1>4. ApplyOutcome(n, name, job, m.gen) \in Mirror
  <2>1. \A v \in {"True", "False"} : SetReady(n.status.conditions, m.gen, v) \in Conditions
    BY <1>1, ConditionsType DEF Mirror, Status, Generations
  <2>2. MirroredAfter(n, job) \in Revisions /\ ErrorAfter(n, job) \in BOOLEAN
    BY <1>1 DEF MirroredAfter, ErrorAfter, Job, Mirror, Status
  <2> HIDE DEF n
  <2> QED
    BY <1>1, <2>1, <2>2 DEF ApplyOutcome, Mirror, Status
<1> DEFINE o == ApplyOutcome(n, name, job, m.gen)
<1>5. ApplyCompletedJobStatus(m, name, job, Now) = ApplyFollowup(o, Now)
  BY DEF ApplyCompletedJobStatus
<1>6. o.gen = m.gen /\ o.status.lastJob = name /\ o.status.completed = name
  BY <1>1, <1>2
<1> HIDE DEF o, n
<1>7. LET s == ApplyCompletedJobStatus(m, name, job, Now) IN
      s.gen = m.gen /\ s.status.lastJob = name /\ s.status.completed = name
  BY <1>3, <1>4, <1>5, <1>6 DEF o
<1>8. LET s == ApplyCompletedLegacyJobStatus(m, name, job) IN
      s.gen = m.gen /\ s.status.lastJob = name /\ s.status.completed = name
  BY <1>2 DEF ApplyCompletedLegacyJobStatus
<1> QED
  BY <1>7, <1>8 DEF ApplyCompletion

------------------------------------------------------------------------------
(***************************************************************************)
(* Steps.                                                                  *)
(***************************************************************************)

\* The kinds of the values that the steps below read.
LEMMA Kinds ==
  ASSUME IInv
  PROVE  /\ \A m \in Mirrors : mirrors[m] \in Mirror /\ mirrors[m].gen \in Nat \ {0}
         /\ \A m \in Mirrors, n \in JobNames :
              /\ jobs[m][n] \in Job /\ Gen(m, n) \in Nat
              /\ Running(m, n) => Exists(m, n)
         /\ work \in Work /\ work.gen \in Nat /\ work.op.gen \in Nat
         /\ \A l \in work.todo : l.name \in JobNames /\ l.job \in Job
         /\ ~At("idle") => Owner \in Mirrors /\ Followup \in JobNames
         /\ Chosen => ~At("idle") /\ work.op.name \in JobNames
         /\ Holding => Chosen
<1> USE DEF IInv, TypeOK
<1>1. \A m \in Mirrors : mirrors[m] \in Mirror /\ mirrors[m].gen \in Nat \ {0}
  BY DEF Mirror, Generations
<1>2. \A m \in Mirrors, n \in JobNames :
        /\ jobs[m][n] \in Job /\ Gen(m, n) \in Nat
        /\ Running(m, n) => Exists(m, n)
  BY Phases DEF Gen, Running, Exists
<1>3. work \in Work /\ work.gen \in Nat /\ work.op.gen \in Nat
  BY DEF Work, Op
<1>4. \A l \in work.todo : l.name \in JobNames /\ l.job \in Job
  BY <1>3 DEF Work
<1>5. /\ ~At("idle") => Owner \in Mirrors /\ Followup \in JobNames
      /\ Chosen => ~At("idle") /\ work.op.name \in JobNames
      /\ Holding => Chosen
  BY NamesType DEF WorkUnderway, Owner, Followup, Chosen, Holding, At
<1> QED
  BY <1>1, <1>2, <1>3, <1>4, <1>5

\* Whatever happens beside the worker: generations grow, Jobs end or, if their
\* owner is gone, vanish.
LEMMA Background ==
  ASSUME IInv, XInv, UNCHANGED <<lease, work>>, deleted \subseteq deleted',
         \A m \in Mirrors :
           /\ mirrors'[m].gen \in Nat /\ mirrors'[m].gen >= mirrors[m].gen
           /\ mirrors'[m].status.lastJob = mirrors[m].status.lastJob
           /\ mirrors'[m].status.completed = mirrors[m].status.completed,
         \A m \in Mirrors, n \in JobNames :
           /\ Exists(m, n)' => Exists(m, n) /\ Gen(m, n)' = Gen(m, n)
           /\ Running(m, n)' => Running(m, n) /\ Exists(m, n)'
           /\ m \notin deleted' /\ Exists(m, n) => Exists(m, n)'
  PROVE  XInv'
<1> USE Kinds DEF XInv
<1>1. /\ Owner' = Owner /\ Followup' = Followup /\ Chosen' = Chosen /\ Holding' = Holding
      /\ \A pc : At(pc)' = At(pc)
      /\ \A m, n : JustCreated(m, n)' = JustCreated(m, n)
  BY DEF Owner, Followup, Chosen, Holding, At, JustCreated
<1>2. GensExist'
  BY DEF GensExist
<1>3. GensOfWork'
  BY <1>1 DEF GensOfWork
<1>4. ListedFinished'
  BY <1>1 DEF ListedFinished
<1>5. NoneNewer'
  BY <1>1 DEF NoneNewer
<1>6. OnlyOwn'
  BY <1>1 DEF OnlyOwn
<1>7. FollowupHolds'
  BY <1>1 DEF FollowupHolds
<1>8. HolderAlone'
  BY <1>1 DEF HolderAlone
<1>9. RunningIsNamed'
  BY <1>1 DEF RunningIsNamed, Named, GensExist
<1>10. RunningHolds'
  BY DEF RunningHolds, NoSpecChanged, GensExist
<1>11. OneOfGeneration'
  BY DEF OneOfGeneration
<1> QED
  BY <1>2, <1>3, <1>4, <1>5, <1>6, <1>7, <1>8, <1>9, <1>10, <1>11

\* No Job exists at the start.
LEMMA InitExclusive == Init => XInv
<1> SUFFICES ASSUME Init PROVE XInv
  OBVIOUS
<1>1. IInv
  BY InitSigned
<1>2. At("idle") /\ ~Chosen /\ ~Holding
  BY DEF Init, Idle, At, Chosen, Holding
<1>3. \A m \in Mirrors, n \in JobNames : ~Exists(m, n) /\ ~Running(m, n)
  BY NewPhases DEF Init, Exists, Running
<1> QED
  BY <1>1, <1>2, <1>3
     DEF XInv, GensExist, GensOfWork, ListedFinished, NoneNewer, OnlyOwn, FollowupHolds,
         HolderAlone, RunningIsNamed, RunningHolds, OneOfGeneration

\* Users, GitHub, the receiver, timers, the garbage collector and the Jobs.
LEMMA OthersExclusive ==
  ASSUME IInv, XInv,
         \/ Push
         \/ \E r \in inbox : HandleGitHub(r)
         \/ \E h \in hook : RecordDelivery(h)
         \/ \E m \in Mirrors :
              \/ TimerFires(m) \/ ChangeSpec(m) \/ DeleteMirror(m) \/ CollectJobs(m)
              \/ \E n \in JobNames : JobEnds(m, n)
         \/ UNCHANGED vars
  PROVE  XInv'
<1> USE Kinds
<1> DEFINE Later ==
      \A m \in Mirrors :
        /\ mirrors'[m].gen \in Nat /\ mirrors'[m].gen >= mirrors[m].gen
        /\ mirrors'[m].status.lastJob = mirrors[m].status.lastJob
        /\ mirrors'[m].status.completed = mirrors[m].status.completed
    JobsEnd ==
      \A m \in Mirrors, n \in JobNames :
        /\ Exists(m, n)' => Exists(m, n) /\ Gen(m, n)' = Gen(m, n)
        /\ Running(m, n)' => Running(m, n) /\ Exists(m, n)'
        /\ m \notin deleted' /\ Exists(m, n) => Exists(m, n)'
<1>1. UNCHANGED mirrors => Later
  OBVIOUS
<1>2. UNCHANGED jobs => JobsEnd
  BY DEF Exists, Running, Gen
<1>3. CASE Push \/ (\E r \in inbox : HandleGitHub(r)) \/ UNCHANGED vars
           \/ (\E m \in Mirrors : TimerFires(m) \/ DeleteMirror(m))
  <2>1. UNCHANGED <<mirrors, jobs, lease, work>> /\ deleted \subseteq deleted'
    BY <1>3 DEF Push, HandleGitHub, vars, TimerFires, DeleteMirror, cluster
  <2> QED
    BY <2>1, <1>1, <1>2, Background
<1>4. ASSUME NEW h \in hook, RecordDelivery(h) PROVE XInv'
  <2>1. UNCHANGED <<deleted, jobs, lease, work>>
    BY <1>4 DEF RecordDelivery
  <2>2. h.mirror \in Mirrors /\ h.id \in Deliveries /\ h.rev \in Revisions
    BY DEF IInv, TypeOK
  <2> DEFINE new == ApplyWebhookIntent(mirrors[h.mirror], h.id, h.rev)
  <2>3. /\ new \in Mirror /\ new.gen = mirrors[h.mirror].gen
        /\ new.status.lastJob = mirrors[h.mirror].status.lastJob
        /\ new.status.completed = mirrors[h.mirror].status.completed
    BY <2>2, IntentType, IntentNames
  <2>4. UNCHANGED mirrors \/ PatchMirror(h.mirror, new)
    BY <1>4 DEF RecordDelivery
  <2> HIDE DEF new
  <2>5. \A o \in Mirrors : mirrors'[o] = mirrors[o] \/ (o = h.mirror /\ mirrors'[o] = new)
    BY <2>2, <2>3, <2>4, PatchType DEF IInv
  <2>6. Later
    BY <2>2, <2>3, <2>5
  <2> QED
    BY <2>1, <2>6, <1>2, Background
<1>5. ASSUME NEW m \in Mirrors, ChangeSpec(m) PROVE XInv'
  <2>1. UNCHANGED <<deleted, jobs, lease, work>>
    BY <1>5 DEF ChangeSpec
  <2>2. mirrors' = [mirrors EXCEPT ![m] = [mirrors[m] EXCEPT !.gen = @ + 1]]
    BY <1>5 DEF ChangeSpec
  <2>3. LET new == [mirrors[m] EXCEPT !.gen = @ + 1] IN
        new.gen = mirrors[m].gen + 1 /\ new.status = mirrors[m].status
    BY DEF Mirror
  <2>4. \A o \in Mirrors :
          mirrors'[o] = IF o = m THEN [mirrors[m] EXCEPT !.gen = @ + 1] ELSE mirrors[o]
    BY <2>2 DEF IInv, TypeOK
  <2>5. \A o \in Mirrors : /\ mirrors'[o].gen \in {mirrors[o].gen, mirrors[o].gen + 1}
                           /\ mirrors'[o].status = mirrors[o].status
    BY <2>3, <2>4
  <2>6. \A o \in Mirrors : mirrors[o].gen \in Nat
    OBVIOUS
  <2>7. Later
    BY ONLY <2>5, <2>6
  <2> QED
    BY <2>1, <2>7, <1>2, Background
<1>6. ASSUME NEW m \in Mirrors, CollectJobs(m) PROVE XInv'
  <2>1. UNCHANGED <<mirrors, deleted, lease, work>> /\ m \in deleted
    BY <1>6 DEF CollectJobs
  <2>2. \A o \in Mirrors, n \in JobNames :
          jobs'[o][n] = IF o = m THEN AbsentJob ELSE jobs[o][n]
    BY <1>6 DEF CollectJobs, IInv, TypeOK
  <2>3. JobsEnd
    BY <2>1, <2>2, NewPhases DEF Exists, Running, Gen
  <2> QED
    BY <2>1, <2>3, <1>1, Background
<1>7. ASSUME NEW m \in Mirrors, NEW n \in JobNames, JobEnds(m, n) PROVE XInv'
  <2>1. UNCHANGED <<mirrors, deleted, lease, work>> /\ Running(m, n)
    BY <1>7 DEF JobEnds, Running
  <2>2. \A o \in Mirrors, p \in JobNames :
          jobs'[o][p] = IF o = m /\ p = n THEN [jobs[m][n] EXCEPT !.phase = "complete"]
                        ELSE jobs[o][p]
    BY <1>7 DEF JobEnds, IInv, TypeOK
  <2>3. LET j == [jobs[m][n] EXCEPT !.phase = "complete"] IN
        JobExists(j) /\ ~JobRunning(j) /\ j.gen = jobs[m][n].gen
    BY DEF Job, JobExists, JobRunning, RunningPhases
  <2>4. JobsEnd
    BY <2>1, <2>2, <2>3 DEF Exists, Running, Gen
  <2> QED
    BY <2>1, <2>4, <1>1, Background
<1> QED
  BY <1>3, <1>4, <1>5, <1>6, <1>7

\* Between its stages the worker keeps what it has read, and goes on only if it
\* has something to record or found no active Job.
LEMMA StageKeeps ==
  ASSUME NEW w \in Work
  PROVE  \/ Stage(w) = Idle
         \/ /\ Stage(w).pc \in {"completed", "generation", "pending"}
            /\ Stage(w).mirror = w.mirror /\ Stage(w).gen = w.gen
            /\ Stage(w).active = w.active /\ Stage(w).stamp = w.stamp
            /\ Stage(w).todo = w.todo
            /\ w.todo # {} \/ ~w.active
<1>1. \A pc \in {"completed", "generation", "pending"} :
        LET v == [w EXCEPT !.op = NoOp, !.pc = pc] IN
        /\ v.pc = pc /\ v.mirror = w.mirror /\ v.gen = w.gen /\ v.active = w.active
        /\ v.stamp = w.stamp /\ v.todo = w.todo
  BY DEF Work
<1> QED
  BY <1>1 DEF Stage

\* A Reconcile that ends before it has created a Job.
LEMMA EndsExclusive ==
  ASSUME IInv, XInv, UNCHANGED <<mirrors, deleted, jobs, lease>>, ~At("record"),
         work' = Idle
  PROVE  XInv'
<1>1. At("idle")' /\ ~Chosen' /\ ~Holding' /\ \A m, n : ~JustCreated(m, n)
  BY DEF Idle, At, Chosen, Holding, JustCreated
<1> QED
  BY <1>1
     DEF XInv, GensExist, GensOfWork, ListedFinished, NoneNewer, OnlyOwn, FollowupHolds,
         HolderAlone, RunningIsNamed, RunningHolds, OneOfGeneration, Named,
         Exists, Running, Gen, NoSpecChanged

\* A Reconcile that goes on before it has the Lease.  Releasing the Lease of a Job
\* that it listed takes it from no Job that runs.
LEMMA GoesOnExclusive ==
  ASSUME IInv, XInv, UNCHANGED <<deleted, jobs>>,
         \A m \in Mirrors : mirrors'[m].gen = mirrors[m].gen,
         ~At("idle"), ~Chosen,
         lease' = lease \/ (Owner \notin deleted /\ \E l \in work.todo : lease = <<Owner, l.name>>),
         work'.pc \in {"completed", "generation", "pending", "acquire"},
         work'.mirror = work.mirror, work'.gen = work.gen, work'.active = work.active,
         work'.stamp = work.stamp, work'.todo \subseteq work.todo,
         At("acquire")' =>
           /\ work'.op.gen \in work.gen..mirrors[Owner].gen
           /\ work'.op.kind = "followup" => work'.op.gen = work.gen /\ work'.op.name = Followup,
         RunningIsNamed'
  PROVE  XInv'
<1> USE Kinds DEF XInv
<1>1. /\ ~At("idle")' /\ ~Holding' /\ (Chosen' => At("acquire")')
      /\ Owner' = Owner /\ Followup' = Followup /\ ~Holding
      /\ \A m, n : ~JustCreated(m, n)
      /\ \A m, n : Exists(m, n)' = Exists(m, n) /\ Running(m, n)' = Running(m, n)
                   /\ Gen(m, n)' = Gen(m, n)
  BY DEF At, Chosen, Holding, Owner, Followup, JustCreated, Exists, Running, Gen
<1>2. GensExist' /\ OneOfGeneration'
  BY <1>1 DEF GensExist, OneOfGeneration
<1>3. GensOfWork'
  BY <1>1 DEF GensOfWork
<1>4. ListedFinished'
  BY <1>1 DEF ListedFinished
<1>5. NoneNewer' /\ OnlyOwn'
  BY <1>1 DEF NoneNewer, OnlyOwn
<1>6. ASSUME NEW n \in JobNames, Running(Owner, n) \/ n = Followup, lease = <<Owner, n>>
      PROVE  lease' = lease
  BY <1>6 DEF ListedFinished
<1>7. FollowupHolds'
  BY <1>1, <1>6 DEF FollowupHolds
<1>8. HolderAlone'
  BY <1>1 DEF HolderAlone
<1>9. RunningHolds'
  <2> SUFFICES ASSUME NoSpecChanged', NEW m \in Mirrors, NEW n \in JobNames, Running(m, n)
               PROVE  lease' = <<m, n>>
    BY <1>1 DEF RunningHolds
  <2>1. lease = <<m, n>>
    BY DEF RunningHolds, NoSpecChanged
  <2>2. lease' = lease \/ m = Owner
    BY <2>1
  <2> QED
    BY <1>6, <2>1, <2>2
<1> QED
  BY <1>2, <1>3, <1>4, <1>5, <1>7, <1>8, <1>9

\* The start of a Reconcile: with a running Job there is nothing to record, so the
\* Reconcile goes on only if no Job of the generation runs.
LEMMA BeginExclusive == IInv /\ XInv /\ Begin => XInv'
<1> SUFFICES ASSUME IInv, XInv, Begin PROVE XInv'
  OBVIOUS
<1> USE Kinds DEF XInv
<1> DEFINE h == Head(queue)
           m == mirrors[h]
           listed == JobsForGeneration(jobs[h], m.gen)
           found == {[name |-> n, job |-> listed[n]] :
                       n \in {n \in JobNames : RecordsCompletion(m, listed, n)}}
<1>0. queue # <<>> /\ queue \in Seq(Mirrors)
  BY DEF Begin, IInv, TypeOK
<1>1. /\ At("idle") /\ h \in Mirrors
      /\ UNCHANGED <<mirrors, deleted, jobs, lease>>
  <2>1. h \in Mirrors
    BY ONLY <1>0
  <2>2. At("idle") /\ UNCHANGED <<mirrors, deleted, jobs, lease>>
    BY DEF Begin, cluster
  <2> QED
    BY <2>1, <2>2
<1>2. CASE work' = work
  BY <1>1, <1>2, Background DEF Exists, Running, Gen
<1>3. CASE work' # work
  <2>1. h \notin deleted
    BY <1>3 DEF Begin
  <2>2. PICK k \in Stamps :
          /\ ~JobExists(jobs[h][ResyncJob(k)])
          /\ work' = Stage([Idle EXCEPT
               !.mirror = h, !.gen = m.gen,
               !.unobserved = m.status.observed # m.gen,
               !.pending = m.status.pending,
               !.active = ActiveJobExists(listed),
               !.stamp = k,
               !.todo = found])
    BY <1>3 DEF Begin
  <2> DEFINE w == [Idle EXCEPT
               !.mirror = h, !.gen = m.gen,
               !.unobserved = m.status.observed # m.gen,
               !.pending = m.status.pending,
               !.active = ActiveJobExists(listed),
               !.stamp = k,
               !.todo = found]
  <2>3. m \in Mirror /\ m.gen \in Nat \ {0} /\ k \in 0..MaxStamp /\ ResyncJob(k) \in JobNames
    BY <1>1, NamesType, MaxStampAssumption DEF Stamps
  <2>4. \A n \in JobNames : /\ listed[n] \in Job
                            /\ JobExists(listed[n]) =>
                                 listed[n] = jobs[h][n] /\ Exists(h, n) /\ Gen(h, n) = m.gen
                            /\ Exists(h, n) /\ Gen(h, n) = m.gen => listed[n] = jobs[h][n]
    <3> SUFFICES ASSUME NEW n \in JobNames
                 PROVE  /\ listed[n] \in Job
                        /\ JobExists(listed[n]) =>
                             listed[n] = jobs[h][n] /\ Exists(h, n) /\ Gen(h, n) = m.gen
                        /\ Exists(h, n) /\ Gen(h, n) = m.gen => listed[n] = jobs[h][n]
      OBVIOUS
    <3>1. listed[n] = IF JobGenerationMatches(jobs[h][n], m.gen) THEN jobs[h][n] ELSE AbsentJob
      BY DEF JobsForGeneration
    <3>2. Exists(h, n) => Gen(h, n) # 0
      BY <1>1 DEF GensExist
    <3> QED
      BY <1>1, <3>1, <3>2, NewTypes, NewPhases DEF JobGenerationMatches, Exists, Gen
  <2> HIDE DEF listed, m, h
  <2>5. /\ w \in Work /\ w.mirror = h /\ w.gen = m.gen /\ w.stamp = k /\ w.todo = found
        /\ w.active = ActiveJobExists(listed)
    <3>1. found \subseteq [name : JobNames, job : Job]
      BY <2>4
    <3>2. m.gen \in 0..MaxGen /\ m.status.pending \in BOOLEAN
      BY <2>3 DEF Mirror, Status, Generations
    <3>3. ActiveJobExists(listed) \in BOOLEAN
      BY DEF ActiveJobExists
    <3> HIDE DEF found
    <3>4. w \in Work
      <4>1. NoOp \in Op /\ k \in 0..MaxStamp /\ h \in Mirrors
        BY <1>1, <2>3, NewTypes
      <4> QED
        BY ONLY <3>1, <3>2, <3>3, <4>1 DEF Work, Idle, w
    <3>5. w.mirror = h /\ w.gen = m.gen /\ w.stamp = k /\ w.todo = found
      BY DEF Idle
    <3>6. w.active = ActiveJobExists(listed)
      BY DEF Idle
    <3> QED
      BY <3>4, <3>5, <3>6
  <2>6. ASSUME NEW n \in JobNames, Running(h, n), Gen(h, n) = m.gen
        PROVE  found = {}
    <3>1. Named(h, n)
      BY <1>1, <2>1, <2>6 DEF RunningIsNamed, JustCreated, At, m
    <3>2. NoJob \notin JobNames
      BY DEF NoJob, JobNames, LegacyJob, GenerationJob, DeliveryJob, ResyncJob, ScheduledJob
    <3>3. Exists(h, n) /\ listed[n] = jobs[h][n] /\ ~JobFinished(listed[n])
      BY <1>1, <2>4, <2>6, Phases DEF Running
    <3> SUFFICES ASSUME NEW p \in JobNames, RecordsCompletion(m, listed, p) PROVE FALSE
      OBVIOUS
    <3>4. /\ JobFinished(listed[p]) /\ m.status.completed # p
          /\ m.status.lastJob \in {NoJob, p} \/ ~JobExists(listed[m.status.lastJob])
      BY DEF RecordsCompletion
    <3>5. CASE m.status.lastJob = n
      BY <2>6, <3>2, <3>3, <3>4, <3>5 DEF Exists
    <3>6. CASE m.status.lastJob # n
      <4> DEFINE q == m.status.lastJob
      <4>1. q = m.status.completed /\ q \in JobNames /\ Exists(h, q) /\ Gen(h, q) = m.gen
        BY <3>1, <3>6 DEF Named, m
      <4>2. JobExists(listed[q])
        BY <2>4, <4>1 DEF Exists
      <4> QED
        BY <3>2, <3>4, <4>1, <4>2
    <3> QED
      BY <3>5, <3>6
  <2>7. \/ work' = Idle
        \/ /\ work'.pc \in {"completed", "generation", "pending"}
           /\ work'.mirror = h /\ work'.gen = m.gen /\ work'.active = ActiveJobExists(listed)
           /\ work'.stamp = k /\ work'.todo = found
           /\ found # {} \/ ~ActiveJobExists(listed)
    <3> HIDE DEF w, found
    <3>1. work' = Stage(w)
      BY <2>2 DEF w, found, m, h, listed
    <3> QED
      BY <2>5, <3>1, StageKeeps
  <2>8. CASE work' = Idle
    BY <1>1, <2>8, EndsExclusive DEF At
  <2>9. CASE work' # Idle
    <3>1. \A n \in JobNames : ~(Running(h, n) /\ Gen(h, n) = m.gen)
      <4> SUFFICES ASSUME NEW n \in JobNames, Running(h, n), Gen(h, n) = m.gen PROVE FALSE
        OBVIOUS
      <4>1. found = {}
        BY <2>6
      <4>2. JobActive(listed[n])
        BY <1>1, <2>4, Phases DEF Running, Exists
      <4>3. ActiveJobExists(listed)
        BY <4>2 DEF ActiveJobExists
      <4> QED
        BY <2>7, <2>9, <4>1, <4>3
    <3>2. ~ActiveJobExists(listed)
      <4> SUFFICES ASSUME NEW n \in JobNames, JobActive(listed[n]) PROVE FALSE
        BY DEF ActiveJobExists
      <4>1. JobExists(listed[n]) /\ JobRunning(listed[n])
        BY <2>4, Phases
      <4> QED
        BY <2>4, <3>1, <4>1 DEF Running
    <3>3. /\ ~At("idle")' /\ ~Chosen' /\ ~Holding' /\ \A o, n : ~JustCreated(o, n)'
          /\ \A o, n : ~JustCreated(o, n)
          /\ Owner' = h /\ Followup' = ResyncJob(k)
          /\ \A o, n : Exists(o, n)' = Exists(o, n) /\ Running(o, n)' = Running(o, n)
                       /\ Gen(o, n)' = Gen(o, n)
      BY <1>1, <2>7, <2>9
         DEF At, Chosen, Holding, JustCreated, Owner, Followup, Exists, Running, Gen
    <3>4. GensExist' /\ OneOfGeneration' /\ RunningHolds'
      BY <1>1, <3>3 DEF GensExist, OneOfGeneration, RunningHolds, NoSpecChanged
    <3>5. GensOfWork'
      BY <1>1, <2>3, <2>7, <2>9, <3>2, <3>3 DEF GensOfWork, m
    <3>6. ListedFinished'
      <4> SUFFICES ASSUME NEW l \in found
                   PROVE  /\ l.job.gen = m.gen /\ l.name # ResyncJob(k)
                          /\ Exists(h, l.name) /\ ~Running(h, l.name) /\ Gen(h, l.name) = m.gen
        BY <1>1, <2>7, <2>9, <3>3 DEF ListedFinished
      <4>1. /\ l.name \in JobNames /\ l.job = listed[l.name] /\ JobFinished(l.job)
        BY DEF RecordsCompletion
      <4>2. /\ JobExists(listed[l.name]) /\ ~JobRunning(listed[l.name])
        BY <2>4, <4>1, Phases
      <4>3. listed[l.name] = jobs[h][l.name] /\ Exists(h, l.name) /\ Gen(h, l.name) = m.gen
        BY <2>4, <4>1, <4>2
      <4> QED
        BY <2>2, <4>1, <4>2, <4>3 DEF Exists, Running, Gen, h
    <3>7. NoneNewer'
      BY <1>1, <2>3, <2>7, <2>9, <3>3 DEF NoneNewer, GensExist, m
    <3>8. OnlyOwn'
      BY <2>7, <2>9, <3>1, <3>3 DEF OnlyOwn
    <3>9. FollowupHolds' /\ HolderAlone'
      BY <2>3, <2>7, <2>9, <3>1, <3>3 DEF FollowupHolds, HolderAlone
    <3>10. RunningIsNamed'
      BY <1>1, <3>3 DEF RunningIsNamed, Named
    <3> QED
      BY <3>4, <3>5, <3>6, <3>7, <3>8, <3>9, <3>10
  <2> QED
    BY <2>8, <2>9
<1> QED
  BY <1>2, <1>3

\* reconcileCompletedJobs: what it records is named twice, and what it releases
\* does not run.
LEMMA CompletedExclusive == IInv /\ XInv /\ RecordCompleted => XInv'
<1> SUFFICES ASSUME IInv, XInv, RecordCompleted PROVE XInv'
  OBVIOUS
<1> USE Kinds DEF XInv
<1> DEFINE m == work.mirror
<1>1. /\ At("completed") /\ m \in Mirrors /\ m = Owner /\ ~At("idle") /\ ~Chosen
      /\ UNCHANGED <<deleted, jobs>> /\ \A o, n : ~JustCreated(o, n)
  BY DEF RecordCompleted, At, Chosen, Owner, JustCreated
<1>2. CASE m \in deleted
  BY <1>1, <1>2, EndsExclusive DEF RecordCompleted, Fail, At
<1>3. CASE m \notin deleted
  <2>1. PICK l \in work.todo :
          LET rest == [work EXCEPT !.todo = @ \ {l}] IN
          /\ PatchMirror(m, ApplyCompletion(mirrors[m], l.name, l.job, Now))
          /\ lease' = IF lease = <<m, l.name>> THEN NoHolder ELSE lease
          /\ work' = IF NeedsFollowup(mirrors[m], l.name, l.job)
                     THEN [rest EXCEPT !.pc = "acquire",
                             !.op = [kind |-> "followup", name |-> ResyncJob(work.stamp),
                                     gen |-> work.gen,
                                     rev |-> mirrors[m].status.requested]]
                     ELSE Stage(rest)
    BY <1>3 DEF RecordCompleted
  <2> DEFINE new == ApplyCompletion(mirrors[m], l.name, l.job, Now)
             rest == [work EXCEPT !.todo = @ \ {l}]
             op == [kind |-> "followup", name |-> ResyncJob(work.stamp),
                    gen |-> work.gen, rev |-> mirrors[m].status.requested]
  <2>2. l.name \in JobNames /\ l.job \in Job /\ mirrors[m] \in Mirror
    BY <1>1
  <2>3. /\ new \in Mirror /\ new.gen = mirrors[m].gen
        /\ \/ CompletionApplies(mirrors[m], l.name, l.job)
               /\ new.status.lastJob = l.name /\ new.status.completed = l.name
           \/ new = mirrors[m]
    BY <2>2, CompletionType, CompletionNames
  <2>4. /\ rest \in Work /\ rest.mirror = work.mirror /\ rest.gen = work.gen
        /\ rest.active = work.active /\ rest.stamp = work.stamp /\ rest.todo \subseteq work.todo
    BY DEF Work
  <2>5. /\ PatchMirror(m, new)
        /\ lease' = lease \/ lease = <<Owner, l.name>>
        /\ work' = [rest EXCEPT !.pc = "acquire", !.op = op] \/ work' = Stage(rest)
    BY <1>1, <2>1
  <2> HIDE DEF new, rest
  <2>6. \A o \in Mirrors : mirrors'[o] = IF o = m THEN new ELSE mirrors[o]
    BY <1>1, <2>3, <2>5, PatchType DEF IInv
  <2>7. \A o \in Mirrors : mirrors'[o].gen = mirrors[o].gen
    BY <2>3, <2>6
  <2>8. /\ l.job.gen = work.gen /\ Exists(m, l.name) /\ Gen(m, l.name) = work.gen
        /\ work.gen # 0 /\ ~Running(m, l.name)
    BY <1>1, <1>3 DEF ListedFinished, GensOfWork
  <2>9. \A o, n : /\ Running(o, n)' = Running(o, n) /\ Exists(o, n)' = Exists(o, n)
                  /\ Gen(o, n)' = Gen(o, n)
    BY <1>1 DEF Running, Exists, Gen
  <2>10. RunningIsNamed'
    <3> SUFFICES ASSUME NEW o \in Mirrors \ deleted, NEW n \in JobNames,
                        Running(o, n), Gen(o, n) = mirrors[o].gen
                 PROVE  Named(o, n)'
      BY <1>1, <2>7, <2>9 DEF RunningIsNamed
    <3>1. Named(o, n)
      BY <1>1 DEF RunningIsNamed
    <3>2. CASE mirrors'[o] = mirrors[o]
      BY <2>9, <3>1, <3>2 DEF Named
    <3>3. CASE mirrors'[o] # mirrors[o]
      <4>1. /\ o = m /\ CompletionApplies(mirrors[m], l.name, l.job)
            /\ mirrors'[m].status.lastJob = l.name /\ mirrors'[m].status.completed = l.name
        BY <2>3, <2>6, <3>3
      <4>2. work.gen = mirrors[m].gen
        BY <2>8, <4>1 DEF CompletionApplies, JobGenerationMatches
      <4> QED
        BY <2>2, <2>7, <2>8, <2>9, <4>1, <4>2 DEF Named
    <3> QED
      BY <3>2, <3>3
  <2>11. CASE work' = [rest EXCEPT !.pc = "acquire", !.op = op]
    <3>1. /\ work'.pc = "acquire" /\ work'.op = op /\ work'.mirror = work.mirror
          /\ work'.gen = work.gen /\ work'.active = work.active
          /\ work'.stamp = work.stamp /\ work'.todo \subseteq work.todo
      BY <2>4, <2>11 DEF Work
    <3>2. work.gen \in work.gen..mirrors[Owner].gen
      BY <1>1 DEF GensOfWork
    <3>3. op.gen = work.gen /\ op.name = Followup
      BY DEF Followup
    <3> HIDE DEF op
    <3> QED
      BY <1>1, <1>3, <2>5, <2>7, <2>10, <3>1, <3>2, <3>3, GoesOnExclusive
  <2>12. CASE work' = Stage(rest) /\ work' # Idle
    <3>1. /\ work'.pc \in {"completed", "generation", "pending"}
          /\ work'.mirror = work.mirror /\ work'.gen = work.gen /\ work'.active = work.active
          /\ work'.stamp = work.stamp /\ work'.todo \subseteq work.todo
      BY <2>4, <2>12, StageKeeps
    <3>2. ~At("acquire")'
      BY <3>1 DEF At
    <3> QED
      BY <1>1, <1>3, <2>5, <2>7, <2>10, <3>1, <3>2, GoesOnExclusive
  <2>13. CASE work' = Idle
    <3>1. At("idle")' /\ ~Chosen' /\ ~Holding'
      BY <2>13 DEF Idle, At, Chosen, Holding
    <3>2. GensExist' /\ OneOfGeneration'
      BY <1>1, <2>7, <2>9 DEF GensExist, OneOfGeneration
    <3>3. RunningHolds'
      <4> SUFFICES ASSUME NoSpecChanged', NEW o \in Mirrors, NEW n \in JobNames, Running(o, n)
                   PROVE  lease' = <<o, n>>
        BY <2>9 DEF RunningHolds
      <4>1. lease = <<o, n>>
        BY <2>7 DEF RunningHolds, NoSpecChanged
      <4> QED
        BY <1>1, <2>5, <2>8, <4>1
    <3> QED
      BY <2>10, <3>1, <3>2, <3>3
         DEF GensOfWork, ListedFinished, NoneNewer, OnlyOwn, FollowupHolds, HolderAlone
  <2> QED
    BY <2>5, <2>11, <2>12, <2>13
<1> QED
  BY <1>2, <1>3

\* reconcileUnobservedGeneration, reconcilePendingResync: the Job is of the present
\* generation.
LEMMA ChooseExclusive == IInv /\ XInv /\ Choose => XInv'
<1> SUFFICES ASSUME IInv, XInv, Choose PROVE XInv'
  OBVIOUS
<1> USE Kinds DEF XInv
<1> DEFINE m == mirrors[work.mirror]
           name == IF At("generation") THEN GenerationJob(m.gen)
                   ELSE PendingJobName(m, work.stamp)
           op == [kind |-> work.pc, name |-> name, gen |-> m.gen,
                  rev |-> m.status.requested]
<1>1. /\ At("generation") \/ At("pending")
      /\ UNCHANGED <<mirrors, deleted, jobs, lease>>
  BY DEF Choose, cluster
<1>2. /\ ~At("idle") /\ ~Chosen /\ ~At("record") /\ work.mirror = Owner /\ Owner \in Mirrors
      /\ \A o, n : ~JustCreated(o, n)
      /\ op.kind # "followup" /\ op.gen = mirrors[Owner].gen
  BY <1>1 DEF At, Chosen, Owner, JustCreated
<1>3. \/ work' = Stage([work EXCEPT !.unobserved = FALSE])
      \/ work' = Idle
      \/ work' = [work EXCEPT !.pc = "acquire", !.op = op]
  BY DEF Choose, Fail
<1> HIDE DEF m, name, op
<1>4. RunningIsNamed'
  BY <1>1, <1>2 DEF RunningIsNamed, Named, Exists, Running, Gen
<1>5. CASE work' = Idle
  BY <1>1, <1>2, <1>5, EndsExclusive
<1>6. CASE work' = [work EXCEPT !.pc = "acquire", !.op = op]
  <2>1. /\ work'.pc = "acquire" /\ work'.op = op /\ work'.mirror = work.mirror
        /\ work'.gen = work.gen /\ work'.active = work.active
        /\ work'.stamp = work.stamp /\ work'.todo = work.todo
    BY <1>6 DEF Work
  <2>2. op.gen \in work.gen..mirrors[Owner].gen
    BY <1>2 DEF GensOfWork
  <2> QED
    BY <1>1, <1>2, <1>4, <2>1, <2>2, GoesOnExclusive
<1>7. CASE work' = Stage([work EXCEPT !.unobserved = FALSE]) /\ work' # Idle
  <2> DEFINE w == [work EXCEPT !.unobserved = FALSE]
  <2>1. /\ w \in Work /\ w.mirror = work.mirror /\ w.gen = work.gen /\ w.active = work.active
        /\ w.stamp = work.stamp /\ w.todo = work.todo
    BY DEF Work
  <2>2. work' = Stage(w) /\ work' # Idle
    BY <1>7
  <2> HIDE DEF w
  <2>3. /\ work'.pc \in {"completed", "generation", "pending"}
        /\ work'.mirror = work.mirror /\ work'.gen = work.gen /\ work'.active = work.active
        /\ work'.stamp = work.stamp /\ work'.todo = work.todo
    BY <2>1, <2>2, StageKeeps
  <2>4. ~At("acquire")'
    BY <2>3 DEF At
  <2> QED
    BY <1>1, <1>2, <1>4, <2>3, <2>4, GoesOnExclusive
<1> QED
  BY <1>3, <1>5, <1>6, <1>7

\* acquireSyncLease: whoever takes the Lease over finds no Job of the generation
\* running but the one it is about to create.
LEMMA AcquireExclusive == IInv /\ XInv /\ AcquireLease => XInv'
<1> SUFFICES ASSUME IInv, XInv, AcquireLease PROVE XInv'
  OBVIOUS
<1> USE Kinds DEF XInv
<1>1. /\ At("acquire") /\ Chosen /\ ~Holding /\ ~At("idle") /\ ~At("record")
      /\ Owner \in Mirrors /\ Owner = work.mirror /\ \A o, n : ~JustCreated(o, n)
      /\ UNCHANGED <<mirrors, deleted, jobs>>
  BY DEF AcquireLease, At, Chosen, Holding, Owner, JustCreated
<1>2. CASE HolderActive
  BY <1>1, <1>2, EndsExclusive DEF AcquireLease
<1>3. CASE ~HolderActive
  <2>1. lease' = <<Owner, work.op.name>> /\ work' = [work EXCEPT !.pc = "create"]
    BY <1>1, <1>3 DEF AcquireLease
  <2>2. /\ work'.pc = "create" /\ work'.mirror = work.mirror /\ work'.gen = work.gen
        /\ work'.active = work.active /\ work'.stamp = work.stamp
        /\ work'.todo = work.todo /\ work'.op = work.op
    BY <2>1 DEF Work
  <2>3. /\ ~At("idle")' /\ Chosen' /\ Holding' /\ Owner' = Owner /\ Followup' = Followup
        /\ \A o, n : ~JustCreated(o, n)'
        /\ \A o, n : /\ Running(o, n)' = Running(o, n) /\ Exists(o, n)' = Exists(o, n)
                    /\ Gen(o, n)' = Gen(o, n)
    BY <1>1, <2>2
       DEF At, Chosen, Holding, Owner, Followup, JustCreated, Running, Exists, Gen
  <2>4. /\ work.op.name \in JobNames /\ work.gen # 0
        /\ work.op.gen \in work.gen..mirrors[Owner].gen
    BY <1>1 DEF GensOfWork
  <2>5. ASSUME NEW o \in Mirrors, NEW n \in JobNames, lease = <<o, n>>, Running(o, n),
               Gen(o, n) = work.op.gen
        PROVE  o = Owner /\ n = work.op.name
    <3>1. lease # NoHolder
      BY <2>5, NoMirrorAssumption DEF NoHolder
    <3>2. JobNameActiveForGeneration(jobs[lease[1]], lease[2], work.op.gen)
      BY <2>5, Phases DEF JobNameActiveForGeneration, JobGenerationMatches, Running, Gen
    <3>3. lease = <<work.mirror, work.op.name>>
      BY <1>3, <3>1, <3>2 DEF HolderActive
    <3> QED
      BY <1>1, <2>5, <3>3
  <2>6. ASSUME NEW n \in JobNames, Running(Owner, n), Gen(Owner, n) = work.op.gen
        PROVE  n = work.op.name
    <3>1. Exists(Owner, n)
      BY <1>1, <2>6
    <3>2. work.op.gen = work.gen
      BY <1>1, <2>4, <2>6, <3>1 DEF NoneNewer
    <3>3. n = Followup
      BY <1>1, <2>6, <3>2 DEF OnlyOwn
    <3>4. lease = <<Owner, Followup>>
      BY <1>1, <2>6, <3>2, <3>3 DEF FollowupHolds
    <3> QED
      BY <1>1, <2>5, <2>6, <3>3, <3>4
  <2>7. GensExist' /\ OneOfGeneration' /\ GensOfWork' /\ ListedFinished' /\ NoneNewer' /\ OnlyOwn'
    BY <1>1, <2>2, <2>3
       DEF GensExist, OneOfGeneration, GensOfWork, ListedFinished, NoneNewer, OnlyOwn
  <2>8. HolderAlone'
    BY <1>1, <2>1, <2>2, <2>3, <2>6 DEF HolderAlone
  <2>9. FollowupHolds'
    BY <1>1, <2>1, <2>2, <2>3, <2>6 DEF FollowupHolds
  <2>10. RunningIsNamed'
    BY <1>1, <2>3 DEF RunningIsNamed, Named
  <2>11. RunningHolds'
    <3> SUFFICES ASSUME NoSpecChanged, NEW o \in Mirrors, NEW n \in JobNames, Running(o, n)
                 PROVE  lease' = <<o, n>>
      BY <1>1, <2>3 DEF RunningHolds, NoSpecChanged
    <3>1. lease = <<o, n>>
      BY DEF RunningHolds
    <3>2. Gen(o, n) = 1 /\ work.op.gen = 1
      BY <1>1, <2>4 DEF GensExist, NoSpecChanged
    <3> QED
      BY <2>1, <2>5, <3>1, <3>2
  <2> QED
    BY <2>7, <2>8, <2>9, <2>10, <2>11
<1> QED
  BY <1>2, <1>3

\* The create of a Job, or of nothing if its name is taken.
LEMMA CreateExclusive == IInv /\ XInv /\ CreateJob => XInv'
<1> SUFFICES ASSUME IInv, XInv, CreateJob PROVE XInv'
  OBVIOUS
<1> USE Kinds DEF XInv
<1> DEFINE name == work.op.name
           gen == work.op.gen
<1>1. /\ At("create") /\ Chosen /\ Holding /\ ~At("idle") /\ Owner \in Mirrors /\ Owner = work.mirror
      /\ \A o, n : ~JustCreated(o, n) /\ UNCHANGED <<mirrors, deleted, lease>>
      /\ work' = [work EXCEPT !.pc = "record"] /\ name \in JobNames
  BY DEF CreateJob, At, Chosen, Holding, Owner, JustCreated
<1>2. /\ work'.pc = "record" /\ work'.mirror = work.mirror /\ work'.gen = work.gen
      /\ work'.active = work.active /\ work'.stamp = work.stamp
      /\ work'.todo = work.todo /\ work'.op = work.op
  BY <1>1 DEF Work
<1>3. /\ ~At("idle")' /\ Chosen' /\ Holding' /\ Owner' = Owner /\ Followup' = Followup
      /\ \A o, n : JustCreated(o, n)' <=> o = Owner /\ n = name
  BY <1>1, <1>2 DEF At, Chosen, Holding, Owner, Followup, JustCreated
<1>4. /\ lease = <<Owner, name>> /\ gen \in work.gen..mirrors[Owner].gen /\ work.gen # 0
      /\ \A n \in JobNames : Running(Owner, n) /\ Gen(Owner, n) = gen => n = name
  BY <1>1 DEF HolderAlone, GensOfWork
<1>5. \A o \in Mirrors, n \in JobNames :
        \/ /\ Running(o, n)' = Running(o, n) /\ Exists(o, n)' = Exists(o, n)
           /\ Gen(o, n)' = Gen(o, n)
        \/ /\ o = Owner /\ n = name /\ ~Exists(o, n) /\ ~Running(o, n)
           /\ Exists(o, n)' /\ Running(o, n)' /\ Gen(o, n)' = gen
  <2>1. CASE JobExists(jobs[Owner][name])
    BY <1>1, <2>1 DEF CreateJob, Running, Exists, Gen
  <2>2. CASE ~JobExists(jobs[Owner][name])
    <3>1. jobs' = [jobs EXCEPT ![Owner][name] = NewJob(work.op.gen, work.op.rev)]
      BY <1>1, <2>2 DEF CreateJob
    <3>2. \A o \in Mirrors, n \in JobNames :
            jobs'[o][n] = IF o = Owner /\ n = name THEN NewJob(work.op.gen, work.op.rev)
                          ELSE jobs[o][n]
      BY <1>1, <3>1 DEF IInv, TypeOK
    <3>3. ~Running(Owner, name)
      BY <1>1, <2>2 DEF Exists
    <3> QED
      BY <2>2, <3>2, <3>3, NewPhases DEF Running, Exists, Gen
  <2> QED
    BY <2>1, <2>2
<1> HIDE DEF name, gen
<1>6. GensExist'
  BY <1>1, <1>4, <1>5 DEF GensExist
<1>7. GensOfWork'
  BY <1>1, <1>2, <1>3 DEF GensOfWork
<1>8. ListedFinished'
  BY <1>1, <1>2, <1>3, <1>5 DEF ListedFinished
<1>9. NoneNewer'
  BY <1>1, <1>2, <1>3, <1>5 DEF NoneNewer, gen
<1>10. OnlyOwn'
  BY <1>1, <1>2, <1>3, <1>5 DEF OnlyOwn
<1>11. HolderAlone'
  BY <1>1, <1>2, <1>3, <1>4, <1>5 DEF HolderAlone, name, gen
<1>12. FollowupHolds'
  BY <1>1, <1>2, <1>3, <1>4, <1>5 DEF FollowupHolds, gen
<1>13. RunningIsNamed'
  <2> SUFFICES ASSUME NEW o \in Mirrors \ deleted, NEW n \in JobNames,
                      Running(o, n)', Gen(o, n)' = mirrors[o].gen, ~JustCreated(o, n)'
               PROVE  Named(o, n)'
    BY <1>1 DEF RunningIsNamed
  <2>1. Running(o, n) /\ Gen(o, n) = mirrors[o].gen
    BY <1>3, <1>5
  <2>2. Named(o, n)
    BY <1>1, <2>1 DEF RunningIsNamed
  <2> QED
    BY <1>1, <1>5, <2>2 DEF Named
<1>14. RunningHolds'
  BY <1>1, <1>4, <1>5 DEF RunningHolds, NoSpecChanged
<1>15. OneOfGeneration'
  BY <1>1, <1>4, <1>5 DEF OneOfGeneration
<1> QED
  BY <1>6, <1>7, <1>8, <1>9, <1>10, <1>11, <1>12, <1>13, <1>14, <1>15

\* The patch that records a Job: it names the only running one of its generation.
LEMMA ScheduledExclusive == IInv /\ XInv /\ RecordScheduled => XInv'
<1> SUFFICES ASSUME IInv, XInv, RecordScheduled PROVE XInv'
  OBVIOUS
<1> USE Kinds DEF XInv
<1> DEFINE m == work.mirror
           op == work.op
           new == ApplySyncScheduledForGeneration(mirrors[m], op.name, op.gen, Now)
<1>1. /\ At("record") /\ Chosen /\ Holding /\ ~At("idle") /\ m \in Mirrors /\ m = Owner
      /\ op.name \in JobNames /\ UNCHANGED <<deleted, jobs, lease>>
      /\ \A o, n : JustCreated(o, n) <=> o = Owner /\ n = op.name
  BY DEF RecordScheduled, At, Chosen, Holding, Owner, JustCreated
<1>2. \A o, n : /\ Running(o, n)' = Running(o, n) /\ Exists(o, n)' = Exists(o, n)
                /\ Gen(o, n)' = Gen(o, n)
  BY <1>1 DEF Running, Exists, Gen
<1>3. /\ op.gen \in work.gen..mirrors[m].gen
      /\ op.kind = "followup" => op.gen = work.gen /\ op.name = Followup
      /\ lease = <<Owner, op.name>>
      /\ \A n \in JobNames : Running(Owner, n) /\ Gen(Owner, n) = op.gen => n = op.name
  BY <1>1 DEF GensOfWork, HolderAlone
<1>4. /\ new \in Mirror /\ new.gen = mirrors[m].gen
      /\ new.status.lastJob = IF mirrors[m].gen = op.gen THEN op.name ELSE mirrors[m].status.lastJob
      /\ new.status.completed = mirrors[m].status.completed
  BY <1>1, ScheduledType, ScheduledNames
<1>5. \/ m \in deleted /\ work' = Idle /\ UNCHANGED mirrors
      \/ /\ m \notin deleted /\ PatchMirror(m, new)
         /\ work' = Idle \/ (op.kind = "followup" /\ work' = Stage(work))
  BY DEF RecordScheduled, Fail
<1> HIDE DEF new
<1>6. \A o \in Mirrors : mirrors'[o] = mirrors[o] \/ (o = m /\ o \notin deleted /\ mirrors'[o] = new)
  BY <1>1, <1>4, <1>5, PatchType DEF IInv
<1>7. \A o \in Mirrors : mirrors'[o].gen = mirrors[o].gen
  BY <1>4, <1>6
<1>8. m \notin deleted => mirrors'[m] = new
  BY <1>1, <1>4, <1>5, PatchType DEF IInv
<1>9. GensExist' /\ OneOfGeneration' /\ RunningHolds'
  BY <1>1, <1>2, <1>7 DEF GensExist, OneOfGeneration, RunningHolds, NoSpecChanged
<1>10. RunningIsNamed'
  <2> SUFFICES ASSUME NEW o \in Mirrors \ deleted, NEW n \in JobNames,
                      Running(o, n), Gen(o, n) = mirrors[o].gen
               PROVE  Named(o, n)'
    BY <1>1, <1>2, <1>7 DEF RunningIsNamed
  <2>1. CASE o = m /\ mirrors[m].gen = op.gen
    BY <1>1, <1>3, <1>4, <1>8, <2>1 DEF Named
  <2>2. CASE ~(o = m /\ mirrors[m].gen = op.gen)
    <3>1. ~JustCreated(o, n)
      <4> SUFFICES ASSUME JustCreated(o, n) PROVE FALSE
        OBVIOUS
      <4>1. o = Owner /\ o = m /\ n = op.name /\ Exists(o, n)
        BY <1>1
      <4>2. Gen(o, n) <= work.gen \/ Gen(o, n) = op.gen
        BY <1>1, <4>1 DEF NoneNewer
      <4> QED
        BY <1>3, <2>2, <4>1, <4>2
    <3>2. Named(o, n)
      BY <3>1 DEF RunningIsNamed
    <3>3. /\ mirrors'[o].status.lastJob = mirrors[o].status.lastJob
          /\ mirrors'[o].status.completed = mirrors[o].status.completed
      BY <1>4, <1>6, <2>2
    <3> QED
      BY <1>2, <1>7, <3>2, <3>3 DEF Named
  <2> QED
    BY <2>1, <2>2
<1>11. CASE work' = Idle
  <2>1. At("idle")' /\ ~Chosen' /\ ~Holding'
    BY <1>11 DEF Idle, At, Chosen, Holding
  <2> QED
    BY <1>9, <1>10, <2>1
       DEF GensOfWork, ListedFinished, NoneNewer, OnlyOwn, FollowupHolds, HolderAlone
<1>12. CASE work' # Idle
  <2>1. /\ op.kind = "followup" /\ op.gen = work.gen /\ op.name = Followup
    BY <1>3, <1>5, <1>12
  <2>2. /\ work'.pc \in {"completed", "generation", "pending"}
        /\ work'.mirror = work.mirror /\ work'.gen = work.gen /\ work'.active = work.active
        /\ work'.stamp = work.stamp /\ work'.todo = work.todo
    BY <1>5, <1>12, StageKeeps
  <2>3. /\ ~At("idle")' /\ ~Chosen' /\ ~Holding' /\ Owner' = Owner /\ Followup' = Followup
        /\ \A o, n : ~JustCreated(o, n)'
    BY <2>2 DEF At, Chosen, Holding, Owner, Followup, JustCreated
  <2>4. GensOfWork'
    BY <1>1, <1>7, <2>2, <2>3 DEF GensOfWork
  <2>5. ListedFinished'
    BY <1>1, <1>2, <2>2, <2>3 DEF ListedFinished
  <2>6. NoneNewer' /\ OnlyOwn'
    BY <1>1, <1>2, <2>1, <2>2, <2>3 DEF NoneNewer, OnlyOwn
  <2>7. FollowupHolds' /\ HolderAlone'
    BY <1>1, <1>2, <1>3, <2>1, <2>2, <2>3 DEF FollowupHolds, HolderAlone
  <2> QED
    BY <1>9, <1>10, <2>4, <2>5, <2>6, <2>7
<1> QED
  BY <1>11, <1>12

------------------------------------------------------------------------------
\* Jobs of one GitMirror and generation exclude each other, and as long as no spec
\* changed the Jobs of all GitMirrors of the repository do, although each of
\* them compares the Lease's holder with a generation of its own.
THEOREM Exclusive == Spec => []OneActiveJob
<1>1. IInv /\ XInv /\ [Next]_vars => XInv'
  <2> SUFFICES ASSUME IInv, XInv, [Next]_vars PROVE XInv'
    OBVIOUS
  <2>1. CASE Reconcile
    BY <2>1, BeginExclusive, CompletedExclusive, ChooseExclusive, AcquireExclusive,
       CreateExclusive, ScheduledExclusive DEF Reconcile
  <2>2. CASE ~Reconcile
    BY <2>2, OthersExclusive DEF Next
  <2> QED
    BY <2>1, <2>2
<1>2. IInv /\ XInv => OneActiveJob
  <2> SUFFICES ASSUME IInv, XInv, NEW m \in Mirrors \ deleted, NEW o \in Mirrors \ deleted,
                      NEW n \in JobNames, NEW p \in JobNames,
                      Running(m, n), Running(o, p), Gen(m, n) = Gen(o, p),
                      m = o \/ NoSpecChanged
               PROVE  <<m, n>> = <<o, p>>
    BY DEF OneActiveJob, Running, Gen
  <2>1. CASE m = o
    BY <2>1 DEF XInv, OneOfGeneration
  <2>2. CASE NoSpecChanged
    BY <2>2 DEF XInv, RunningHolds
  <2> QED
    BY <2>1, <2>2
<1> QED
  BY <1>1, <1>2, InitExclusive, Invariance, PTL DEF Spec
==============================================================================
