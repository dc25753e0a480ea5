----------------------------- MODULE SyncContract -----------------------------
(***************************************************************************)
(* What the operator promises to somebody who sees only the two            *)
(* repositories, the sync Jobs and two fields of the status:               *)
(* lastRequestedRevision and lastMirroredRevision.  There are no           *)
(* reconcilers, handlers, caches, patches or Lease here; GitMirrorOperator *)
(* implements this module.                                                 *)
(*                                                                         *)
(* The strict contract is the promise of one instance with prompt caches,  *)
(* before Jobs expire: syncs go one at a time, and a revision is reported  *)
(* only for a sync that still shows that it mirrored it.                   *)
(***************************************************************************)
EXTENDS Naturals

CONSTANTS
  Names,   \* names of syncs
  Strict   \* which of the two contracts

VARIABLES
  source,     \* the head of the source repository
  target,     \* what the target repository shows
  shown,      \* the newest revision the target ever showed
  requested,  \* the revision last asked for
  reported,   \* the revision last reported as mirrored
  syncs       \* the sync of each name: its state, what it is for, what it fetched

vars == <<source, target, shown, requested, reported, syncs>>

NoSync == [state |-> "none", rev |-> 0, got |-> 0]
NewSync(r) == [state |-> "asked", rev |-> r, got |-> 0]
Underway(n) == syncs[n].state \in {"asked", "fetched", "delivered"}
Ended(n) == syncs[n].state \in {"succeeded", "failed"}

Move(n, state, got) ==
  syncs' = [syncs EXCEPT ![n] = [state |-> state, rev |-> syncs[n].rev, got |-> got]]

Init ==
  /\ source = 0 /\ target = 0 /\ shown = 0
  /\ requested = 0 /\ reported = 0
  /\ syncs \in [Names -> {NoSync, NewSync(0)}]

Push ==
  /\ source' = source + 1
  /\ UNCHANGED <<target, shown, requested, reported, syncs>>

\* Only what was pushed is asked for; an older revision may be asked for again.
Request ==
  /\ requested' \in 0..source
  /\ UNCHANGED <<source, target, shown, reported, syncs>>

Schedule(n) ==
  /\ syncs[n].state = "none"
  /\ Strict => \A o \in Names : ~Underway(o)
  /\ \E r \in 0..source : syncs' = [syncs EXCEPT ![n] = NewSync(r)]
  /\ UNCHANGED <<source, target, shown, requested, reported>>

\* A sync that is tried again fetches again.
Fetch(n) ==
  /\ Underway(n)
  /\ Move(n, "fetched", source)
  /\ UNCHANGED <<source, target, shown, requested, reported>>

Deliver(n) ==
  /\ syncs[n].state = "fetched"
  /\ Move(n, "delivered", 0)
  /\ target' = syncs[n].got
  /\ shown' = IF target' > shown THEN target' ELSE shown
  /\ UNCHANGED <<source, requested, reported>>

Succeed(n) ==
  /\ syncs[n].state = "delivered"
  /\ Move(n, "succeeded", syncs[n].got)
  /\ UNCHANGED <<source, target, shown, requested, reported>>

Fail(n) ==
  /\ Underway(n)
  /\ Move(n, "failed", 0)
  /\ UNCHANGED <<source, target, shown, requested, reported>>

Forget(n) ==
  /\ Ended(n)
  /\ syncs' = [syncs EXCEPT ![n] = NoSync]
  /\ UNCHANGED <<source, target, shown, requested, reported>>

\* What is reported was shown; strictly, there is a sync to show for it.
Report ==
  /\ reported' \in 0..shown
  /\ Strict => \E n \in Names : syncs[n].state = "succeeded" /\ syncs[n].rev = reported'
  /\ UNCHANGED <<source, target, shown, requested, syncs>>

Next ==
  \/ Push \/ Request \/ Report
  \/ \E n \in Names :
       Schedule(n) \/ Fetch(n) \/ Deliver(n) \/ Succeed(n) \/ Fail(n) \/ Forget(n)

Spec == Init /\ [][Next]_vars
==============================================================================
