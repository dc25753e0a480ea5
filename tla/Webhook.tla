------------------------------- MODULE Webhook -------------------------------
(***************************************************************************)
(* The GitHub webhook receiver, internal/webhook/server.go: a handler      *)
(* answers a signed push delivery by recording the intent to sync in the   *)
(* status of the GitMirror.  Handlers run concurrently in the operator's   *)
(* process and read through its cache.                                     *)
(***************************************************************************)
EXTENDS Cluster

CONSTANTS
  Handlers,  \* requests being handled at once
  NoHost     \* the host of an idle handler

ASSUME NoHostAssumption == NoHost \notin Instances

VARIABLE hook  \* the state of each handler

Hook == [pc : {"idle", "get", "patch"}, host : Instances \cup {NoHost},
         delivery : 0..MaxPush, base : Mirror]

IdleHook == [pc |-> "idle", host |-> NoHost, delivery |-> 0, base |-> NewMirror]

WebhookInit == hook = [h \in Handlers |-> IdleHook]

\* HandleGitHub up to the check for a duplicate, against the mirror findMirror
\* found; every path that answers early leaves the status as it is.
IsDuplicate(m, d) == m.status.delivery = d

HandleGitHub(h, i, d) ==
  /\ hook[h].pc = "idle"
  /\ d \in inbox
  /\ inbox' = inbox \ {d}
  /\ hook' = IF IsDuplicate(SeenMirror(i), d) THEN hook
             ELSE [hook EXCEPT ![h].pc = "get", ![h].host = i, ![h].delivery = d]
  /\ UNCHANGED <<objects, queued, armed, source, target, delivered, clock, faults>>

\* PatchGitMirrorStatus reads the copy it will patch ...
HookGet(h) ==
  /\ hook[h].pc = "get"
  /\ hook' = [hook EXCEPT ![h].pc = "patch",
                          ![h].base = SeenMirror(hook[h].host)]
  /\ UNCHANGED <<objects, queued, armed, repositories, clock, faults>>

\* ... and sends the patch ApplyWebhookIntent makes of it.
HookPatch(h) ==
  /\ hook[h].pc = "patch"
  /\ LET base == hook[h].base
         d == hook[h].delivery
     IN PatchMirror(base, ApplyWebhookIntent(base, d, d))
  /\ hook' = [hook EXCEPT ![h] = IdleHook]
  /\ UNCHANGED <<jobs, lease, cache, leaseCopies, armed, repositories, clock, faults>>

\* An API error: the sender gets a 500 and the delivery is not recorded.
HookFails(h) ==
  /\ faults < MaxFaults
  /\ hook[h].pc # "idle"
  /\ hook' = [hook EXCEPT ![h] = IdleHook]
  /\ faults' = faults + 1
  /\ UNCHANGED <<objects, queued, armed, repositories, clock>>

WebhookNext ==
  \E h \in Handlers :
    \/ \E i \in Instances, d \in Deliveries : HandleGitHub(h, i, d)
    \/ HookGet(h) \/ HookPatch(h) \/ HookFails(h)
==============================================================================
