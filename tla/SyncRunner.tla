------------------------------ MODULE SyncRunner ------------------------------
(***************************************************************************)
(* The sync runner, sync/main.go, in the pod of one sync Job: it prepares  *)
(* and checks its credentials, clones the source and pushes the clone's    *)
(* branches and then its tags to the target, each with one git command.    *)
(* A push moves its refs one by one: when it fails, any of them may have   *)
(* moved.  A failed pod is replaced until the Job's backoffLimit.          *)
(*                                                                         *)
(* The clone is a bare one of branches and tags.  The source is not a      *)
(* variable: it is whatever a clone finds.                                 *)
(***************************************************************************)
EXTENDS Naturals

CONSTANTS
  Branches,     \* names of branches
  Tags,         \* names of tags
  Commits,      \* what a ref may point to
  NoCommit,     \* what a missing ref points to
  IsAncestor,   \* pairs of a commit and one that descends from it
  BackoffLimit  \* spec.backoffLimit of the Job

Endpoint == [type : {"", "ssh", "basic", "githubApp", "other"},
             credential : BOOLEAN,         \* key, password or app key present
             url : {"", "ssh", "https"}]   \* scheme of the URL: "ssh" is any but https

Config == [mode : {"exact", "additive", "other"}, includeTags : BOOLEAN,
           source : Endpoint, target : Endpoint]

ASSUME NoCommitAssumption == NoCommit \notin Commits
ASSUME IsAncestorAssumption == IsAncestor \subseteq Commits \X Commits
ASSUME BackoffLimitAssumption == BackoffLimit \in Nat

\* The environment of the pod: "" is a variable that is not set.
EndpointEnv == [url : {"", "ssh", "https"},
                authType : {"", "ssh", "basic", "githubApp", "other"},
                sshKeyPath : BOOLEAN,
                secrets : BOOLEAN]     \* user and password, or app, from Secrets
Env == [mode : {"", "exact", "additive", "other"}, includeTags : {"", "true", "false"},
        source : EndpointEnv, target : EndpointEnv]

EndpointAuthFromEnv(e) ==
  LET type == IF e.authType = "" /\ e.sshKeyPath THEN "ssh" ELSE e.authType
  IN  [type |-> type, url |-> e.url,
       credential |-> IF type = "ssh" THEN e.sshKeyPath ELSE e.secrets]

ConfigFromEnv(env) ==
  [mode |-> IF env.mode = "" THEN "exact" ELSE env.mode,
   includeTags |-> env.includeTags # "false",
   source |-> EndpointAuthFromEnv(env.source),
   target |-> EndpointAuthFromEnv(env.target)]

VARIABLES
  config,   \* what ConfigFromEnv returned
  pc,       \* the command that comes next
  attempt,  \* pods the Job has started
  clone,    \* the bare clone in the pod's /tmp
  target    \* the target repository

vars == <<config, pc, attempt, clone, target>>

Refs(names) == [names -> Commits \cup {NoCommit}]
Repository == [heads : Refs(Branches), tags : Refs(Tags)]

NoRefs(names) == [n \in names |-> NoCommit]
EmptyRepository == [heads |-> NoRefs(Branches), tags |-> NoRefs(Tags)]

Init ==
  /\ config \in {ConfigFromEnv(env) : env \in Env}
  /\ pc = "start"
  /\ attempt = 1
  /\ clone = EmptyRepository
  /\ target \in Repository

------------------------------------------------------------------------------
(***************************************************************************)
(* prepareCredentials, validateEndpointAuth, BuildGitCommands.             *)
(***************************************************************************)
\* Token and password credentials go over HTTPS only.
ValidEndpoint(e) ==
  /\ e.url # ""
  /\ e.credential
  /\ \/ e.type = "ssh"
     \/ e.type \in {"basic", "githubApp"} /\ e.url = "https"

Accepted(c) ==
  /\ ValidEndpoint(c.source)
  /\ ValidEndpoint(c.target)
  /\ c.mode \in {"exact", "additive"}

\* The tag push: always in exact mode, which prunes tags, else on demand.
PushesTags(c) == c.mode = "exact" \/ c.includeTags

NextCommandTagsFirst(c, done) ==  \* variant
  CASE done = "clone" -> IF PushesTags(c) THEN "pushTags" ELSE "pushHeads"
    [] done = "pushTags" -> "pushHeads"
    [] OTHER -> "done"
NextCommand(c, done) ==
  CASE done = "clone" -> "pushHeads"
    [] done = "pushHeads" -> IF PushesTags(c) THEN "pushTags" ELSE "done"
    [] OTHER -> "done"

Prepare ==
  /\ pc = "start" /\ Accepted(config)
  /\ pc' = "clone"
  /\ UNCHANGED <<config, attempt, clone, target>>

\* A bad configuration, a token request or a copy of a key that fails, or a pod
\* that is killed.
PrepareFails ==
  /\ pc = "start"
  /\ pc' = "failed"
  /\ UNCHANGED <<config, attempt, clone, target>>

------------------------------------------------------------------------------
(***************************************************************************)
(* The git commands.                                                       *)
(***************************************************************************)
\* Nobody checks what was cloned: a source without branches makes the exact mode
\* prune every branch of the target.
Clone ==
  /\ pc = "clone"
  /\ clone' \in Repository
  /\ pc' = NextCommand(config, "clone")
  /\ UNCHANGED <<config, attempt, target>>

CloneFails ==
  /\ pc = "clone"
  /\ pc' = "failed"
  /\ UNCHANGED <<config, attempt, clone, target>>

\* Without force a branch moves to a descendant only and a tag not at all.
FastForward(old, new) == old \in {NoCommit, new} \/ <<old, new>> \in IsAncestor
SameTag(old, new) == old \in {NoCommit, new}

\* --prune with a forced refspec.
Overwritten(old, new) == new

\* An unforced refspec: refs missing in the clone and refused ones stay.
Extended(old, new, Permitted(_, _)) ==
  [r \in DOMAIN old |->
     IF new[r] # NoCommit /\ Permitted(old[r], new[r]) THEN new[r] ELSE old[r]]

Refused(old, new, Permitted(_, _)) ==
  \E r \in DOMAIN old : new[r] # NoCommit /\ ~Permitted(old[r], new[r])

PushedHeads(c, old, new) ==
  IF c.mode = "exact" THEN Overwritten(old, new) ELSE Extended(old, new, FastForward)

PushedTagsForced(c, old, new) ==  \* variant
  IF c.mode = "exact" THEN Overwritten(old, new)
  ELSE [t \in DOMAIN old |-> IF new[t] = NoCommit THEN old[t] ELSE new[t]]
PushedTags(c, old, new) ==
  IF c.mode = "exact" THEN Overwritten(old, new) ELSE Extended(old, new, SameTag)

\* Any of the refs may have moved.
Partly(old, new) == {[r \in DOMAIN old |-> IF r \in S THEN new[r] ELSE old[r]] :
                       S \in SUBSET DOMAIN old}

PushHeads ==
  /\ pc = "pushHeads"
  /\ config.mode = "exact" \/ ~Refused(target.heads, clone.heads, FastForward)
  /\ target' = [target EXCEPT !.heads = PushedHeads(config, @, clone.heads)]
  /\ pc' = NextCommand(config, "pushHeads")
  /\ UNCHANGED <<config, attempt, clone>>

PushHeadsFails ==
  /\ pc = "pushHeads"
  /\ \E heads \in Partly(target.heads, PushedHeads(config, target.heads, clone.heads)) :
       target' = [target EXCEPT !.heads = heads]
  /\ pc' = "failed"
  /\ UNCHANGED <<config, attempt, clone>>

\* A push of tags is skipped, for git refuses it, when neither side has any.
SkipEmptyTagPushIfNoneCloned(c, old, new) ==  \* variant
  new = NoRefs(Tags)
ShouldSkipEmptyTagPush(c, old, new) ==
  new = NoRefs(Tags) /\ old = NoRefs(Tags)

SkipTags ==
  /\ pc = "pushTags"
  /\ ShouldSkipEmptyTagPush(config, target.tags, clone.tags)
  /\ pc' = NextCommand(config, "pushTags")
  /\ UNCHANGED <<config, attempt, clone, target>>

PushTags ==
  /\ pc = "pushTags"
  /\ ~ShouldSkipEmptyTagPush(config, target.tags, clone.tags)
  /\ config.mode = "exact" \/ ~Refused(target.tags, clone.tags, SameTag)
  /\ target' = [target EXCEPT !.tags = PushedTags(config, @, clone.tags)]
  /\ pc' = NextCommand(config, "pushTags")
  /\ UNCHANGED <<config, attempt, clone>>

\* Listing the target's tags fails, or the push does.
PushTagsFails ==
  /\ pc = "pushTags"
  /\ \E tags \in Partly(target.tags, PushedTags(config, target.tags, clone.tags)) :
       target' = [target EXCEPT !.tags = tags]
  /\ pc' = "failed"
  /\ UNCHANGED <<config, attempt, clone>>

\* The Job controller starts another pod, with an empty /tmp.
RetriesLeftOffByOne == attempt <= BackoffLimit + 1  \* variant
RetriesLeft == attempt <= BackoffLimit

Retry ==
  /\ pc = "failed" /\ RetriesLeft
  /\ pc' = "start"
  /\ attempt' = attempt + 1
  /\ clone' = EmptyRepository
  /\ UNCHANGED <<config, target>>

Next ==
  \/ Prepare \/ PrepareFails \/ Clone \/ CloneFails
  \/ PushHeads \/ PushHeadsFails \/ SkipTags \/ PushTags \/ PushTagsFails
  \/ Retry

Spec == Init /\ [][Next]_vars

------------------------------------------------------------------------------
\* The state of a pod: its command, its clone, and the pods before it.
TypeOK ==
  /\ config \in Config
  /\ pc \in {"start", "clone", "pushHeads", "pushTags", "done", "failed"}
  /\ attempt \in 1..(BackoffLimit + 1)
  /\ clone \in Repository
  /\ target \in Repository

\* All refs of new are in old; exactly: and no other.
Contains(old, new) == \A r \in DOMAIN new : new[r] # NoCommit => old[r] = new[r]

\* A Job that succeeds leaves the target with what it cloned: in exact mode the
\* very branches and tags, in additive mode at least the branches and, if asked
\* for, the tags, whatever earlier pods left half done (Run).
DoneMeansMirrored ==
  pc = "done" =>
    IF config.mode = "exact" THEN target = clone
    ELSE /\ Contains(target.heads, clone.heads)
         /\ config.includeTags => Contains(target.tags, clone.tags)

\* In additive mode no step of any pod loses history of the target: no branch
\* or tag is deleted, a branch only moves to a descendant and a tag never.
AdditiveKeepsTarget ==
  [][config.mode = "additive" =>
       /\ \A b \in Branches :
            target.heads[b] # NoCommit => FastForward(target.heads[b], target'.heads[b])
       /\ \A t \in Tags :
            target.tags[t] # NoCommit => target'.tags[t] = target.tags[t]]_vars

\* The target's tags change only once all cloned branches are there: who waits
\* for a tag finds the branches of the same clone (BuildGitCommands).
TagsAfterHeads ==
  [][target'.tags # target.tags => Contains(target.heads, clone.heads)]_vars
==============================================================================
