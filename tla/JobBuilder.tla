------------------------------ MODULE JobBuilder ------------------------------
(***************************************************************************)
(* What of a GitMirror's spec reaches the sync runner: the rules of the    *)
(* CRD (api/v1alpha1/gitmirror_types.go), and the refusals and the         *)
(* environment of BuildSyncJob (internal/jobs/builder.go).  The runner     *)
(* reads that environment in another binary, module SyncRunner.            *)
(***************************************************************************)

AuthTypes == {"ssh", "basic", "githubApp"}

\* An endpoint: auth is auth.type, "" if not given; parts are the members of
\* auth that are given; legacy is sshSecretRef.
EndpointSpec == [url : {"", "ssh", "https"}, auth : AuthTypes \cup {"", "other"},
                 parts : SUBSET AuthTypes, legacy : BOOLEAN]

\* As BuildSyncJob reads it.  deadline: whether activeDeadlineSeconds is given.
MirrorSpec == [mode : {"", "exact", "additive", "other"}, includeTags : BOOLEAN,
               source : EndpointSpec, target : EndpointSpec, deadline : BOOLEAN]

------------------------------------------------------------------------------
\* The validation rules of GitEndpointSpec and GitAuthSpec.
AdmittedEndpoint(e) ==
  /\ e.url # ""
  /\ IF e.auth = "" THEN e.parts = {} /\ e.legacy
                    ELSE e.auth \in AuthTypes /\ e.parts = {e.auth}

\* What the API server takes and stores: a mode left out is stored as exact,
\* includeTags left out as TRUE.
Admitted(spec) ==
  /\ spec.mode \in {"exact", "additive"}
  /\ AdmittedEndpoint(spec.source)
  /\ AdmittedEndpoint(spec.target)

------------------------------------------------------------------------------
AuthTypeWithoutLegacy(e) == e.auth  \* variant
AuthType(e) == IF e.auth = "" /\ e.legacy THEN "ssh" ELSE e.auth

\* endpointAuth, sshAuthRef: the reference that the type needs is given.
EndpointBuilt(e) ==
  \/ AuthType(e) = "ssh" /\ ("ssh" \in e.parts \/ e.legacy)
  \/ AuthType(e) \in {"basic", "githubApp"} /\ AuthType(e) \in e.parts

ModeDefaultAdditive(spec) == IF spec.mode = "" THEN "additive" ELSE spec.mode  \* variant
Mode(spec) == IF spec.mode = "" THEN "exact" ELSE spec.mode

\* BuildSyncJob returns no error.
Built(spec) ==
  /\ Mode(spec) \in {"exact", "additive"}
  /\ EndpointBuilt(spec.source)
  /\ EndpointBuilt(spec.target)

\* set: the values in the Secrets that the endpoint refers to are not empty.
EndpointEnvWithoutLegacyKey(e, set) ==  \* variant
  [url |-> e.url, authType |-> AuthType(e),
   sshKeyPath |-> AuthType(e) = "ssh" /\ "ssh" \in e.parts,
   secrets |-> AuthType(e) \in {"basic", "githubApp"} /\ set]
BuiltEndpointEnv(e, set) ==
  [url |-> e.url, authType |-> AuthType(e),
   sshKeyPath |-> AuthType(e) = "ssh",
   secrets |-> AuthType(e) \in {"basic", "githubApp"} /\ set]

\* INCLUDE_TAGS is set in additive mode only; the runner takes TRUE for none.
IncludeTagsIfTrue(spec) ==  \* variant
  IF Mode(spec) = "additive" /\ spec.includeTags THEN "true" ELSE ""
IncludeTagsEnv(spec) ==
  IF Mode(spec) # "additive" THEN "" ELSE IF spec.includeTags THEN "true" ELSE "false"

BuiltEnv(spec, set) ==
  [mode |-> Mode(spec), includeTags |-> IncludeTagsEnv(spec),
   source |-> BuiltEndpointEnv(spec.source, set.source),
   target |-> BuiltEndpointEnv(spec.target, set.target)]

\* The Job has activeDeadlineSeconds only if the spec does.
NoDeadline(spec) == FALSE  \* variant
HasDeadline(spec) == spec.deadline
==============================================================================
