------------------------------ MODULE MCSyncJob ------------------------------
(***************************************************************************)
(* SyncJob on small repositories: the second commit descends from the      *)
(* first.                                                                  *)
(***************************************************************************)
EXTENDS SyncJob

CONSTANTS c1, c2

MCIsAncestor == {<<c1, c2>>}

SSHEndpoint == [url |-> "ssh", auth |-> "ssh", parts |-> {"ssh"}, legacy |-> FALSE]

\* Every mode and deadline with plain endpoints; every endpoint with at most one
\* part of auth as the target, and those of HTTPS as the source.
MCMirrorSpecs ==
  LET OnePart == {e \in EndpointSpec : e.parts \in {{}, {"ssh"}, {"basic"}, {"githubApp"}}}
  IN  [mode : {"", "exact", "additive", "other"}, includeTags : BOOLEAN,
       source : {SSHEndpoint}, target : {SSHEndpoint}, deadline : BOOLEAN]
        \cup [mode : {"exact"}, includeTags : {TRUE}, source : {SSHEndpoint},
              target : OnePart, deadline : {FALSE}]
        \cup [mode : {"additive"}, includeTags : {FALSE}, source : {e \in OnePart : e.url = "https"},
              target : {SSHEndpoint}, deadline : {FALSE}]
==============================================================================
