------------------------------ MODULE MCOperator ------------------------------
(***************************************************************************)
(* GitMirrorOperator on small instances.                                   *)
(***************************************************************************)
EXTENDS GitMirrorOperator

\* Bounds.  A Reconcile that begins finds a time stamp that is not in use.
StampsLeft == \A i \in Instances : At(i, "list") => FreshStamps # {}

\* At most this many Jobs on the API server at once.
FewJobs == Cardinality(PresentJobs(jobs)) <= 2
==============================================================================
