-------------------------- MODULE MCSharedRepository --------------------------
(***************************************************************************)
(* SharedRepository with two GitMirrors, of which each has a secret of its *)
(* own.                                                                    *)
(***************************************************************************)
EXTENDS SharedRepository, TLC

CONSTANTS a, b, s1, s2

MCSecretOf == (a :> s1) @@ (b :> s2)

\* A hook signed for either GitMirror, and one for each way to be refused.
MCHooks ==
  LET right == [event |-> "push", shared |-> TRUE, identified |-> TRUE, secret |-> s1] IN
  {right, [right EXCEPT !.secret = s2], [right EXCEPT !.secret = NoSecret],
   [right EXCEPT !.event = "other"], [right EXCEPT !.shared = FALSE],
   [right EXCEPT !.identified = FALSE]}
==============================================================================
