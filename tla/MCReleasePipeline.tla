-------------------------- MODULE MCReleasePipeline --------------------------
(* Instances of ReleasePipeline for TLC.                                   *)
EXTENDS ReleasePipeline, TLC

CONSTANTS p1, p2, p3

\* p1 may sign for Release and for Legal.
MCHolders == [release |-> {p1}, security |-> {p2}, legal |-> {p1, p3}]

\* No definition names a name.
MCNames == Permutations(Names)
=============================================================================
