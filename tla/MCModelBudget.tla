---------------------------- MODULE MCModelBudget ----------------------------
(* Instances of ModelBudget for TLC.                                       *)
EXTENDS ModelBudget, TLC

CONSTANTS r1, r2, r3, r4

\* The requests r1, r2 and r3 take one unit more than a limit of 3; r4 can never
\* be served.
MCUnits == [r \in Requests |-> CASE r = r1 -> 2 [] r = r4 -> 4 [] OTHER -> 1]

Symmetric == Permutations({r2, r3})
=============================================================================
