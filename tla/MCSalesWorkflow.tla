--------------------------- MODULE MCSalesWorkflow ---------------------------
(* Instances of SalesWorkflow for TLC.                                     *)
EXTENDS SalesWorkflow, TLC

CONSTANTS r1, r2, e1, e2, e3, e4, e5, e6, e7, a1, a2, h1, h2, w1, w2

Ids == Permutations({a1, a2}) \union Permutations({w1, w2}) \union Permutations({h1, h2})

Symmetric == Ids \union Permutations(Runs) \union Permutations(Events)
=============================================================================
