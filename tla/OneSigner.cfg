SPECIFICATION Spec
CONSTANTS
  NULL = NULL
  p1 = p1  p2 = p2  p3 = p3
  Persons = {p1, p2, p3}
  Names = {n1, n2, n3}
  Holders <- MCHolders
  MaxBuild = 1
  MaxRuns = 2
  MaxBundles = 2
INVARIANT IndependentApprovals
SYMMETRY MCNames
CHECK_DEADLOCK FALSE
