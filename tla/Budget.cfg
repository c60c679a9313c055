SPECIFICATION Spec
CONSTANTS
  NULL = NULL
  r1 = r1  r2 = r2  r3 = r3  r4 = r4
  Requests = {r1, r2, r3, r4}
  Units <- MCUnits
  DailyLimit = 3
  Providers = 2
  Lifetime = 2
  Day = 3
  Consumption = {1}
  MaxTime = 4
SYMMETRY Symmetric
INVARIANTS TypeOK CountedExactly WithinLimit
PROPERTIES ImplementsAllowance
CHECK_DEADLOCK FALSE
