SPECIFICATION MCSpec
CONSTANTS
  NULL = NULL
  Requests = {q1, q2, q3}
  Keys = {k1, k2}
  Bodies = {b1, b2}
  Ttl = 2
  Capacity = 1
  MaxTime = 4
  s1 = s1  s2 = s2  w1 = w1  w2 = w2  e1 = e1  e2 = e2
  Messages = {s1, s2, w1, w2, e1, e2}
  Kind <- MCKind
  Deliveries <- MCDeliveries
  MessageOf <- MCMessageOf
  MaxSkew <- MCMaxSkew
  KeepFor <- MCKeepFor
  MaxEntries <- MCMaxEntries
  RateLimit = 1
  Minute = 2
  Stamps = {1}
  Drifts = {0, 1}
  MaxClock = 4
  RunIds = {r1, r2}
  EventIds = {i1, i2, i3, i4}
  ActionIds = {a1, a2}
  Handlers = {t1, t2}
  MaxRunContexts = 1
  MaxCheckpoints = 6
SYMMETRY Symmetric
INVARIANTS TypeOK AnswersAreOwn AdmittedOnce
INVARIANTS MemoryTypeOK SerialRunsRestore OneCheckpointPerCause
PROPERTIES OnePerKey ClaimsAreOwned
CHECK_DEADLOCK FALSE
