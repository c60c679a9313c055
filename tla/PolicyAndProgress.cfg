SPECIFICATION MCSpec
CONSTANTS
  Events = {1, 2, 3}
  Publishers = {p1, p2}
  Limit = 2
  Refused = {1}
  Objects = {3}
  MaxFaults = 2
  NULL = NULL  h1 = h1  h2 = h2
  Runs = {r1}
  RunEvents = {e1, e2, e3, e4, e5, e6}
  Actions = {a1, a2}
  Hashes = {h1}
  CallerBodies <- MCBodies
  Values <- MCValues
  Claims <- MCClaims
  Threads = {w1, w2}
  Sla = 1
  MaxTime = 2
INVARIANTS DuplicatesHaveCause CallerCannotOverrideEvidence
PROPERTIES EventuallyPublished WaitingEnds FailClosed
CHECK_DEADLOCK FALSE
