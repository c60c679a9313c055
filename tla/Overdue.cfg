SPECIFICATION Spec
CONSTANTS
  NULL = NULL
  r1 = r1  r2 = r2  a1 = a1  a2 = a2  h1 = h1  h2 = h2  w1 = w1  w2 = w2
  e1 = e1  e2 = e2  e3 = e3  e4 = e4  e5 = e5  e6 = e6  e7 = e7
  Runs = {r1, r2}
  Events = {e1, e2, e3, e4, e5}
  Actions = {a1, a2}
  Hashes = {h1, h2}
  Threads = {w1, w2}
  Sla = 1
  MaxTime = 2
SYMMETRY Symmetric
PROPERTY OverdueAskedAgain
