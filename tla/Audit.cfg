SPECIFICATION Spec
CONSTANTS
  NULL = NULL
  Sessions = {s1, s2, s3}
  Tenants = {t1, t2}
  Campaigns = {c1, c2}
  Versions = {v1, v2}
  Hashes = {h1, h2}
  Entities = {x1}
  Ids = {i1, i2, i3}
SYMMETRY Symmetric
INVARIANTS TypeOK ChainIntact NumbersStayFree VersionsGapless EveryChangeAudited SomeoneProceeds
