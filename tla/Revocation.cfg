SPECIFICATION Spec
CONSTANTS
  NULL = NULL
  d1 = d1  d2 = d2  t1 = t1  t2 = t2  w1 = w1  w2 = w2
  c1 = c1  p1 = p1  v1 = v1  h1 = h1  tenant1 = tenant1
  Decisions = {d1}
  Tokens = {t1}
  Workers = {w1, w2}
  AdapterChannel <- VoiceAdapters
  Bodies <- VoiceBody
  Manifest <- MCManifest
  PhoneOf <- MCPhoneOf
  RepepCheck <- MCRepepCheck
  MaxDecisionAge = 1
  MaxTtl = 2
  Ttls <- TtlRequests
  MaxContexts = 1
  ClockLeeway = 1
  GatewayOffset <- Ahead
  AdapterOffset <- Behind
  Expiries <- EndlessOrBrief
  MaxRows = 1
  MaxTime = 4
PROPERTY RevocationPrevails
