\* Three requests of one client, two of them streams; one request per window.
SPECIFICATION Spec
CONSTANTS
  r1 = r1
  r2 = r2
  r3 = r3
  c1 = c1
  Request = {r1, r2, r3}
  Client = {c1}
  From <- ThreeOfOne
  Streaming = {r1, r2}
  GateMax = 2
  MaxRequests = 1
  Window = 1
  MaxAge = 1
  SweepEvery = 2
  Drain = 1
  MaxTime = 5
INVARIANTS
  MetricsConserved
  StreamsReaped
  RateLimited
PROPERTY ShutdownEnds
CHECK_DEADLOCK FALSE
