\* Two concurrent requests over two providers in opposite orders; connections
\* may be lost in mid-body.
SPECIFICATION FailoverSpec
CONSTANTS
  r1 = r1
  r2 = r2
  p1 = p1
  p2 = p2
  Request = {r1, r2}
  Provider = {p1, p2}
  Chain <- CrossedChains
  MaxFailoverAttempts = 2
  AgentRetries = 1
  Chunks = 1
  Answer = {"401", "429", "500", "complete", "truncated", "cut"}
  Latency = {0}
  LatencyCap = 1
  LatencyWindow = 1
  RecentWindow = 2
  RecentCap = 2
  StreakCap = 2
INVARIANTS
  UpstreamCallsBounded
PROPERTIES
  NoCallAfterRefusal
  FailoverEnds
CHECK_DEADLOCK FALSE
