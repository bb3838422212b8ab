\* A streaming and a plain request, concurrently, sharing a provider;
\* connections may be lost in mid-body.
SPECIFICATION Spec
CONSTANTS
  r1 = r1
  r2 = r2
  p1 = p1
  p2 = p2
  Request = {r1, r2}
  Streaming = {r1}
  Provider = {p1, p2}
  Chain <- SharedCombo
  MaxFailoverAttempts = 3
  AgentRetries = 1
  Chunks = 2
  Answer = {"401", "502", "ECONNRESET", "empty", "complete", "truncated", "cut"}
  Latency = {0}
  LatencyCap = 1
  LatencyWindow = 1
  RecentWindow = 2
  RecentCap = 2
  StreakCap = 2
INVARIANTS
  AnsweredAtMostOnce
  SuccessIsFinished
  AnalyticsCounted
PROPERTY EveryRequestAnswered
CHECK_DEADLOCK FALSE
