\* Three providers whose scores may be 0.01 apart; at most four reports and edits
\* of the files together, among them edits within a reload.
SPECIFICATION RoutingSpec
CONSTANTS
  p1 = p1
  p2 = p2
  p3 = p3
  Provider = {p1, p2, p3}
  Latency = {6, 7, 25}
  LatencyCap = 25
  LatencyWindow = 2
  RecentWindow = 4
  RecentCap = 2
  StreakCap = 2
  MaxSteps = 4
  Contents <- FiveContents
  FileOrder <- FileOrderOfThree
  Policies <- TwoPolicies
  Refused = Refused
  Missing = Missing
INVARIANTS
  RecoveredIsEligible
  RankingSound
  ReloadAgrees
PROPERTY ScoreFollowsOutcomes
