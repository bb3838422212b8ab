\* Two providers; snapshots every two ticks; reports, lists and restarts at any moment.
SPECIFICATION Spec
CONSTANTS
  p1 = p1
  p2 = p2
  Provider = {p1, p2}
  Lists <- SomeLists
  Interval = 2
  MaxReports = 2
  MaxChanges = 2
  MaxTime = 4
INVARIANTS
  ReportsConserved
  StatusIsFresh
\* The clock ends at MaxTime.
CHECK_DEADLOCK FALSE
