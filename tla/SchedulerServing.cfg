\* Four calls on two slots, three of them with a timeout; nobody calls clear().
SPECIFICATION ServingSpec
CONSTANTS
  a = a
  b = b
  c = c
  d = d
  Task = {a, b, c, d}
  Priority <- FourPriorities
  Timed = {a, b, c}
  MaxConcurrent = 2
INVARIANTS
  StatsConserved
PROPERTIES
  ImplementsPool
  TimedTasksSettle
CHECK_DEADLOCK FALSE
