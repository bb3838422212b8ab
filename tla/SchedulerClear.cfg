\* The same calls with clear() at any moment.
SPECIFICATION Spec
CONSTANTS
  a = a
  b = b
  c = c
  d = d
  Task = {a, b, c, d}
  Priority <- FourPriorities
  Timed = {a, c}
  MaxConcurrent = 2
INVARIANTS
  NobodyForgotten
PROPERTIES
  BestFirst
CHECK_DEADLOCK FALSE
