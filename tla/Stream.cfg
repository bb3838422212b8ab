\* Text, tool calls and empty answers over a chain that is longer than the limit.
SPECIFICATION StreamSpec
CONSTANTS
  Endpoints = 3
  MaxStreamingFailover = 2
  Kinds = {"text", "tool", "arguments"}
  EmptyAnswers = TRUE
  MaxLines = 3
INVARIANTS
  StreamWellFormed
PROPERTIES
  StreamCompleted
  StreamEnds
CHECK_DEADLOCK FALSE
