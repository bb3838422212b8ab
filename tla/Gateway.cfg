\* Three requests of one conversation, up to two tool calls in an answer.
SPECIFICATION GatewaySpec
CONSTANTS
  MaxMessages = 5
  MaxStreamLines = 3
  MaxCalls = 2
INVARIANTS
  ModelSeesItself
  ToolTurnsPaired
  SuccessIsAnswer
  StreamReadBack
\* A conversation of MaxMessages messages is over.
CHECK_DEADLOCK FALSE
