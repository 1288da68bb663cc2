\* What goes wrong with one call.  Run with -continue: all four are violated.
CONSTANTS
  None = None
  c1 = c1
  Call = {c1}
  Methods = {"task", "stream"}
  MaxEvents = 1
  MaxRestarts = 0
  HandlersFail = TRUE
  SendsFail = FALSE
  ClientStops = FALSE
  CallersLeave = TRUE
  SlowAcks = TRUE
  SplitWait = TRUE
SPECIFICATION KafkaSpec
INVARIANT StreamsAreWhole
INVARIANT StreamErrorsRaised
INVARIANT NothingLeftBehind
PROPERTY RepliesComplete
\* Every call is over and the server has nothing to do.
CHECK_DEADLOCK FALSE
