\* The transport is stopped while a stream is being sent.
CONSTANTS
  None = None
  c1 = c1
  Call = {c1}
  Methods = {"stream"}
  MaxEvents = 2
  MaxRestarts = 0
  HandlersFail = TRUE
  SendsFail = FALSE
  ClientStops = TRUE
  CallersLeave = FALSE
  SlowAcks = FALSE
  SplitWait = TRUE
SPECIFICATION FairKafkaSpec
PROPERTY StopEndsCalls
\* Every call is over and the server has nothing to do.
CHECK_DEADLOCK FALSE
