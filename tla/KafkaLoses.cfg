\* The server ends after it committed and before it replied.
CONSTANTS
  None = None
  c1 = c1
  Call = {c1}
  Methods = {"task"}
  MaxEvents = 2
  MaxRestarts = 1
  HandlersFail = TRUE
  SendsFail = FALSE
  ClientStops = FALSE
  CallersLeave = FALSE
  SlowAcks = FALSE
  SplitWait = TRUE
SPECIFICATION FairKafkaSpec
PROPERTY AtLeastOnce
\* Every call is over and the server has nothing to do.
CHECK_DEADLOCK FALSE
