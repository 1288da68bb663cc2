\* Beside kafka_restarts: one call with everything that may fail, leave, stop or restart.
CONSTANTS
  None = None
  c1 = c1
  Call = {c1}
  Methods = {"task", "stream"}
  MaxEvents = 2
  MaxRestarts = 1
  HandlersFail = TRUE
  SendsFail = TRUE
  ClientStops = TRUE
  CallersLeave = TRUE
  SlowAcks = TRUE
  SplitWait = TRUE
SPECIFICATION FairKafkaSpec
PROPERTY CallsReturn
PROPERTY StreamsEnd
\* Every call is over and the server has nothing to do.
CHECK_DEADLOCK FALSE
