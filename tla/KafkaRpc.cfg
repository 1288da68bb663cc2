\* No restarts: the transport implements Rpc.
CONSTANTS
  None = None
  c1 = c1
  c2 = c2
  Call = {c1, c2}
  Methods = {"task", "config", "stream"}
  MaxEvents = 2
  MaxRestarts = 0
  HandlersFail = TRUE
  SendsFail = TRUE
  ClientStops = TRUE
  CallersLeave = TRUE
  SlowAcks = TRUE
  SplitWait = TRUE
SPECIFICATION KafkaSpec
INVARIANT RegistryExact
PROPERTY IsRpc
\* Every call is over and the server has nothing to do.
CHECK_DEADLOCK FALSE
