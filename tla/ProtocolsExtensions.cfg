SPECIFICATION ProtocolSpec
CONSTANTS
  Transport = {"jsonrpc", "rest"}
  MaxEvents = 1
  LinkFails = TRUE
  CallersLeave = FALSE
  Foreign = FALSE
INVARIANTS
  ExtensionsTold
  StreamsBlameRightly
  LossesAreClientErrors
CHECK_DEADLOCK FALSE
