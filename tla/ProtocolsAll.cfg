SPECIFICATION ProtocolSpec
CONSTANTS
  Transport = {"jsonrpc", "rest", "grpc"}
  MaxEvents = 3
  LinkFails = TRUE
  CallersLeave = TRUE
  Foreign = TRUE
INVARIANTS
  NothingCutShort
  ErrorsKeepTheirKind
PROPERTIES
  IsRpc
  AnswerArrives
CHECK_DEADLOCK FALSE
