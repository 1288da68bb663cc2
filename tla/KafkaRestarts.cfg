\* A restart at any moment, and callers that leave: calls return, streams that ended
\* end for their callers, and replies keep their call.
CONSTANTS
  None = None
  c1 = c1
  c2 = c2
  Call = {c1, c2}
  Methods = {"task", "stream"}
  MaxEvents = 1
  MaxRestarts = 1
  HandlersFail = TRUE
  SendsFail = FALSE
  ClientStops = FALSE
  CallersLeave = TRUE
  SlowAcks = FALSE
  SplitWait = FALSE
SPECIFICATION FairKafkaSpec
INVARIANT KafkaTypeOK
INVARIANT AnswersAreReplies
PROPERTY CallsReturn
PROPERTY StreamsEnd
\* Every call is over and the server has nothing to do.
CHECK_DEADLOCK FALSE
