SPECIFICATION FairHandlerSpec

CONSTANTS
  Queue = {r1, r2}
  r1 = r1
  r2 = r2
  Proc <- Coroutine
  Event <- EventKind
  Readers = 1
  Cancellable <- Coroutine
  LateTap = TRUE
  Task = {t1}
  t1 = t1
  None = None
  Kinds = {"send", "poll", "stream"}
  AgentEvents <- Ends
  MaxEvents = 1
  MaxSize = 2
  Py313 = FALSE
  Known <- UnderWay
  TakeTurns = FALSE
  AgentsRaise = FALSE
  StoreFails = FALSE
  ClientsLeave = TRUE

PROPERTIES
  EveryRequestAnswered
  CleanedUp

\* Each request comes once, so the system comes to rest.
CHECK_DEADLOCK FALSE
