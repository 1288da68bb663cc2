SPECIFICATION HandlerSpec

CONSTANTS
  Queue = {r1, r2}
  r1 = r1
  r2 = r2
  Proc <- Coroutine
  Event <- EventKind
  Readers = 1
  Cancellable <- Coroutine
  LateTap = TRUE
  Task = {t1}
  t1 = t1
  None = None
  Kinds = {"send", "resubscribe"}
  AgentEvents <- WorksAndEnds
  MaxEvents = 2
  MaxSize = 2
  Py313 = TRUE
  Known <- NoTask
  TakeTurns = FALSE
  AgentsRaise = FALSE
  StoreFails = FALSE
  ClientsLeave = FALSE

SYMMETRY Symmetry

INVARIANTS
  ResubscriberSeesFinal

\* Each request comes once, so the system comes to rest.
CHECK_DEADLOCK FALSE
