SPECIFICATION FairQueueSpec

CONSTANTS
  Queue = {q1, q2}
  q1 = q1
  q2 = q2
  Proc = {p1, p2}
  p1 = p1
  p2 = p2
  Event = {e1}
  e1 = e1
  MaxSize = 1
  Readers = 1
  Py313 = TRUE
  Cancellable = {}
  LateTap = FALSE

INVARIANTS
  NoTapOutlivesItsQueue
PROPERTIES
  ClosedQueueNeverGrows
  GracefulCloseDrains
  ClosesReturn

\* Callers need not call again, so the system may come to rest; coming to rest
\* inside a close is what ClosesReturn excludes.
CHECK_DEADLOCK FALSE
