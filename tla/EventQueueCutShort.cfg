SPECIFICATION QueueSpec

CONSTANTS
  Queue = {q1, q2}
  q1 = q1
  q2 = q2
  Proc = {p1, p2}
  p1 = p1
  p2 = p2
  Event = {e1}
  e1 = e1
  MaxSize = 1
  Readers = 1
  Py313 = TRUE
  Cancellable = {p1, p2}
  LateTap = FALSE

INVARIANTS
  NoTapOutlivesItsQueue
