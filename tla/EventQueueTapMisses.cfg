SPECIFICATION OrderSpec

CONSTANTS
  Queue = {q1, q2, q3}
  q1 = q1
  q2 = q2
  q3 = q3
  Proc = {p1, p2}
  p1 = p1
  p2 = p2
  Event <- MCEvent
  MaxEvents = 1
  MaxSize = 1
  Readers = 1
  Py313 = TRUE
  Cancellable = {}
  LateTap = FALSE

SYMMETRY Symmetry

INVARIANTS
  TapSeesAll
