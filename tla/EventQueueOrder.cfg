SPECIFICATION OrderSpec

CONSTANTS
  Queue = {q1, q2}
  q1 = q1
  q2 = q2
  Proc = {p1, p2}
  p1 = p1
  p2 = p2
  Event <- MCEvent
  MaxEvents = 2
  MaxSize = 1
  Readers = 1
  Py313 = FALSE
  Cancellable = {p1, p2}
  LateTap = TRUE

SYMMETRY Symmetry

INVARIANTS
  QueueTypeOK
  UnfinishedExact
  WithinCapacity
  TapSeesAll

PROPERTIES
  IsBroadcast
