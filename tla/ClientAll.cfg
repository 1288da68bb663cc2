SPECIFICATION SessionSpec

CONSTANTS
  None = None
  String <- MCString
  p1 = p1
  p2 = p2
  Caller = {p1, p2}
  Sessions <- MCSessions
  Sends <- MCSends
  Events <- MCEvents
  MaxEvents = 4
  MaxAsked = 4

INVARIANTS
  NegotiationBest
  NeverAnOldCard
  ViewIsWhatIsPolled
  MeaningKept

\* A session ends with the bound on its events or calls.
CHECK_DEADLOCK FALSE
