SPECIFICATION SessionSpec

CONSTANTS
  None = None
  String <- MCString
  p1 = p1
  p2 = p2
  Caller = {p1, p2}
  Sessions <- MCSessions
  Sends <- MCSends
  Events <- MCEvents
  MaxEvents = 4
  MaxAsked = 4

INVARIANTS
  RejectionIsSeen
  SignaturesVerify
  TimesKept
  ReferencesKept
  EveryMessageIsKept
  StreamsAreRead

\* Run with -continue: each invariant has a counterexample of its own.

\* A session ends with the bound on its events or calls.
CHECK_DEADLOCK FALSE
