SPECIFICATION LifeSpec

CONSTANTS
  s1 = s1
  s2 = s2
  Stopper = {s1, s2}
  Uses = {"client", "server", "run"}
  MaxStarts = 3
  MaxErrors = 2
  ClosesFail = TRUE

INVARIANTS
  StopIsFinal

PROPERTIES
  NoLimbo

\* An end that was stopped need not be started again.
CHECK_DEADLOCK FALSE
