SPECIFICATION LifeSpec

CONSTANTS
  s1 = s1
  s2 = s2
  Stopper = {s1, s2}
  Uses = {"run"}
  MaxStarts = 1
  MaxErrors = 1
  ClosesFail = FALSE

INVARIANTS
  RunClosesAll

\* An end that was stopped need not be started again.
CHECK_DEADLOCK FALSE
