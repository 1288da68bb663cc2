SPECIFICATION PushSpec

CONSTANTS
  c1 = c1
  c2 = c2
  Caller = {c1, c2}
  Given <- MCGiven
  Stores = {"memory", "database"}
  Modes = {"send", "stream"}
  MaxEvents = 2
  MaxCalls = 2
  MaxLost = 1
  MaxFaults = 1

INVARIANTS
  NotifiedInOrder
  NotifiedIsSaved

PROPERTIES
  EndIsTold
  IsConfigStore

\* The agent ends and the clients need not call.
CHECK_DEADLOCK FALSE
