SPECIFICATION PushSpec

CONSTANTS
  c1 = c1
  Caller = {c1}
  Given <- MCGiven
  Stores = {"memory"}
  Modes = {"send", "stream"}
  MaxEvents = 2
  MaxCalls = 0
  MaxLost = 0
  MaxFaults = 1

PROPERTIES
  UpdatesAreTold
  CleanupIsNoMatter
  EndIsStored

\* The agent ends and the clients need not call.
CHECK_DEADLOCK FALSE
