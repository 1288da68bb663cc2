SPECIFICATION TaskSpec
CONSTANTS
  Stores = {"memory", "database"}
  ArtifactIds = {a1, a2}
  MaxEarlier = 1
  MaxEvents = 3
  MaxTapped = 2
INVARIANTS
  StoredIsLog
  ClientAgrees
  ClientKeepsMessages
  TerminalIsLast
PROPERTIES
  TerminalIsStored
CHECK_DEADLOCK FALSE
