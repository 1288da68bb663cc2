SPECIFICATION TaskSpec

CONSTANTS
  Stores = {"memory", "database"}
  ArtifactIds = {a1}
  MaxEarlier = 1
  MaxEvents = 2
  MaxTapped = 2

INVARIANTS
  AppliedOnce
  DisconnectPersists
  ClientHasArtifacts

\* Run with -continue: each invariant has a counterexample of its own.
CHECK_DEADLOCK FALSE
