SPECIFICATION FairSpec
CONSTANTS
  MaxVersion = 2
  MaxInFlight = 3
  MaxPending = 2
INVARIANTS
  SnapshotsWhole
PROPERTIES
  ViewMovesForward
  ViewCatchesUp
  WindowCloses
CHECK_DEADLOCK FALSE
