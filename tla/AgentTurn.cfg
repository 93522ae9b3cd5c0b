\* The limit leaves an orchestrated turn just enough room; the legacy path hits it.
SPECIFICATION FairSpec
CONSTANTS
  Worker = {"data_analysis", "knowledge"}
  Sig = {"sensors", "manual"}
  Served <- ServedByOne
  Builds <- SomeBuilds
  RoundsMax = 2
  MaxSteps = 2
  RecursionLimit = 10
  MaxCalls = 2
  MaxPieces = 1
INVARIANTS
  TurnSound
PROPERTIES
  ImplementsStream
  Terminates
\* The turn ends.
CHECK_DEADLOCK FALSE
