\* One process type whose model the loop and the command fit at the same time:
\* a first fit, one that replaces it while the scorer reads, and one more; an
\* equipment is repaired between, and one fit fails.  The bounds of fits and
\* telemetry let the system stop.
SPECIFICATION FairSpec
CONSTANTS
  e1 = e1
  e2 = e2
  demo = demo
  etching = etching
  Equipment = {e1, e2, demo}
  Process = {etching}
  TypeOf <- OneType
  Realfire = {demo}
  MinTrain = 2
  MinCalibration = 2
  Enough = 2
  Stale = 0
  MaxFits = 3
  MaxRepaired = 1
  MaxRuns = 1
  MaxFailures = 1
CHECK_DEADLOCK FALSE
INVARIANTS
  TornOnlyByCommit
  RepairRespected
PROPERTIES
  StaleRefitted
