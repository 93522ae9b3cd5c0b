\* A restart whose seeding query fails.
SPECIFICATION Spec
CONSTANTS
  Equipment = {e1}
  Metric = {"temperature"}
  VarianceVars = {}
  MaxSeedFailures = 1
  MaxLostCommits = 0
INVARIANT
  NoDuplicateAfterRestart
