\* A failed seeding and a lost commit, and what must happen in the end under
\* the restart policy and outages that end.
SPECIFICATION FairSpec
CONSTANTS
  Equipment = {e1}
  Metric = {"temperature"}
  VarianceVars = {}
  MaxSeedFailures = 1
  MaxLostCommits = 1
INVARIANTS
  DuplicatesBounded
PROPERTIES
  PersistentFaultRaised
  NormalEndsAlarm
  AnomalyFollowsVerdict
