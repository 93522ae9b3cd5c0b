\* A log deleted while it is being completed.
SPECIFICATION Spec
CONSTANTS
  Log = {l1}
  Equipment = {e1}
  Faulty = {}
  HealWindow = 1
  MaxTime = 1
  MaxRequests = 1
  MaxLostCommits = 0
INVARIANTS
  CompletedAndStored
