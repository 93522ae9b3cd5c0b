\* One faulty equipment, one work log, two requests; the clock runs past the
\* heal window of a repair made at its first moment.
SPECIFICATION FairSpec
CONSTANTS
  Log = {l1}
  Equipment = {e1}
  Faulty = {e1}
  HealWindow = 2
  MaxTime = 3
  MaxRequests = 2
  MaxLostCommits = 1
INVARIANTS
  LateFaultsBounded
  RepairsMatchCompletions
PROPERTIES
  StateFollowsWindow
