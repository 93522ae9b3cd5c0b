\* The lookback spans more than one bucket and the clock more than the lookback.
SPECIFICATION FairSpec
CONSTANTS
  Alarm = {a1, a2}
  Lookback = 2
  BucketWidth = 2
  MaxLag = 1
  MaxTime = 4
  MaxRows = 3
INVARIANTS
  SyncComplete
PROPERTIES
  ImplementsLog
  EveryRowNotified
