\* The same instance; what the comments of the fitting code say of fresh models.
SPECIFICATION FairSpec
CONSTANTS
  e1 = e1
  e2 = e2
  demo = demo
  etching = etching
  Equipment = {e1, e2, demo}
  Process = {etching}
  TypeOf <- OneType
  Realfire = {demo}
  MinTrain = 2
  MinCalibration = 2
  Enough = 2
  Stale = 0
  MaxFits = 3
  MaxRepaired = 1
  MaxRuns = 1
  MaxFailures = 1
CHECK_DEADLOCK FALSE
PROPERTY
  FreshNotRefitted
