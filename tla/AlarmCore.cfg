\* One equipment, the two variables of the composite rule, every surfaced
\* combination.
SPECIFICATION Spec
CONSTANTS
  Equipment = {e1}
  Metric = {"temperature", "pressure"}
  VarianceVars = {}
  MaxSeedFailures = 0
  MaxLostCommits = 0
INVARIANTS
  JournalSound
PROPERTIES
  MutedOnlyByHand
