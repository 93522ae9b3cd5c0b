\* Four requests: two callbacks, a refresh and a logout of one session; the
\* clock passes the life of a session stored at any of the first moments.  A
\* service may stop: its requests and its clock are bounded.
SPECIFICATION ServicesSpec
CONSTANTS
  \* AuthSession
  Request = {r1, r2, r3, r4}
  NoSession = NoSession
  Ttl = 2
  StateTtl = 1
  MaxTime = 4
  \* StatusView
  View = {"v1"}
  AlarmCode = {"crit", "warn"}
  Critical = {"crit"}
  NoCode = "none"
  Anomaly = "anomaly"
  \* AuditTrail
  Event = {"e1", "e2"}
  Indexes = 1
  AuditTtl = 2
  AuditListed = 1
  AuditTime = 3
  \* UserLines
  Change = {"r1", "r2"}
  LineCode = {"c1", "c2"}
  MaxLines = 3
  \* KnowledgeStore
  Doc = {"d1", "d2"}
  Tagged = {"d1"}
  Empty = {3}
  Chunks = 2
  TopK = 1
  MaxVersion = 3
  MaxRuns = 2
  MaxQueries = 1
  \* IncidentPlan
  Near = 1
  Past = 2
  Occurred = 2
  PlanTime = 3
  PlanRows = 2
  BaselineLimit = 1
  \* Suggestions
  Question = {"r1"}
  Equipment = {"e1"}
  Global = "all"
  WindowTtl = 1
  MaxSpan = 1
  WindowTime = 3
  MaxShown = 1
  \* NotificationSchema
  NoticeKind = {"k1"}
  Metric = {"m1", "m2"}
  NoMetric = "none"
  User = {"u1", "u2"}
  SchemaTime = 4
  SchemaRows = 2
  \* SigningKeys
  SignIn = {"r1", "r2"}
  SigningKey = {"k1", "k2"}
  KeyTtl = 2
  KeyTime = 2
  \* TableFormat
  TableLines = 5
  \* SensorLogs
  SensorEquipment = {"e1", "e2"}
  SensorLine = {"e1", "e2"}
  Interval = 2
  SensorRows = 4
  SeriesWindow = 5
  SensorTables <- MCTables
  Horizon = 10
  \* EventPages
  PageCode = {"c1", "c2"}
  SummaryWindow = 2
  MaxPage = 2
  PageTime = 1
  PageRows = 4
  \* ScoreFusion
  FusionChunk = {1, 2, 3}
  FusionScore = 2
  ScoreUnit = 4
  \* Detector
  RawScore = 2
  MaxWindows = 4
  Threshold = 2
  Settle = 1
  Clip = 1
  EwmaLimit = 0
  ConfirmWindows = 2
  Unit = 16
  Window = 2
  Stride = 2
  \* AlarmIntervals
  Suppressed = {"m1", "m2"}
  Bearer = "m1"
  Ticks = 3
  Days = 1
  \* Evaluation
  EvalTicks = 5
  EvalConfirm = 1
  AnomalyKind = {"acute", "drift"}
  Grace <- MCGrace
  EvalBucket = 2
  Settings = 2
  Budget = 1
SYMMETRY Symmetry
CHECK_DEADLOCK FALSE
INVARIANTS
  SessionEnds
  TablesAsWhole
  WholeRange
  PagesComplete
  WholeAssignment
  FusionFaithful
  KnowledgeWhole
  PlanExplained
  TransitionQuiet
  StatusHonest
  AuditKept
  WindowRecent
  HistorySurvives
  IntervalsAreRuns
  
PROPERTIES
  StateUsedOnce
  KnownAfterTtl
