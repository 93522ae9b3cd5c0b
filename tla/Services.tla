------------------------------ MODULE Services ------------------------------
(***************************************************************************)
(* The services that share no state with each other: `subject` names the   *)
(* one a behaviour is about.                                               *)
(* AuthSession is extended, every other module is an instance.  As a       *)
(* behaviour has one subject, services share the variables for which they  *)
(* use one name.  A property speaks of its own subject.                    *)
(***************************************************************************)
EXTENDS AuthSession

CONSTANTS
  \* StatusView
  View, AlarmCode, Critical, NoCode, Anomaly,
  \* AuditTrail
  Event, Indexes, AuditTtl, AuditListed, AuditTime,
  \* UserLines
  Change, LineCode, MaxLines,
  \* KnowledgeStore
  Doc, Tagged, Empty, Chunks, TopK, MaxVersion, MaxRuns, MaxQueries,
  \* IncidentPlan
  Near, Past, Occurred, BaselineLimit, PlanTime, PlanRows,
  \* Suggestions
  Question, Equipment, Global, WindowTtl, MaxSpan, WindowTime, MaxShown,
  \* NotificationSchema
  NoticeKind, Metric, NoMetric, User, SchemaTime, SchemaRows,
  \* SigningKeys
  SignIn, SigningKey, KeyTtl, KeyTime,
  \* TableFormat
  TableLines,
  \* SensorLogs
  SensorEquipment, SensorLine, Interval, SensorRows, SeriesWindow, SensorTables, Horizon,
  \* EventPages
  PageCode, SummaryWindow, MaxPage, PageTime, PageRows,
  \* ScoreFusion
  FusionChunk, FusionScore, ScoreUnit,
  \* Detector
  RawScore, MaxWindows, Threshold, Settle, Clip, EwmaLimit, ConfirmWindows, Unit,
  Window, Stride,
  \* AlarmIntervals, besides Metric
  Suppressed, Bearer, Ticks, Days,
  \* Evaluation
  EvalTicks, EvalConfirm, AnomalyKind, Grace, EvalBucket, Settings, Budget

VARIABLES
  subject,
  \* of several
  tick, code, seen, time, rows, todo, index, phase, inserted, stored,
  \* StatusView
  anomaly, step,
  \* AuditTrail
  rowSeq, redisSeq, id, stamp, log, sorted, ends, stream, listing, lapsed,
  \* UserLines
  lastId, assigned, job, removed, beside, newest, overlap,
  \* KnowledgeStore
  file, loads, command, manifest, runs, query, found, since, queries,
  \* IncidentPlan
  setup, incident, baseline, manuals, warnings, plan,
  \* Suggestions
  data, cache, call, shown, past,
  \* NotificationSchema
  version, flag, reads, users, wasRead, onceRead,
  \* SigningKeys
  published, publishedAt, metadata, jwks, token, asked, got,
  \* TableFormat
  text, fed, begun, held, inTable, out, flushed,
  \* SensorLogs
  request, stage, answer,
  \* EventPages
  limit, wanted, summary, before, expected, delivered, last,
  \* ScoreFusion
  dense, sparse, alpha, topK, fused,
  \* Detector
  ticks, raw, second, fired,
  \* AlarmIntervals
  prev, prevComposite, active, alarms, shadow, report, totals, series,
  \* Evaluation
  events, sweep, detections, chosen

Status == INSTANCE StatusView WITH Code <- AlarmCode
Audit == INSTANCE AuditTrail WITH
  Ttl <- AuditTtl, Limit <- AuditListed, MaxTime <- AuditTime, now <- time, dies <- ends
Lines == INSTANCE UserLines WITH
  Request <- Change, Code <- LineCode, pc <- phase
Knowledge == INSTANCE KnowledgeStore
Plan == INSTANCE IncidentPlan WITH
  MaxTime <- PlanTime, MaxRows <- PlanRows, pc <- phase
Suggest == INSTANCE Suggestions WITH
  Request <- Question, Ttl <- WindowTtl, MaxTime <- WindowTime, now <- time
Schema == INSTANCE NotificationSchema WITH
  Kind <- NoticeKind, MaxTime <- SchemaTime, MaxRows <- SchemaRows
Keys == INSTANCE SigningKeys WITH
  Request <- SignIn, Key <- SigningKey, Ttl <- KeyTtl, MaxTime <- KeyTime, now <- time, pc <- phase
Table == INSTANCE TableFormat WITH MaxLines <- TableLines
Sensor == INSTANCE SensorLogs WITH
  Equipment <- SensorEquipment, Line <- SensorLine, MaxRows <- SensorRows,
  Window <- SeriesWindow, Tables <- SensorTables
Pages == INSTANCE EventPages WITH
  Code <- PageCode, Window <- SummaryWindow, MaxTime <- PageTime, MaxRows <- PageRows
Fusion == INSTANCE ScoreFusion WITH
  Chunk <- FusionChunk, MaxScore <- FusionScore, Unit <- ScoreUnit
Verdict == INSTANCE Detector WITH
  MaxScore <- RawScore, Limit <- EwmaLimit, Confirm <- ConfirmWindows
Intervals == INSTANCE AlarmIntervals
Sweep == INSTANCE Evaluation WITH
  Ticks <- EvalTicks, Confirm <- EvalConfirm, Kind <- AnomalyKind,
  Bucket <- EvalBucket

\* What the modules assume of their constants.
ASSUME ServicesAssumption ==
  /\ Status!StatusAssumption
  /\ Audit!AuditAssumption
  /\ Lines!LinesAssumption
  /\ Knowledge!KnowledgeAssumption
  /\ Plan!IncidentAssumption
  /\ Suggest!SuggestAssumption
  /\ Schema!SchemaAssumption
  /\ Keys!KeysAssumption
  /\ Table!TableAssumption
  /\ Sensor!SensorAssumption
  /\ Pages!PagesAssumption
  /\ Fusion!FusionAssumption
  /\ Verdict!DetectorAssumption
  /\ Intervals!IntervalAssumption
  /\ Sweep!EvaluationAssumption

-----------------------------------------------------------------------------
statusLinesVars == <<code, seen>>
auditKnowledgeVars == <<todo, index>>
statusVars == <<anomaly, step>>
auditVars == <<rowSeq, redisSeq, id, stamp, log, sorted, ends, stream,
  listing, lapsed>>
linesVars == <<lastId, assigned, job, removed, beside, newest, overlap>>
knowledgeVars == <<file, loads, command, manifest, runs, query, found, since,
  queries>>
planVars == <<setup, incident, baseline, manuals, warnings, plan>>
suggestVars == <<data, cache, call, shown, past>>
schemaVars == <<version, flag, reads, users, wasRead, onceRead>>
keysVars == <<published, publishedAt, metadata, jwks, token, asked, got>>
tableVars == <<text, fed, begun, held, inTable, out, flushed>>
sensorVars == <<request, stage, answer>>
pagesVars == <<limit, wanted, summary, before, expected, delivered, last>>
fusionVars == <<dense, sparse, alpha, topK, fused>>
detectorVars == <<ticks, raw, second, fired>>
intervalsVars == <<prev, prevComposite, active, alarms, shadow, report,
  totals, series>>
evaluationVars == <<events, sweep, detections, chosen>>
servicesVars ==
  <<vars, subject, tick, statusLinesVars, time, rows, auditKnowledgeVars,
    phase, inserted, stored, statusVars, auditVars, linesVars, knowledgeVars,
    planVars, suggestVars, schemaVars, keysVars, tableVars, sensorVars,
    pagesVars, fusionVars, detectorVars, intervalsVars, evaluationVars>>

\* The variables a subject does not have: those of AuthSession stay where they
\* start, the others are 0.
Unused ==
  /\ IF subject = "auth" THEN TRUE ELSE Init /\ account = FALSE
  /\ IF subject \in {"status", "intervals"} THEN TRUE
     ELSE tick = 0
  /\ IF subject \in {"status", "lines"} THEN TRUE
     ELSE code = 0 /\ seen = 0
  /\ IF subject \in {"audit", "suggest", "keys"} THEN TRUE
     ELSE time = 0
  /\ IF subject \in {"audit", "plan", "schema", "pages"} THEN TRUE
     ELSE rows = 0
  /\ IF subject \in {"audit", "knowledge"} THEN TRUE
     ELSE todo = 0 /\ index = 0
  /\ IF subject \in {"lines", "plan", "keys"} THEN TRUE
     ELSE phase = 0
  /\ IF subject \in {"lines", "schema"} THEN TRUE
     ELSE inserted = 0
  /\ IF subject \in {"knowledge", "sensor"} THEN TRUE
     ELSE stored = 0
  /\ IF subject = "status" THEN TRUE
     ELSE anomaly = 0 /\ step = 0
  /\ IF subject = "audit" THEN TRUE
     ELSE rowSeq = 0 /\ redisSeq = 0 /\ id = 0 /\ stamp = 0 /\ log = 0
          /\ sorted = 0 /\ ends = 0 /\ stream = 0 /\ listing = 0
          /\ lapsed = 0
  /\ IF subject = "lines" THEN TRUE
     ELSE lastId = 0 /\ assigned = 0 /\ job = 0 /\ removed = 0
          /\ beside = 0 /\ newest = 0 /\ overlap = 0
  /\ IF subject = "knowledge" THEN TRUE
     ELSE file = 0 /\ loads = 0 /\ command = 0 /\ manifest = 0 /\ runs = 0
          /\ query = 0 /\ found = 0 /\ since = 0 /\ queries = 0
  /\ IF subject = "plan" THEN TRUE
     ELSE setup = 0 /\ incident = 0 /\ baseline = 0 /\ manuals = 0
          /\ warnings = 0 /\ plan = 0
  /\ IF subject = "suggest" THEN TRUE
     ELSE data = 0 /\ cache = 0 /\ call = 0 /\ shown = 0 /\ past = 0
  /\ IF subject = "schema" THEN TRUE
     ELSE version = 0 /\ flag = 0 /\ reads = 0 /\ users = 0 /\ wasRead = 0
          /\ onceRead = 0
  /\ IF subject = "keys" THEN TRUE
     ELSE published = 0 /\ publishedAt = 0 /\ metadata = 0 /\ jwks = 0
          /\ token = 0 /\ asked = 0 /\ got = 0
  /\ IF subject = "table" THEN TRUE
     ELSE text = 0 /\ fed = 0 /\ begun = 0 /\ held = 0 /\ inTable = 0
          /\ out = 0 /\ flushed = 0
  /\ IF subject = "sensor" THEN TRUE
     ELSE request = 0 /\ stage = 0 /\ answer = 0
  /\ IF subject = "pages" THEN TRUE
     ELSE limit = 0 /\ wanted = 0 /\ summary = 0 /\ before = 0
          /\ expected = 0 /\ delivered = 0 /\ last = 0
  /\ IF subject = "fusion" THEN TRUE
     ELSE dense = 0 /\ sparse = 0 /\ alpha = 0 /\ topK = 0 /\ fused = 0
  /\ IF subject = "detector" THEN TRUE
     ELSE ticks = 0 /\ raw = 0 /\ second = 0 /\ fired = 0
  /\ IF subject = "intervals" THEN TRUE
     ELSE prev = 0 /\ prevComposite = 0 /\ active = 0 /\ alarms = 0
          /\ shadow = 0 /\ report = 0 /\ totals = 0 /\ series = 0
  /\ IF subject = "evaluation" THEN TRUE
     ELSE events = 0 /\ sweep = 0 /\ detections = 0 /\ chosen = 0

Kept ==
  /\ subject' = subject
  /\ IF subject = "auth" THEN TRUE ELSE UNCHANGED vars
  /\ IF subject \in {"status", "intervals"} THEN TRUE ELSE UNCHANGED tick
  /\ IF subject \in {"status", "lines"} THEN TRUE ELSE UNCHANGED statusLinesVars
  /\ IF subject \in {"audit", "suggest", "keys"} THEN TRUE ELSE UNCHANGED time
  /\ IF subject \in {"audit", "plan", "schema", "pages"} THEN TRUE ELSE UNCHANGED rows
  /\ IF subject \in {"audit", "knowledge"} THEN TRUE ELSE UNCHANGED auditKnowledgeVars
  /\ IF subject \in {"lines", "plan", "keys"} THEN TRUE ELSE UNCHANGED phase
  /\ IF subject \in {"lines", "schema"} THEN TRUE ELSE UNCHANGED inserted
  /\ IF subject \in {"knowledge", "sensor"} THEN TRUE ELSE UNCHANGED stored
  /\ IF subject = "status" THEN TRUE ELSE UNCHANGED statusVars
  /\ IF subject = "audit" THEN TRUE ELSE UNCHANGED auditVars
  /\ IF subject = "lines" THEN TRUE ELSE UNCHANGED linesVars
  /\ IF subject = "knowledge" THEN TRUE ELSE UNCHANGED knowledgeVars
  /\ IF subject = "plan" THEN TRUE ELSE UNCHANGED planVars
  /\ IF subject = "suggest" THEN TRUE ELSE UNCHANGED suggestVars
  /\ IF subject = "schema" THEN TRUE ELSE UNCHANGED schemaVars
  /\ IF subject = "keys" THEN TRUE ELSE UNCHANGED keysVars
  /\ IF subject = "table" THEN TRUE ELSE UNCHANGED tableVars
  /\ IF subject = "sensor" THEN TRUE ELSE UNCHANGED sensorVars
  /\ IF subject = "pages" THEN TRUE ELSE UNCHANGED pagesVars
  /\ IF subject = "fusion" THEN TRUE ELSE UNCHANGED fusionVars
  /\ IF subject = "detector" THEN TRUE ELSE UNCHANGED detectorVars
  /\ IF subject = "intervals" THEN TRUE ELSE UNCHANGED intervalsVars
  /\ IF subject = "evaluation" THEN TRUE ELSE UNCHANGED evaluationVars

ServicesInit ==
  \/ subject = "auth" /\ Init /\ Unused
  \/ subject = "status" /\ Status!Init /\ Unused
  \/ subject = "audit" /\ Audit!Init /\ Unused
  \/ subject = "lines" /\ Lines!Init /\ Unused
  \/ subject = "knowledge" /\ Knowledge!Init /\ Unused
  \/ subject = "plan" /\ Plan!Init /\ Unused
  \/ subject = "suggest" /\ Suggest!Init /\ Unused
  \/ subject = "schema" /\ Schema!Init /\ Unused
  \/ subject = "keys" /\ Keys!Init /\ Unused
  \/ subject = "table" /\ Table!Init /\ Unused
  \/ subject = "sensor" /\ Sensor!Init /\ Unused
  \/ subject = "pages" /\ Pages!Init /\ Unused
  \/ subject = "fusion" /\ Fusion!Init /\ Unused
  \/ subject = "detector" /\ Verdict!Init /\ Unused
  \/ subject = "intervals" /\ Intervals!Init /\ Unused
  \/ subject = "evaluation" /\ Sweep!Init /\ Unused

AuthNext == subject = "auth" /\ Next /\ Kept
StatusNext == subject = "status" /\ Status!Next /\ Kept
AuditNext == subject = "audit" /\ Audit!Next /\ Kept
LinesNext == subject = "lines" /\ Lines!Next /\ Kept
KnowledgeNext == subject = "knowledge" /\ Knowledge!Next /\ Kept
PlanNext == subject = "plan" /\ Plan!Next /\ Kept
SuggestNext == subject = "suggest" /\ Suggest!Next /\ Kept
SchemaNext == subject = "schema" /\ Schema!Next /\ Kept
KeysNext == subject = "keys" /\ Keys!Next /\ Kept
TableNext == subject = "table" /\ Table!Next /\ Kept
SensorNext == subject = "sensor" /\ Sensor!Next /\ Kept
PagesNext == subject = "pages" /\ Pages!Next /\ Kept
FusionNext == subject = "fusion" /\ Fusion!Next /\ Kept
VerdictNext == subject = "detector" /\ Verdict!Next /\ Kept
IntervalsNext == subject = "intervals" /\ Intervals!Next /\ Kept
SweepNext == subject = "evaluation" /\ Sweep!Next /\ Kept

ServicesNext ==
  \/ AuthNext
  \/ StatusNext
  \/ AuditNext
  \/ LinesNext
  \/ KnowledgeNext
  \/ PlanNext
  \/ SuggestNext
  \/ SchemaNext
  \/ KeysNext
  \/ TableNext
  \/ SensorNext
  \/ PagesNext
  \/ FusionNext
  \/ VerdictNext
  \/ IntervalsNext
  \/ SweepNext

ServicesSpec == ServicesInit /\ [][ServicesNext]_servicesVars

-----------------------------------------------------------------------------
-----------------------------------------------------------------------------
\* The status shown is no better than the best and no worse than the worst of
\* the moments of the request.  Only when the two alarms took turns while it was
\* read, the anomaly ending and the rules' code coming between the two reads,
\* an equipment that was never without alarm is shown normal; and the code
\* shown stood at some moment (service.py:76-82, 165-171).
StatusHonest == subject = "status" => Status!StatusHonest

\* An event whose copy is complete is found by every index, with its own fields,
\* until its time is over, whatever listings, other events and deadlines do
\* meanwhile.  Two things can undo it: another event with its id, which takes
\* a failure of the database for one of the two, and a sorted set whose deadline
\* comes between ZADD and EXPIRE (middleware.py:253-281, redis_store.py:190-222).
AuditKept == subject = "audit" => Audit!AuditKept

\* The user has the lines of the assignment committed last that still exist,
\* and beyond these only lines that an assignment committed since its DELETE
\* began asked for.  Its DELETE does not find the rows of that one, not even
\* those that replace rows it found: when the two share a line its INSERT fails
\* on the unique pair, and else they add up to the union of both, which
\* replaces nothing; but no older line comes back (admin/repository.py:157-162).
\* No line is assigned that does not exist, and no two lines have one code,
\* whatever the checks read.
WholeAssignment == subject = "lines" => Lines!WholeAssignment

\* Whenever a search reads and wherever the command stops, a manual is stored
\* whole and in one version (pgvector.py:36-48); after a run that ended well
\* only manuals of its manifest are stored, unless that was empty (:65-78).
\* What a search finds was stored at some time since the server started: the
\* lexical index may quote a version that is gone, but none from before
\* (lexical.py:89-134).
KnowledgeWhole == subject = "knowledge" => Knowledge!KnowledgeWhole

\* The answer tells what it lacks: a checklist comes with exactly one reason, a
\* plan of the model rests on manuals and on none of the search's failures; a
\* change is reported only against normal rows from before the alarm, and no
\* warning means that a row of the incident and a baseline were found, whatever
\* arrived between the reads (incident/service.py:258-305).
PlanExplained == subject = "plan" => Plan!PlanExplained

\* The window a question is judged by is one its equipment really had, or
\* could not be told, no longer before it was asked for than the cache may keep
\* it: queries that answer late do not make it older (retention.py:86-109).
WindowRecent == subject = "suggest" => Suggest!WindowRecent

\* Through any upgrades and downgrades with work between them: no two rows are
\* in each other's way; an alarm that was notified keeps a notification of its
\* hour that is not later; whoever read a row that is still there sees it as
\* read until it is marked unread, by him or, under the flag, by anybody; and a
\* row is shown read only if somebody did read it once (alembic 0012:32-47,
\* 0022:35, 0028:53-62, 72-78; notification/repository.py:228-270).
HistorySurvives == subject = "schema" => Schema!HistorySurvives

\* A token is refused for an unknown key only while the key is younger than the
\* life of the cache, or withdrawn: however late an answer arrives and whichever
\* of two overwrites the other (auth/middleware.py:64-124).
KnownAfterTtl == [][subject = "keys" => Keys!RefusedInTime]_servicesVars

\* However the tokens are cut, what was emitted is a beginning of the answer
\* formatted as a whole, at most one complete line behind what has arrived, and
\* all of it once flush was called (table_format.py:62-109): no table changes
\* its form with the cut of the tokens and no line is lost or doubled.
TablesAsWhole == subject = "table" => Table!TablesAsWhole

\* When the limit is two rows or more for each equipment, rows spaced by the
\* sampling interval or more are all in the answer, alone or in the average of
\* a bucket, up to one old row per equipment: the estimate does not count the
\* row at the start, so as many rows as the limit allows plus one may be taken
\* for raw ones (repository.py:155-183).  The answer keeps the limit, is in
\* order of time, and a series without an end reaches the newest row there was
\* when it was asked for.
WholeRange == subject = "sensor" => Sensor!WholeRange

\* Whatever commits between the pages, with equal times and late: nothing is
\* shown twice or out of order; a page that says there is more is full and is
\* followed by at least one item; and at the end every row that was there at
\* the first page was shown.  A summary counts the latest rows alone: all of a
\* table that fits, and a full window of any other
\* (telemetry/service.py:248-258, mcp_maintenance/server.py:64-103).
PagesComplete == subject = "pages" => Pages!PagesComplete

\* A chunk that beats another in a list that has weight, and is not behind it
\* in the other list, is never displaced by it, not even by the cut, and no
\* chunk is returned twice.  With all weight on the lexical search its
\* candidates come exactly in its order.  With all weight on the dense search
\* its candidates come in the order of their scores, but not exactly in its own:
\* of equal scores those the lexical search found too come first, as by_key
\* holds these first and sorted() is stable (rag/fusion.py:1-15, 37-64).
FusionFaithful == subject = "fusion" => Fusion!FusionFaithful

\* A transition never fires by itself: when no window outside the mask, on
\* either path, is over the limit, the verdict is quiet, whatever the values of
\* the transition are (scoring.py:56-94); and a verdict rests on a window that
\* ends within a stride of the newest tick (windowing.py:11-31).
TransitionQuiet == subject = "detector" => Verdict!TransitionQuiet

\* The rows are the runs of equal codes of the series: each as long as it can
\* be, the last open; an alarm that persists counts once in the totals, by code
\* and by sensor; and an event the report counts as the detector's alone met no
\* alarm, except one raised before the days it looks at (seed_data.py:168-223,
\* repository.py:213-254, shadow_report.py:49-87).
IntervalsAreRuns == subject = "intervals" => Intervals!IntervalsAreRuns

\* The deduplicated false alarms stand for notifications: whenever the segment
\* began, their number is within a factor of two of the clock's buckets, as a
\* bucket of one kind meets at most two of the other.  So the chosen setting
\* comes to at most twice the budget in notifications when any setting keeps
\* it, and none that keeps it detects more events or as many sooner; when none
\* does, none has fewer false alarms (evaluation.py:77-90, 186-206).
BudgetBoundsNotices == subject = "evaluation" => Sweep!BudgetBoundsNotices

=============================================================================
