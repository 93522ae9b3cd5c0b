# Agentory: a TLA+ model

Agentory watches the equipment of a semiconductor line, raises alarms, notifies
the engineers assigned to a line, and answers their questions with a language
model that calls tools. This directory holds TLA+ modules for the parts of it
whose correctness depends on order, concurrency, failure or the edges of a
range, the TLC configurations that check them, and TLAPS proofs of what matters
most.

Paths are relative to the repository; `modules/` is
`src/agentory/modules/`, `simulator/` is `src/simulator/`.

## 1. The system

One API process (FastAPI, asyncio) and one simulator process share a PostgreSQL
database; the API keeps login sessions in Redis and talks to an identity
provider, to a language model and to three MCP tool servers. The simulator
container restarts by itself.

| component | state | operations | talks to |
| --- | --- | --- | --- |
| alarm rules, `simulator/generator.py` | none | judge the variables of a reading, join the composite fault | called every tick |
| simulator, `simulator/main.py` | `active_alarms` in memory, recent readings | seed from the journal, tick, persist with a retry | journal, telemetry, `repaired_at` |
| alarm journal, table `equipment_alarms` | open and closed rows | raise, clear | written by simulator, scorer, endpoint |
| anomaly scorer, `modules/watcher/anomaly_*.py`, `detector.py` | none between cycles | read active sets, score, raise or clear WRN-901 in the real or the shadow journal | journal, fitted models |
| refit, `modules/watcher/fit.py`, `refit_worker.py` | models, limits per equipment | fit what is stale | read by the scorer |
| shadow report, `modules/watcher/shadow_report.py` | none | compare shadow events with rule alarms | both journals |
| telemetry, `modules/telemetry` | latch `alarm_cleared_at` | clear an alarm, status, series, alarm pages | journal, ticks |
| notification sync, `modules/watcher/sync_worker.py` | none between cycles | group recent rows into buckets, insert what is new | journal, notifications |
| notification inbox and stream, `modules/notification` | notifications, read markers, per-connection cursor | list, mark, stream | users' lines |
| work logs and repairs, `modules/worklog`, `modules/admin` | logs, repair history, latches on the equipment | create, complete, delete, repair | simulator (heal window), telemetry |
| lines and assignments, `modules/admin` | lines, `user_lines` | create, change, delete a line; replace a user's lines | scope of the notifications |
| chat, `modules/chat` | sessions, messages | query, stream, list, delete | agent |
| agent, `modules/agent` | one cached graph per process; the state of a turn; cached data windows | route, plan, fetch, answer, suggest | model, tools, client stream |
| authentication, `modules/auth` | Redis sessions, login states, cached keys, audit trail | log in, refresh, log out, audit | identity provider |
| incident plan, `modules/incident` | none | read context, search, ask the model, warn | telemetry, manuals |
| retrieval, `modules/rag` | chunks of the manuals, a lexical index in memory | ingest, prune, search, fuse | knowledge server |
| MCP servers, `src/mcp_*` | none (the lexical index above) | tools | database, API |
| offline: evaluation, migrations, seed data | files, schema | sweep a detector, migrate, replay a series | |

What is hard in it:

* **Several writers of one journal.** The simulator closes rows by variable, the
  scorer by code, the endpoint by equipment; none of them locks, each decides
  from something it read earlier (memory, an active set, the screen).
* **Memory beside a database.** `active_alarms` and the journal have to agree
  over failed ticks, retries, unclear commits, crashes and restarts; a cached
  key list, a data window and a lexical index age while others write.
* **At-least-once loops.** The sync loop reads the same rows again and again,
  is cancelled in the middle, and rows commit later than they are stamped.
* **Cursors and pages.** A stream's cursor lives in a generator that dies with
  the connection; a page is computed from a count that may be old, and rows are
  written between two pages.
* **A model that does anything.** A chat turn must end, answer every tool call,
  respect its budgets and keep its event order whatever the model says.
* **Check-then-act over awaits** in work logs, chat sessions, Redis sessions,
  the login state and the assignment of lines.
* **Two statements, one answer.** The scorer reads models and then limits, a
  status reads the newest tick and then the open anomaly.
* **Edges of ranges.** Buckets and budgets of rows, lists of one candidate,
  windows masked at the start of a segment, rows on the border of an hour.

What makes each component correct: at most one open rule row per variable and
one WRN-901 per equipment; no row that outlives its condition and no lasting
condition without a row; every row notified once per bucket; every notification
in scope received once, in order; a turn that ends with well-formed events; a
conversation whose answers belong to its questions; one repair per completed
work log; no session after its logout or deadline; no answer that hides what it
lacks. `PROJECT.json` lists the hazards with their lines.

## 2. Modules

| module | models | checked by | proved in |
| --- | --- | --- | --- |
| `AlarmRules` | judgement of one reading | through `AlarmJournal` | `AlarmJournal_proofs` |
| `AlarmJournal` | journal with simulator, scorer and endpoint | `alarm_*` | `AlarmJournal_proofs` |
| `NotificationLog` | abstract: what readers may expect of the notifications | as a property | |
| `NotificationSync` | the sync loop | `notification_sync` | `NotificationSync_proofs` |
| `NotificationFeed` | stream, pages, read markers, scopes | `notification_feed` | `NotificationFeed_proofs` |
| `TurnStream` | abstract: the event order promised to the client | as a property | |
| `AgentTurn` | the agent graph and its event stream | `agent_turn` | `AgentTurn_proofs` |
| `Maintenance` | work logs, repairs, the heal window of the simulator | `maintenance*` | `Maintenance_proofs` |
| `Conversation` | abstract: stored questions and answers | as a property | |
| `ChatSession` | concurrent turns, the cached graph, history | `chat` | `ChatSession_proofs` |
| `Refit` | fitting by loop and command, load of the scorer | `refit*` | `Refit_proofs` |
| `Services` | the services below, in one instance | `services` | `Services_proofs` |
| `AuthSession` | login state, session, refresh, logout | `services` | `Services_proofs` |
| `TableFormat` | streaming normalizer of markdown tables | `services` | `Services_proofs` |
| `SensorLogs` | rows or buckets of a range of time | `services` | `Services_proofs` |
| `EventPages` | pages of alarm events and repairs, their summary | `services` | `Services_proofs` |
| `UserLines` | lines and their assignment, concurrent transactions | `services` | `Services_proofs` |
| `ScoreFusion` | fusion of dense and lexical candidates | `services` | `Services_proofs` |
| `KnowledgeStore` | ingest, pruning and search of manuals | `services` | `Services_proofs` |
| `IncidentPlan` | one request for an incident plan | `services` | `Services_proofs` |
| `Detector` | windows, mask, average, K in a row | `services` | `Services_proofs` |
| `StatusView` | the two reads of an equipment's status | `services` | `Services_proofs` |
| `AuditTrail` | audit rows and their copies in Redis | `services` | `Services_proofs` |
| `Suggestions` | cached data windows, suggested questions | `services` | `Services_proofs` |
| `NotificationSchema` | migrations that rewrite notifications | `services` | `Services_proofs` |
| `AlarmIntervals` | replayed alarm rows, totals, shadow report | `services` | `Services_proofs` |
| `SigningKeys` | cached signing keys of the provider | `services` | `Services_proofs` |
| `Evaluation` | metrics of each setting and the operating point | `services` | `Services_proofs` |

`MC*` modules hold the constants' values that a `.cfg` cannot write.

How the modules meet: `AlarmJournal` is the source of the rows that
`NotificationSync` reads; `NotificationSync` implements `NotificationLog`, and
`NotificationFeed` takes exactly that log as its environment. `AgentTurn`
implements `TurnStream`; `ChatSession` runs a turn as a stream that ends with or
without an error, and itself implements `Conversation`. `Maintenance` is the
loop of `AlarmJournal` seen from the repairs' side. `Refit` gives the scorer of
`AlarmJournal` its models, `Detector` its verdicts, which are free there.

### AlarmRules and AlarmJournal

A reading is reduced to what the judgement looks at: the side of the dynamic
band, whether the band has used up the corridor, whether recent differences are
noisy. `JudgeVariables` and `SurfaceCodes` then follow the code, and
`Surfaceable` is the set of code assignments one tick can produce.

The journal is a count of open rows per equipment, variable and code: closed
rows never change again and no writer reads them. A transaction is one step at
its commit. Everything a writer knew *before* its commit is a separate variable:

| code | model |
| --- | --- |
| `active_alarms` | `active` |
| `raises`, `clears` of a tick, fixed over its retries | `Raises`, `Clears`, from `reading` and `active` |
| `_persist`: attempt, commit, error, error after a commit | `PersistCommit`, `PersistFail`, `PersistLost` |
| `_load_active_alarms`, last row wins; its `except` | `SimStart` with any `Seeds`; `SimStartUnseeded` |
| `score_once`: active sets, scores, writes | `ScoreBegin` fills `seen` and `verdict`, `ScoreCommit` writes |
| `clear_equipment_alarm` | `ManualClear` |
| container restart, `lifespan` | `SimCrash`, `ApiStart`, `ApiStop` |

`score_latest` is free to give any verdict; the settings that route equipment to
the real or the shadow journal may change at each start of the API.
`JournalSound` joins what one invariant each would repeat: one WRN-901 per
equipment whatever fails and, up to the first failed seeding or lost commit, one
rule row per variable, remembered, of the newest tick, the composite in one piece.

### NotificationLog and NotificationSync

Time is a counter; a row is an alarm and the stamp it was raised at, and commits
up to `MaxLag` later. `SyncRead` takes the rows inside the lookback, `SyncCommit`
inserts the first of each alarm and bucket that the unique constraint lets in,
in any order. Errors and stops discard the cycle. `synced`, `covered` and `gap`
are history variables that only properties read. `NotificationLog` is the promise:
an append-only log in which no alarm shows twice within a bucket.

### NotificationFeed

Takes the log as `NotificationLog` promises it and models its readers: a
connection fixes the scope, polls above its cursor (`Poll` takes the new rows in
the order of their ids), sends one event after the other; the client remembers
the last id it received and reconnects with it (`docs/sse-events.md`). A list
request is two steps, `ListCount` and `ListFetch`. `FeedFaithful` says that
neither stream nor list has a hole or a repetition; a list of unread items only
is left out of it, since a mark between the two steps can empty a page there.

### AgentTurn and TurnStream

A node of the graph is one step, its result reaches messages and events when it
returns; only the finalizer streams before. The model is free: any tool calls
(existing or not) whenever tools were bound, any route, any failure. `config`
holds the settings the graph was built with and the servers that were up.
`visits` counts supersteps; whether the library counts the empty last one is
left open. `rounds` is a history variable, in how many nodes a call ran, and
`toolHistory` the state's own `tool_history`. `TurnStream` states the order
promised by `common/events.py`: `Follows` says which event may come after which
stream, a stream is well-formed when each of its events follows what came before
it, and a step of the graph adds a piece to it.

### Maintenance

Completing a work log and repairing an equipment directly are the same shape: a
first read, decisions from it, one commit. `StartComplete` and `StartRepair` put
what was read into `requests`; `Finish` is the commit with everything the code
does before it: the second read (`Completed`), the repair row and the latch
`repaired_at` (`StoreRepair`). Creating, changing and deleting a log touch one
row and are one step each. `StoreRepair` takes its time after the completion's,
as the code reads the clock twice.

The simulator is the second reader of the latch: `Tick` decides by `Selected`
what to generate, the commit of the tick makes it the newest telemetry, later
and perhaps twice. There the scenario is free in `AlarmJournal` and the memory
of alarms is kept; here the alarms are left out and the scenario's effect is
kept. The clock counts up to `MaxTime`. The latch is read a moment before the
tick takes its time; a repair that commits between the two is one that commits
after the tick.

`docs/adr/0007-equipment-repair.md:37` guarantees that a fault returns "at least
one hour later" (the default of `sim_repair_heal_minutes` is 60 there and 120 in
`core/config.py`). What holds is `LateFaultsBounded`: the tick that is under way
when the repair commits may still report the fault once.

`retyped`, `lateFaults` and `lostCommits` are history variables.

### ChatSession and Conversation

A turn is `stream_chat` from its question to the stored answer, one step per
statement or commit: the check of the session, its creation, the history, the
question, the lock and build of the graph, the stream, the answer. `Abort` cuts
a turn off wherever it is, `Crash` ends the process with its graph; sessions can
be deleted softly at any time. `created_at` is the start of a row's transaction,
which is not the order of the commits; that is what makes `FollowUpSeesAnswer`
(a question asked when an earlier answer was stored is answered with that answer
in the window, as far as the window reaches) worth checking. `known` is a
history variable. `Conversation` is the promise about the stored rows: the owner
of a session never changes, a turn asks once, and an answer belongs to a stored
question of its session and comes after it.

### Refit

A fit is one transaction of the loop or of the command `anomaly-fit`; a model
and a limit are the number of the fit that made them, so that "too old" and "too
new" can be told apart. Training data is counted in windows since the last
repair and before it. `LoadModels` and `LoadLimits` are the scorer's two
statements. `age` counts from the last write of a model, `fittedAt` is the
column, which a later fit does not touch. `between`, `overlapped`, `mixed` and
`age` are read by properties only. In `MCRefit` one process type has two
equipment with telemetry and one demo equipment that is never fitted for.

### The services

Sixteen modules have small state, share none, and are asked one or two questions
each. `Services` puts them into one instance and `subject` says which one a
behaviour is about: `AuthSession` is extended, the other fifteen are `INSTANCE`d.
Services share the variables for which they use one name, since a behaviour has
one subject; the variables a subject does not have are 0. A property starts with
its subject, so that it says nothing of another service, and the state space is
the sum of the sixteen. The comments of the modules state each property in words.

* `AuthSession`: every Redis command is a step; a session is named by the
  callback that made it, a key dies at its deadline. `loggedOut`, `overlapped`
  and `cut` are history variables: the last two name what `SessionEnds` allows,
  a refresh in flight at the logout and a writer stopped between `HSET` and
  `EXPIRE`.
* `SigningKeys`: requests that find the cache old fetch metadata and keys, which
  may arrive in any order; the provider rotates keys when it likes.
* `AuditTrail`: the row, the copy, and one sorted set per index, each command a
  step; ids come from the database or, when it fails, from Redis.
* `UserLines`: transactions at read committed; a statement sees what was
  committed when it began and waits for uncommitted rows of others. A row of
  `user_lines` is a version, told from a later one of the same line by the
  request that inserted it: a `DELETE` that waited for another removes what is
  left of the rows it found and not those that replaced them, so that the
  `INSERT` after it may fail on the unique pair.
* `SensorLogs`, `EventPages`, `StatusView`: read-only handlers over tables that
  others write between their statements.
* `KnowledgeStore`: a manual is edited into versions, ingested and pruned while
  searches run; `ScoreFusion` orders what two searches returned.
* `TableFormat`: every text of up to five lines, every cut of it into tokens,
  against the form every line has in the text as a whole (`Reference`).
* `Detector`: raw scores are small integers; an average is rounded down to parts
  of a score (`Unit`), which with sixteen parts and four windows is exact.
* `Evaluation`: each setting of the sweep fits and runs the method anew, so its
  scores and its mask are any, whatever those of the settings before; `Fired`
  makes detections of them, `summarize` scores these against the events, and
  `operating_point` chooses. `Notices` counts the notifications the same alarms
  would come to under `date_bin` (`notification/repository.py:69`), and
  `detections` is a history variable it is applied to. That a stricter setting
  raises fewer false alarms is not claimed: `experiments/results/operating_point.json`
  has settings that do not.
* `AlarmIntervals`: every series of a few ticks, replayed by `seed_data.py`,
  counted by the totals and judged by the shadow report.
* `IncidentPlan`, `Suggestions`, `NotificationSchema`: one request over changing
  telemetry, of which the baseline takes the newest rows up to its limit
  (`BaselineLimit`, 20 in the code); a cache of windows with late answers;
  migrations up and down, with the application inserting rows and marking them
  read and unread between them.

## 3. Runs

| run | question | instance |
| --- | --- | --- |
| `alarm_core` | do journal, memory and telemetry tell one story (`JournalSound`), and who can mute a variable (`MutedOnlyByHand`)? | one equipment, temperature and pressure (the composite's two variables), every surfaced combination |
| `alarm_live` | how bad can a failed seeding and a lost commit make it (`DuplicatesBounded`); do lasting conditions show and lasting quiet clear (`PersistentFaultRaised`, `NormalEndsAlarm`, `AnomalyFollowsVerdict`)? | one of each, one variable |
| `alarm_seed_failure` (violated) | "no duplicate after a restart" | one failed seeding |
| `notification_sync` | is every row notified once and by its first occurrence (`SyncComplete`, `EveryRowNotified`), and is the log kept (`ImplementsLog`)? | two alarms, three rows, lookback 2, buckets of 2, lag 1 |
| `notification_feed` | does the client receive all it should in order, are pages full (`FeedFaithful`, `EventuallyReceived`)? | one user, two lines, two notifications, pages of one |
| `agent_turn` | does a turn end, within budgets, with ordered events and answered calls (`TurnSound`, `ImplementsStream`, `Terminates`)? | two workers, two calls, messages of up to two calls, two rounds, recursion limit 10 |
| `maintenance` | do completions and repairs go together (`RepairsMatchCompletions`), does the simulator follow the heal window (`LateFaultsBounded`, `StateFollowsWindow`)? | one log, one faulty equipment, two requests, window 2 of 3 moments, one lost commit |
| `maintenance_deleted_log` (violated) | "completing records the completion and stores the repair" | one log, one request |
| `chat` | do concurrent turns leave a conversation (`ImplementsConversation`), see what was answered before them (`ChatSound`), and settle (`TurnSettles`)? | three turns of one session, two users, window of two messages |
| `refit` | what may a model be trained with (`RepairRespected`), what may the scorer read (`TornOnlyByCommit`), is a stale model replaced (`StaleRefitted`)? | one process type, two equipment and a demo one, three fits, one run of the command, one repair, one failure |
| `refit_fresh` (violated) | "still fresh, no refit needed" | same |
| `services` | one or two questions of each of the sixteen services | see `Services.cfg` and below |

Why the bounds are enough:

* Equipment do not interact (one suffices), the composite rule involves exactly
  two variables, and a variable has three kinds of code (acute, drift,
  variance), all present. Counts of open rows are not bounded in the model; the
  properties bound them.
* In `notification_sync` the clock runs past the lookback and a lookback spans
  more than one bucket, so groups are cut by the window's edge.
* In `agent_turn` two rounds are the least in which a history matters and two
  calls the least that can repeat; the limit leaves the orchestrated path
  exactly enough room and cuts the legacy path off at every node of its loops.
  The orchestrated builds are all there, of the legacy ones two tails.
* In `maintenance` two requests are two completions of one log, or a completion
  and a direct repair; the clock passes the end of the window of a repair made
  in its first moment and ends inside the window of a later one, so both halves
  of `StateFollowsWindow` have behaviours. `MaintenanceDeleted.cfg` needs no
  time, no fault and no second request.
* In `chat` three turns race for one session and one graph, and leave up to six
  messages, more than the window holds; the second user is refused. Sessions do
  not interact except over the graph.
* In `refit` a first fit, one that replaces it between the scorer's two reads and
  one more are all possible while the command holds the row the loop wants.
* `services`: four requests of `AuthSession` are two callbacks, a refresh and a
  logout of one session, and the clock passes the life of a session stored at
  its first moments. `TableFormat` needs five lines for a table with text
  before or after it. `SensorLogs` has a line of two units, a budget of four
  rows and tables with gaps, with no row, with one at every interval and with
  more, which are cut off.
  `EventPages` has more rows than two pages hold and equal times. `UserLines`
  and `SigningKeys` have two overlapping requests, `AuditTrail` two events.
  `Suggestions` has one request: one is enough for an answer that comes when the
  life of its entry is over, or not at all; that two requests overtake each other
  is covered by the theorem `WindowAlwaysRecent` alone. `Evaluation` has five ticks
  in buckets of two, so that alarms lie on both sides of an edge of either
  kind of bucket, and two settings to choose from under a budget of one.
  `Detector` has windows before, within and after the settling of a mask.

The `services` run checks the sum of its sixteen instances, about 1.4 million
states. Its properties are invariants, except
`StateUsedOnce` and `KnownAfterTtl`, which speak of steps: a login state that
one callback deleted opens no second session, and a token is refused for an
unknown key only while the key is young or withdrawn.

What the violated runs show is listed under `findings`: the failed seeding, the
repair of a log deleted while it is completed, and the model that is refitted at
every check because `fitted_at` keeps the time of its first fit.

Other places where the code does not do what a text says or a reader expects,
seen while modelling; the models contain them and the properties are stated so
that they are allowed:

* `modules/telemetry/repository.py:354`: the clear endpoint closes rows and does
  not reset the simulator's memory; the variable is mute until its code changes
  (`MutedOnlyByHand` names exactly this cause).
* `modules/notification/service.py:66` promises a valid page instead of an empty
  list; a mark between count and fetch of an unread-only list empties it.
* `orchestrator.py:112` against its docstring (`:7`): calls repeated within one
  planner message all run. In the legacy path the recursion limit ends a turn
  with an error, where `docs/agent/architecture.md:172` speaks of an answer from
  partial results.
* `docs/adr/0002-auth-session.md:55` calls a logout immediate; a refresh in
  flight writes the session back.
* `modules/watcher/fit.py:41,156`, `docs/anomaly-serving.md:117`: an equipment
  that falls below the minimum keeps its old limit.
* `modules/telemetry/repository.py:155-163`: when the estimate equals the limit
  the oldest row may be cut off; `WholeRange` allows one per equipment.
* `modules/telemetry/repository.py:164-173`: the width of a bucket is rounded to
  microseconds, and with an interval about as short the rounded width makes more
  buckets than the limit has rows (interval 1, limit 6, rows at 0 to 7: eight
  buckets, the newest two are cut off). Settings count an interval in seconds
  (`core/config.py:109-111`), so `SensorAssumption` keeps the limit within two
  rows per microsecond of the interval.
* `modules/telemetry/service.py:76-82, 165-171`: while the anomaly ends and a
  rule alarm begins between the two reads, a status is "normal" though an alarm
  stood all the time.
* Two assignments of one user's lines that overlap add up to their union, or,
  when they share a line, the second fails on `uq_user_lines_user_line` (an error
  of the server, not a conflict), although each replaces all lines by itself
  (`modules/admin/repository.py:157-162`).
* `modules/rag/fusion.py:6,15` says that `alpha=1.0` gives exactly the order of
  the dense search alone. Where dense scores are equal it does not: `by_key`
  (`:56`) holds the lexical candidates first and the sort is stable, so those the
  lexical search found too come first. `FusionFaithful` states this order. With
  `alpha=0` the order is exactly the lexical one.
* `modules/telemetry/service.py:62` and `modules/watcher/detector.py:22` call the
  multivariate anomaly critical, `modules/telemetry/schemas.py:17-23` makes it a
  warning; the severity is read by no property.
* `anomaly/evaluation.py:80-82` calls its buckets a conservative approximation of
  the notifications' (per equipment, without variable and code). They also begin
  with the segment instead of the clock: the number of false alarms it compares
  with the budget may be half, or twice, the number of buckets of the clock that
  they meet (`BudgetBoundsNotices`).
* A manual whose chunks become empty keeps its old ones; the lexical index is
  stale until the knowledge server restarts.
* Audit: a sorted set whose deadline falls between `ZADD` and `EXPIRE` loses the
  entry; after a failure of the database an id may be given twice, and one event
  overwrites the other's copy; a listing with expired entries is shorter than
  its limit.
* `supervisor/suggest.py:97-99` checks the window of the first equipment named
  only; a failed query is cached as an unknown window.
* Migrations: 0022 cannot go back once two rows share an hour, 0028 going back
  makes one user's read everybody's, 0012 drops the read state of the rows it
  merges. For the same reason an un-read does not survive 28 to 22 to 28 when
  somebody else has read the row (`0028:53-62, 72-78`), and below 28, where one
  flag serves all users, marking a row unread does it for everybody.
  `HistorySurvives` speaks of a user's read until it is marked unread and of rows
  nobody ever read, and leaves these open.
* The shadow report counts an event as the detector's alone when its rule alarm
  was raised before the period. The alarm event list comes from ticks, the
  totals count raised rows.
* After a rotation, new tokens are refused up to the life of the key cache.
* A table line that is still held when a stream ends in an error is not emitted.

## 4. Fairness

* `AlarmJournal`: compose restarts the simulator and the API, so `SimStart` and
  `ApiStart` are weakly fair. Both loops run for ever and swallow errors; that
  outages end is assumed as strong fairness of a tick, its commit, a scoring
  cycle and its commit. Crashes and failures stay possible for ever. The
  properties speak of conditions that from some time on hold at every tick or
  cycle.
* `NotificationSync`: the same for the loop's start, read and commit.
  `EveryRowNotified` assumes in its formula that commits of cycles are recent
  enough; without it rows older than the lookback are lost by design.
* `NotificationFeed`: the generator polls and sends, the network delivers while
  the connection lasts; no fairness for reconnecting.
* `AgentTurn`: every awaited model or tool call returns or raises (their clients
  have timeouts) and the client stays; a client that leaves closes the generator.
* `Maintenance`: the simulator restarts (`SimStart`), goes on ticking and outages
  of the database end (`Tick`, `PersistCommit` strongly fair, since crashes and
  failed attempts keep interrupting them). Nothing is assumed of users.
* `ChatSession`: the event loop runs every turn that can go on, the build of the
  graph and the stream end one way or the other, and the lock lets its waiters
  in (`asyncio.Lock` is first come, first served). Nothing is assumed of
  clients, deletions and crashes.
* `Refit`: the loop begins again after its interval and visits what it found
  (`run_refit_loop`), a transaction ends, and the command goes on to its commit.
  Failures are bounded by `MaxFailures`, not by fairness. `StaleRefitted` assumes
  in its formula that there is data to train with.
* The services have no fairness: what is asked of them is safety.

## 5. Proofs

All theorems hold for every value of the constants that the named assumptions
allow: `MetricAssumption` (the modelled variables are among the four),
`BoundAssumption`, `TimeAssumption`, `FeedAssumption`, `AgentAssumption`,
`MaintenanceAssumption`, `ChatAssumption`, `AuthAssumption`, `RefitAssumption`,
`ServicesAssumption` (types of constants, positive sizes, finite sets where
something is counted).

`AlarmJournal_proofs`
* `TypeCorrect`: type correctness; rests on lemmas about the rules
  (`MostUrgentMember`: the CHOOSE of the judgement exists; `SurfaceableFacts`).
* `AnomalyAlwaysUnique`: at most one WRN-901 per equipment. Not inductive alone:
  between read and commit the scorer relies on `seen`, hence `SnapshotSafe` in
  `AnomalyInv`. Everyone else can only lower the counts (`AnomalyShrinks`).
* `RuleAlarmAlwaysUnique`, `RuleAlarmNeverStale`: `RuleInv` adds
  `MemoryCoversJournal` (what is open is remembered, or hidden behind a WRN-901
  that makes the next tick close the variable as well) and `NoStaleRuleAlarm`.
  Both hold up to the first failed seeding or lost commit; that this is needed
  shows in `alarm_seed_failure`. That the composite is not split follows from the
  same invariant and a fact on surfaced codes carried along in `WholeInv`.
* `JournalAlwaysSound` puts these together; the guard `Clean` is carried through
  the induction, so that the theorem also speaks of behaviours with faults.
* `OnlyHandMutes`: an action property, needs that no commit is lost.
* `DamageAdds`: with faults, `DamageInv` counts each of them once.

`NotificationSync_proofs`
* `SyncTypeCorrect`; `SyncImplementsLog`: initial states map to initial states,
  every step to a step of the log or a stutter; a commit extends the log since
  groups of a window are distinct (`OneGroup`) and the constraint keeps out the rest.
* `NothingEverMissed`: `MissInv` says that rows committed after the last cycle's
  read are recent (`Recent`), that a cycle in progress holds all recent rows
  (`Reading`), and that notifications come from rows (`FromRow`).

`NotificationFeed_proofs`
* `FeedTypes`: types, and that a read marker names a notification.
* `FeedAlwaysFaithful`: `StreamInv` says that what a client got, what is on the
  wire and what the generator still holds are three ascending stretches, one
  after the other around last id and cursor, which together leave out nothing a
  connection's scope has had in common. `PageInv` says that what was counted is
  still there and that the page is one of those counted; how full it is follows
  from arithmetic on the ceiling (`CeilingBounds`) and cardinalities.

`AgentTurn_proofs`
* `TurnTypes`: types; every route leads to a node that was built (`ShapeInv`).
* `RoundsBoundTurn`: a turn within its budget of rounds never meets a recursion
  limit that leaves room for its longest path. `BudgetInv` pays for the nodes
  run so far with rounds, and for the rounds with the budget (`Paid`).
* `NoCallInTwoRounds`: `HistoryInv` keeps every call that ran in the history, so
  a round runs only what is new (`RunsAreNew`).
* `EveryCallAnswered`: `RepliesInv` lets only the last message wait for replies,
  and only before a tool node or once the nodes have stopped.
* `TurnAlwaysSound` joins the three.
* `StreamAlwaysAsPromised`: the turn implements `TurnStream`. `StreamInv` says for
  each node what was sent before it: thoughts and answered calls while the graph
  works, the calls of the last message on top of an answered stream before a tool
  node (`CarryingOut`), pieces of the answer in the finalizer. Every node adds a
  piece (`Grows`), and lemmas on counts over concatenations show that the
  observations of a tool node answer the actions in their order.

`Maintenance_proofs`
* `MaintenanceTypes`: type correctness.
* `LateFaultsAlwaysBounded`: `LateInv` counts the late fault of the tick being
  persisted already before its commit (`Pending`); a repair starts to count
  anew, a tick that sees the latch has nothing pending, and only a commit that
  is repeated adds a pending fault twice. The length of the window is arbitrary,
  and so is the order in which concurrent repairs set the latch.
* `RepairsAlwaysMatch`: `RequestInv` says what of a request's first read still
  holds when it commits: the log exists, with the same equipment, and unless it
  was retyped with the same type; only its deletion is left open. `AbsentInv`
  keeps repairs and completions from logs that are yet to be created.

`ChatSession_proofs`
* `ChatTypes`.
* `ChatAlwaysSound`: `LockInv` (the one turn that builds holds the lock and there
  is no graph yet); `TimeInv` (stored messages are finitely many and none is from
  the future) and `WindowInv` (what a turn knew when it was asked stays stored
  until it loads its history). The window itself is covered by a lemma on the
  newest N of a finite set (`NewestCovers`).
* `ChatIsAConversation`: `ConvInv` says for each stage of a turn what is stored
  of it; `NextConversation` maps every step to opening, asking, answering or a
  stutter.

`Services_proofs`
* `AuthTypes`.
* `SessionsAlwaysEnd`: besides the types, that a handler that works on a session
  has one, that a session known to a cookie, a handler or a logout was stored by
  a callback that will not store it again (`Known`), and that of a session logged
  out without a refresh about to write it no key is left and nobody writes one
  (`Gone`).
* `StateNeverUsedTwice`: an action property; `Unused` says that until a callback has
  deleted the login state no session exists.
* The other theorems are about `ServicesSpec`. `SubjectStep` gives each service its
  own steps; what is left is one inductive invariant per service:
  * `StatusAlwaysHonest`: what a request has read stood at a moment it has
    witnessed, and while it runs it has witnessed the present one (`StatusInv`).
  * `KeysKnownAfterTtl` (an action property): what a request or the cache holds of
    the provider's keys has all that it published before the time these are kept
    under (`KeysInv`).
  * `PlanAlwaysExplained`: `PlanInv` says at each stage which warnings there may be
    and what they say of what was read.
  * `WindowAlwaysRecent`: every window that is kept, in the cache, in an answer on
    its way or in a request, was there at a time not before the one it is kept
    under (`SuggestInv`); a late answer cannot make it older.
  * `KnowledgeAlwaysWhole`: what the server holds was stored since it started
    (`KnowledgeInv`); `WholeUpsert` shows that replacing a manual leaves it whole.
  * `HistoryAlwaysSurvives`: `SchemaInv`; every migration keeps an earliest row of
    every hour (`EarliestThere`) and what was read of it and not marked unread, up
    and down, and brings no read mark to a row nobody read, for any number of rows
    and users.
  * `AssignmentAlwaysWhole`: `RequestInv` says what a transaction that has written
    may rely on, and that the rows its DELETE did not find or leaves alone are of
    assignments committed since it began, `PairInv` that two of them are not in each other's way, which is
    what the locks and unique indexes of the database are for.
  * `AuditAlwaysKept`: `NumberInv` counts ids against events (they are all
    different as long as Redis gave none), `ReferenceInv` says that what is in the
    store under an id belongs to an event that has it, and `EventInv` follows one
    event from its id to the last of its sorted sets.
  * `TransitionAlwaysQuiet`: `DetectorInv` ties the verdict to the windows. The
    average over the windows outside the mask is a recursive function, shown to
    exist and to stay below a bound by the least window at which it would not; if
    it exceeds the limit at an open window, an open window before does.
  * `IntervalsAlwaysRuns`: `IntervalsInv` says that after every tick the closed rows
    and the open alarms are the runs of the codes so far; one more tick lengthens,
    ends or begins a run of each variable (`RunsGrow`). That the totals count each
    row once rests on a bijection between the rows and the cells they are counted
    in (`TotalOfKeyed`).
  * `BudgetAlwaysBounds`: `SweepInv` ties each metric to the detections it was made
    of and the choice to the metrics. Every bucket of one kind meets at most two
    of the other (`BucketsMeet`), and the first detection of each bucket stands for
    it (`FirstOfBucket`), so that each number is at most twice the other
    (`TwiceAtMost`), for any detections, bucket width and offset.
  * `PagesAlwaysComplete`: `PagesInv` says that what was delivered are the expected
    and later rows in front of the cursor, in order, and `CursorInv` that the cursor
    is the last of them. The latest rows of a summary are at most its window: the
    number of newer rows tells them apart (`LatestFew`).
  * `FusionAlwaysFaithful`: the normalized score of a chunk is monotone in its score
    and above that of a missing chunk, so that a chunk that beats another ranks
    before it; the ranking is a strict order, hence what is shown has no repetition
    and nothing that beats it is cut. Under all the weight of one list the ranking
    is that of its scores, with its ties (`AloneRanks`).
  * `TablesAlwaysWhole`: `StateAt` says what the normalizer holds back and has emitted
    after `k` lines: all of the answer as a whole but a last row that may turn out
    to be a header. The role of a line and the state after it are recursive
    functions; they are shown to exist, and the state to be right, by the least line
    at which it would fail.
  * `RangeAlwaysWhole`: nothing happens after the answer, so the invariant is the
    property; the proof is about the query. A range that is averaged has buckets
    that reach over its end (`RoundedCovers`: rounding takes less from a width than
    the buckets are apart, by the assumption on the interval) and fit into the
    limit (`BinsFew`: equipment times buckets). A range that is not averaged has,
    when its rows are spaced, at most the limit and one row of each equipment
    (`RangeFew`: an interval of an equipment has one row), and newer than a row
    that is left out of the latest are as many latest rows as the limit
    (`LatestEnough`, by the least number of newer rows).

`Refit_proofs`
* `RefitTypes`.
* `RepairAlwaysRespected`: `RepairInv` follows what each fit saw to the model it
  writes.
* `CalibrationNeverAhead`: `LimitInv`, that the row of a type has one writer at a
  time and fits are numbered as they are made.
* `OnlyCommitTears`: `ReadInv` on top of it, what the scorer read differs from
  what is stored only where a fit committed.

What is only model-checked:

* everything under fairness (`PersistentFaultRaised`, `NormalEndsAlarm`,
  `AnomalyFollowsVerdict`, `EveryRowNotified`, `EventuallyReceived`,
  `Terminates`, `StateFollowsWindow`, `TurnSettles`, `StaleRefitted`), which is
  beyond the prover.

Every safety invariant that a run checks is also proved.

## 6. Not modelled

* An equipment that moves from the real to the shadow sink by configuration keeps
  its open WRN-901 (`modules/watcher/anomaly_worker.py:40`). `AlarmJournal`
  contains the move; no property is stated of it, as nothing in the code or its
  documents says what should become of the row.
* Values of sensors and their random generation (`simulator/scenarios.py`,
  `profiles.py`): the conditions are free in `AlarmRules`.
* Standardization, the scoring models and the training numbers
  (`src/anomaly/models`): real numbers.
* Prompts, entities, citations, splitting, embedding and tokenizing of text, and
  the construction of clients: no state that a decision reads.
* Roles, PKCE and the claims of a token: whether a token verifies is open.
* The calendar of notifications, the texts and times a user writes into a work
  log, equipment managers, filters of lists: plain reads and updates of one row.
* Migrations that add tables, columns and indexes; sample tables of the seed
  script; benchmarks.
* Concurrent runs of the ingest command.

`PROJECT.json` gives the state of each component.
