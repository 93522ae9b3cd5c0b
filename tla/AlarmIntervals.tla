--------------------------- MODULE AlarmIntervals ---------------------------
(***************************************************************************)
(* Alarm intervals, made and compared: scripts/seed_data.py replays the    *)
(* series of an equipment into ticks and alarm rows, and the shadow report *)
(* (watcher/shadow_report.py) sets the detector's shadow events against    *)
(* the rules' rows; the totals of the alarm history count those rows       *)
(* (telemetry/repository.py fetch_alarm_history).  A candidate of a        *)
(* variable is its only code or none.                                      *)
(***************************************************************************)
EXTENDS Integers, Sequences, FiniteSets

CONSTANTS
  Metric,
  Suppressed,   \* COMPOSITE_SUPPRESSED
  Bearer,       \* COMPOSITE_METRIC
  Ticks,        \* SERIES_TICKS
  Days          \* age of the rows the report looks at, in ticks

IntervalAssumption ==
  /\ IsFiniteSet(Metric) /\ Suppressed \subseteq Metric /\ Bearer \in Suppressed
  /\ {Ticks, Days} \subseteq Nat

VARIABLES
  tick,           \* ticks replayed
  prev,           \* candidates of the tick before
  prevComposite,
  active,         \* [Metric -> open alarm], code "none" without
  alarms,         \* rows made
  shadow,         \* rows of the shadow events
  report,         \* the counts of the report, None before
  totals,         \* alarms since a time by code and by sensor, NoTotals before
  series          \* history: the candidates of every tick

vars == <<tick, prev, prevComposite, active, alarms, shadow, report, totals, series>>

Open == Ticks + 1     \* cleared_at NULL
Closed == [code |-> "none", raised |-> 0]
None == [shadow |-> 0, rule |-> 0, detectorOnly |-> 0, overlapping |-> 0, ruleOnly |-> 0]
Codes == {"single", "composite"}
NoTotals == [since |-> 0, code |-> [c \in Codes |-> 0], metric |-> [m \in Metric |-> 0]]

Init ==
  /\ tick = 0
  /\ prev = [m \in Metric |-> "none"] /\ prevComposite = FALSE
  /\ active = [m \in Metric |-> Closed]
  /\ alarms = {} /\ shadow = {} /\ report = None /\ totals = NoTotals /\ series = <<>>

surface_codes(codes, composite) ==
  [m \in Metric |-> IF composite /\ m = Bearer THEN "composite"
                    ELSE IF composite /\ m \in Suppressed THEN "none" ELSE codes[m]]

Confirmed(cands) == [m \in Metric |-> IF cands[m] = prev[m] THEN cands[m] ELSE "none"]

Row(m, alarm, cleared) ==
  [metric |-> m, code |-> alarm.code, raised |-> alarm.raised, cleared |-> cleared]

\* Mutant: an alarm that turns into another is not ended.
EndedSilent(m, code) == active[m].code # "none" /\ code = "none"
Ended(m, code) == active[m].code # "none" /\ active[m].code # code

Replay(cands, composite) ==
  /\ tick < Ticks
  /\ tick' = tick + 1
  /\ LET codes == surface_codes(Confirmed(cands), composite /\ prevComposite) IN
       /\ alarms' = alarms \cup {Row(m, active[m], tick + 1) : m \in {n \in Metric : Ended(n, codes[n])}}
       /\ active' = [m \in Metric |-> IF codes[m] = active[m].code THEN active[m]
                                      ELSE IF codes[m] = "none" THEN Closed
                                      ELSE [code |-> codes[m], raised |-> tick + 1]]
  /\ prev' = cands /\ prevComposite' = composite
  /\ series' = Append(series, [cands |-> cands, composite |-> composite])
  /\ UNCHANGED <<shadow, report, totals>>

\* What is open after the last tick stays open; then the rows are stored.
Store ==
  /\ tick = Ticks /\ tick' = Open
  /\ alarms' = alarms \cup {Row(m, active[m], Open) : m \in {n \in Metric : active[n] # Closed}}
  /\ UNCHANGED <<prev, prevComposite, active, shadow, report, totals, series>>

-----------------------------------------------------------------------------
(* The report.                                                             *)

Until(i) == IF i.cleared = Open THEN Ticks ELSE i.cleared
Overlaps(i, j) == i.raised <= Until(j) /\ j.raised <= Until(i)
Recent(rows) == {i \in rows : i.raised >= Ticks - Days}
Met(rows, others) == {i \in rows : \E j \in others : Overlaps(i, j)}

compare(events, rules) ==
  [shadow |-> Cardinality(events), rule |-> Cardinality(rules),
   detectorOnly |-> Cardinality(events \ Met(events, rules)),
   overlapping |-> Cardinality(Met(events, rules)),
   ruleOnly |-> Cardinality(rules \ Met(rules, events))]

\* Whatever the detector recorded: at most one event is open at a time.
Report ==
  /\ tick = Open /\ report = None
  /\ \E first, last \in 1..Ticks : \E open \in BOOLEAN :
       /\ first <= last
       /\ shadow' = {[raised |-> first, cleared |-> IF open THEN Open ELSE last]}
  /\ report' = compare(Recent(shadow'), Recent(alarms))
  /\ UNCHANGED <<tick, prev, prevComposite, active, alarms, totals, series>>

-----------------------------------------------------------------------------
(* The totals of the history screen, by code and by sensor.                *)

fetch_alarm_history(since) ==
  [c \in Codes |-> Cardinality({a \in alarms : a.code = c /\ a.raised >= since})]

fetch_alarm_sensor_summary(since) ==
  [m \in Metric |-> Cardinality({a \in alarms : a.metric = m /\ a.raised >= since})]

Summarize(since) ==
  /\ tick = Open /\ totals = NoTotals
  /\ totals' = [since |-> since, code |-> fetch_alarm_history(since),
                metric |-> fetch_alarm_sensor_summary(since)]
  /\ UNCHANGED <<tick, prev, prevComposite, active, alarms, shadow, report, series>>

Next ==
  \/ \E cands \in [Metric -> {"none", "single"}], composite \in BOOLEAN : Replay(cands, composite)
  \/ Store \/ Report \/ \E since \in 1..Ticks : Summarize(since)

Spec == Init /\ [][Next]_vars

-----------------------------------------------------------------------------
\* The code of a variable at a tick, from the whole series: of what two ticks
\* in a row saw.
Composite(i) == i > 1 /\ series[i].composite /\ series[i - 1].composite
Single(m, i) == i > 1 /\ series[i].cands[m] = "single" /\ series[i - 1].cands[m] = "single"
CodeAt(m, i) ==
  IF i \notin DOMAIN series THEN "none"
  ELSE IF Composite(i) /\ m = Bearer THEN "composite"
  ELSE IF Composite(i) /\ m \in Suppressed THEN "none"
  ELSE IF Single(m, i) THEN "single" ELSE "none"

\* A run of equal codes begins here.
Begins(m, i) == CodeAt(m, i) # "none" /\ CodeAt(m, i - 1) # CodeAt(m, i)

\* The sum of a function of naturals: the cells below its graph.
Total(f) == Cardinality(UNION {{<<x, n>> : n \in 1..f[x]} : x \in DOMAIN f})

\* The rows are the runs of equal codes of the series: each as long as it can
\* be, the last open; an alarm that persists counts once in the totals, by code
\* and by sensor; and an event the report counts as the detector's alone met no
\* alarm, except one raised before the days it looks at (seed_data.py:168-223,
\* repository.py:213-254, shadow_report.py:49-87).
IntervalsAreRuns ==
  tick = Open =>
    /\ alarms = {r \in [metric : Metric, code : Codes, raised : 1..Ticks, cleared : 1..Open] :
                   /\ r.raised < r.cleared
                   /\ \A i \in r.raised..r.cleared - 1 : CodeAt(r.metric, i) = r.code
                   /\ CodeAt(r.metric, r.raised - 1) # r.code
                   /\ CodeAt(r.metric, r.cleared) # r.code}
    /\ totals # NoTotals =>
         LET begun == {b \in Metric \X (totals.since..Ticks) : Begins(b[1], b[2])}
         IN Total(totals.code) = Cardinality(begun)
              /\ Total(totals.metric) = Cardinality(begun)
    /\ report.detectorOnly > 0 =>
         \A e \in shadow, r \in alarms : Overlaps(e, r) => r.raised < Ticks - Days

=============================================================================
