---------------------------- MODULE AlarmJournal ----------------------------
(***************************************************************************)
(* The alarm journal (table equipment_alarms) and everything that writes   *)
(* it: the simulator, which remembers in memory which alarms it raised and *)
(* records the transitions each tick; the anomaly scorer of the API, which *)
(* raises and clears WRN-901; and the operator's "clear alarm" endpoint.   *)
(*                                                                         *)
(* A row with cleared_at NULL is an open row.  Closed rows never change    *)
(* again and no writer reads them, so the journal is kept as the number of *)
(* open rows per equipment, variable and code.  A transaction is one step, *)
(* at its commit; what a writer read before its transaction, or in an      *)
(* earlier statement of it, is a variable of its own and may be stale.     *)
(***************************************************************************)
EXTENDS AlarmRules

CONSTANTS
  Equipment,
  MaxSeedFailures,   \* bound: starts whose seeding query fails
  MaxLostCommits     \* bound: commits the database applied but reported failed

ASSUME BoundAssumption == MaxSeedFailures \in Nat /\ MaxLostCommits \in Nat

PERSIST_RETRY == 1   \* retries of a tick's transaction

VARIABLES
  open,          \* [Equipment -> [Metric -> [Code -> Nat]]]: open journal rows
  telemetry,     \* the codes surfaced by the last tick committed to the database
  simPc,         \* the simulator: "down", "idle" or "persisting" a tick
  attempt,       \* retries of the current tick so far
  active,        \* its in-memory active_alarms; NoCode where it holds none
  reading,       \* codes surfaced by the tick being persisted
  shadow,        \* [Equipment -> Nat]: open rows of the shadow journal
  apiPc,         \* the API process: "down", "idle" or "scoring"
  realfire,      \* equipment its settings route to the real journal
  seen,          \* equipment its scoring cycle found active, in the sink it uses
  verdict,       \* score_latest's answer per equipment in the current cycle
  seedFailures,  \* number of failed seedings so far
  lostCommits    \* number of lost commits so far

simVars == <<simPc, attempt, active, reading>>
apiVars == <<apiPc, realfire, seen, verdict>>
faultVars == <<seedFailures, lostCommits>>
vars == <<open, telemetry, shadow, simVars, apiVars, faultVars>>

Blank == [e \in Equipment |-> [m \in Metric |-> NoCode]]

Quiet == "quiet"        \* scored, not fired
Unscored == "unscored"  \* no model or too few windows: score_latest is None

Init ==
  /\ open = [e \in Equipment |-> [m \in Metric |-> [c \in Code |-> 0]]]
  /\ telemetry = Blank
  /\ simPc = "down" /\ attempt = 0 /\ active = Blank /\ reading = Blank
  /\ shadow = [e \in Equipment |-> 0]
  /\ apiPc = "down" /\ realfire = {} /\ seen = {}
  /\ verdict = [e \in Equipment |-> Unscored]
  /\ seedFailures = 0 /\ lostCommits = 0

-----------------------------------------------------------------------------
(* The simulator process.                                                  *)

\* The codes of the open rows of one variable.
OpenCodes(e, m) == {c \in Code : open[e][m][c] > 0}

\* _load_active_alarms: whatever row comes last wins, one code per variable.
Seeds ==
  {s \in [Equipment -> [Metric -> Code \cup {NoCode}]] :
     \A e \in Equipment, m \in Metric :
       IF OpenCodes(e, m) = {} THEN s[e][m] = NoCode ELSE s[e][m] \in OpenCodes(e, m)}

SimStart ==
  /\ simPc = "down"
  /\ simPc' = "idle"
  /\ active' \in Seeds
  /\ UNCHANGED <<open, telemetry, attempt, reading, shadow, apiVars, faultVars>>

\* The seeding query fails and the simulator starts with an empty memory.
SimStartUnseeded ==
  /\ simPc = "down"
  /\ seedFailures < MaxSeedFailures
  /\ simPc' = "idle"
  /\ active' = Blank
  /\ seedFailures' = seedFailures + 1
  /\ UNCHANGED <<open, telemetry, attempt, reading, shadow, apiVars, lostCommits>>

SimCrash ==
  /\ simPc # "down"
  /\ simPc' = "down"
  /\ attempt' = 0 /\ active' = Blank /\ reading' = Blank
  /\ UNCHANGED <<open, telemetry, shadow, apiVars, faultVars>>

\* One tick generates a reading per equipment; the transitions to record
\* follow from it and the memory, and stay the same over the retries.
Tick ==
  /\ simPc = "idle"
  /\ simPc' = "persisting"
  /\ reading' \in [Equipment -> Surfaceable]
  /\ UNCHANGED <<open, telemetry, attempt, active, shadow, apiVars, faultVars>>

\* Mutants of Raises: no comparison with the memory; the test on the wrong side.
RaisesAlways(e, m) == reading[e][m] # NoCode
RaisesSwapped(e, m) == reading[e][m] # active[e][m] /\ active[e][m] # NoCode

\* Mutants of Clears: a changed code does not close the old one; the test on
\* the wrong side.
ClearsVanishedOnly(e, m) == reading[e][m] = NoCode /\ active[e][m] # NoCode
ClearsSwapped(e, m) == reading[e][m] # active[e][m] /\ reading[e][m] # NoCode

\* _alarm_transitions
Raises(e, m) == reading[e][m] # active[e][m] /\ reading[e][m] # NoCode
Clears(e, m) == reading[e][m] # active[e][m] /\ active[e][m] # NoCode

\* The transaction of _persist: clears close every open row of the variable,
\* whatever its code, then the raises are inserted.
Record ==
  /\ telemetry' = reading
  /\ open' = [e \in Equipment |-> [m \in Metric |-> [c \in Code |->
       (IF Clears(e, m) THEN 0 ELSE open[e][m][c])
         + (IF Raises(e, m) /\ c = reading[e][m] THEN 1 ELSE 0)]]]

\* _apply_active
Applied ==
  [e \in Equipment |-> [m \in Metric |->
     IF Raises(e, m) THEN reading[e][m]
     ELSE IF Clears(e, m) THEN NoCode ELSE active[e][m]]]

PersistCommit ==
  /\ simPc = "persisting"
  /\ Record
  /\ simPc' = "idle"
  /\ attempt' = 0 /\ active' = Applied /\ reading' = Blank
  /\ UNCHANGED <<shadow, apiVars, faultVars>>

\* Mutant of AttemptFailed: the memory follows although the tick was given up.
AttemptFailedApplied ==
  /\ active' = Applied
  /\ simPc' = "idle" /\ attempt' = 0 /\ reading' = Blank

\* An attempt that reported an error: retry once, then give this tick up and
\* leave the memory as it was.
AttemptFailed ==
  /\ UNCHANGED active
  /\ \/ /\ attempt < PERSIST_RETRY
        /\ attempt' = attempt + 1
        /\ UNCHANGED <<simPc, reading>>
     \/ /\ attempt = PERSIST_RETRY
        /\ simPc' = "idle" /\ attempt' = 0 /\ reading' = Blank

PersistFail ==
  /\ simPc = "persisting"
  /\ AttemptFailed
  /\ UNCHANGED <<open, telemetry, shadow, apiVars, faultVars>>

\* The database committed, the connection failed before the answer arrived.
PersistLost ==
  /\ simPc = "persisting"
  /\ lostCommits < MaxLostCommits
  /\ Record
  /\ AttemptFailed
  /\ lostCommits' = lostCommits + 1
  /\ UNCHANGED <<shadow, apiVars, seedFailures>>

-----------------------------------------------------------------------------
(* The API process: scoring loop and endpoint.                             *)

ApiStart ==
  /\ apiPc = "down"
  /\ apiPc' = "idle"
  /\ realfire' \in SUBSET Equipment
  /\ UNCHANGED <<open, telemetry, shadow, seen, verdict, simVars, faultVars>>

ApiStop ==
  /\ apiPc # "down"
  /\ apiPc' = "down"
  /\ seen' = {} /\ verdict' = [e \in Equipment |-> Unscored]
  /\ UNCHANGED <<open, telemetry, shadow, realfire, simVars, faultVars>>

AnomalyOpen(e) == \E m \in Metric : open[e][m][ANOMALY_ALARM_CODE] > 0

\* The active set of the sink an equipment is routed to.
ActiveInSink(e) == IF e \in realfire THEN AnomalyOpen(e) ELSE shadow[e] > 0

\* score_once up to the writes: both active sets are read first, then every
\* equipment is scored from its recent series.
ScoreBegin ==
  /\ apiPc = "idle"
  /\ apiPc' = "scoring"
  /\ seen' = {e \in Equipment : ActiveInSink(e)}
  /\ verdict' \in [Equipment -> Metric \cup {Quiet, Unscored}]
  /\ UNCHANGED <<open, telemetry, shadow, realfire, simVars, faultVars>>

\* Mutant of Recovers: the membership test is negated.
RecoversInactive(e) == verdict[e] = Quiet /\ e \notin seen

Fires(e) == verdict[e] \in Metric /\ e \notin seen
Recovers(e) == verdict[e] = Quiet /\ e \in seen

ScoreCommit ==
  /\ apiPc = "scoring"
  /\ apiPc' = "idle"
  /\ open' = [e \in Equipment |-> [m \in Metric |-> [c \in Code |->
       IF e \in realfire /\ c = ANOMALY_ALARM_CODE
       THEN IF Recovers(e) THEN 0
            ELSE open[e][m][c] + (IF Fires(e) /\ m = verdict[e] THEN 1 ELSE 0)
       ELSE open[e][m][c]]]]
  /\ shadow' = [e \in Equipment |->
       IF e \in realfire THEN shadow[e]
       ELSE IF Recovers(e) THEN 0
            ELSE shadow[e] + (IF Fires(e) THEN 1 ELSE 0)]
  /\ seen' = {} /\ verdict' = [e \in Equipment |-> Unscored]
  /\ UNCHANGED <<telemetry, realfire, simVars, faultVars>>

\* Any error in the cycle: rollback, the loop tries again next interval.
ScoreFail ==
  /\ apiPc = "scoring"
  /\ apiPc' = "idle"
  /\ seen' = {} /\ verdict' = [e \in Equipment |-> Unscored]
  /\ UNCHANGED <<open, telemetry, shadow, realfire, simVars, faultVars>>

\* clear_equipment_alarm: closes every open row of the equipment.
ManualClear(e) ==
  /\ apiPc # "down"
  /\ open' = [open EXCEPT ![e] = [m \in Metric |-> [c \in Code |-> 0]]]
  /\ UNCHANGED <<telemetry, shadow, simVars, apiVars, faultVars>>

-----------------------------------------------------------------------------

Next ==
  \/ SimStart \/ SimStartUnseeded \/ SimCrash
  \/ Tick \/ PersistCommit \/ PersistFail \/ PersistLost
  \/ ApiStart \/ ApiStop
  \/ ScoreBegin \/ ScoreCommit \/ ScoreFail
  \/ \E e \in Equipment : ManualClear(e)

Spec == Init /\ [][Next]_vars

-----------------------------------------------------------------------------
(* Properties.                                                             *)

\* The shape of every variable.
TypeOK ==
  /\ open \in [Equipment -> [Metric -> [Code -> Nat]]]
  /\ telemetry \in [Equipment -> [Metric -> RuleCode \cup {NoCode}]]
  /\ simPc \in {"down", "idle", "persisting"}
  /\ attempt \in 0..PERSIST_RETRY
  /\ active \in [Equipment -> [Metric -> Code \cup {NoCode}]]
  /\ reading \in [Equipment -> [Metric -> RuleCode \cup {NoCode}]]
  /\ shadow \in [Equipment -> Nat]
  /\ apiPc \in {"down", "idle", "scoring"}
  /\ realfire \subseteq Equipment
  /\ seen \subseteq Equipment
  /\ verdict \in [Equipment -> Metric \cup {Quiet, Unscored}]
  /\ seedFailures \in 0..MaxSeedFailures
  /\ lostCommits \in 0..MaxLostCommits

\* A variable has at most one open rule row, over every interleaving of
\* ticks, retries, crashes, restarts, scoring and manual clears: _persist
\* closes before it inserts, and a restart seeds the memory from the journal.
\* Needs that no seeding query failed and no commit was lost.
RuleAlarmUnique ==
  \A e \in Equipment, m \in Metric, c, d \in RuleCode :
    open[e][m][c] > 0 /\ open[e][m][d] > 0 => c = d /\ open[e][m][c] = 1

\* A running simulator remembers something for every variable that has an
\* open rule row, if only the WRN-901 it found there at start: this is what
\* makes it close the row before it opens another.
MemoryCoversJournal ==
  simPc # "down" =>
    \A e \in Equipment, m \in Metric, c \in RuleCode :
      open[e][m][c] > 0 => active[e][m] \in {c, ANOMALY_ALARM_CODE}

\* The journal never shows a rule alarm the newest committed telemetry row
\* does not: both are written by the same transaction (docstring of _persist).
NoStaleRuleAlarm ==
  \A e \in Equipment, m \in Metric, c \in RuleCode :
    open[e][m][c] > 0 => telemetry[e][m] = c

\* A composite cooling fault is never split: while ERR-402 is open on the
\* temperature channel no rule alarm is open on pressure, and temperature
\* shows no single code (surface_codes, through every retry and restart).
CompositeNotSplit ==
  \A e \in Equipment :
    "temperature" \in Metric /\ open[e]["temperature"]["ERR-402"] > 0 =>
      \A m \in COMPOSITE_SUPPRESSED \cap Metric, c \in RuleCode :
        open[e][m][c] > 0 => m = COMPOSITE_METRIC /\ c = COMPOSITE_COOLING

\* The scorer keeps at most one open WRN-901 per equipment over all channels,
\* and at most one open shadow row, although it decides from an active set
\* read before the cycle and its rows are closed under it by the simulator
\* and the endpoint (active_anomaly_equipment: no duplicate raise).
AnomalyUnique ==
  \A e \in Equipment :
    /\ shadow[e] <= 1
    /\ \A m, n \in Metric :
         open[e][m][ANOMALY_ALARM_CODE] > 0 /\ open[e][n][ANOMALY_ALARM_CODE] > 0
           => m = n /\ open[e][m][ANOMALY_ALARM_CODE] = 1

\* What the cycle in progress did not find active is still not open: only the
\* scorer opens these rows, and it runs one cycle at a time.
SnapshotSafe ==
  apiPc = "scoring" =>
    \A e \in Equipment \ seen :
      IF e \in realfire THEN ~AnomalyOpen(e) ELSE shadow[e] = 0

\* No seeding query has failed and no commit has been lost.
Clean == seedFailures = 0 /\ lostCommits = 0

\* The journal tells one story although two processes and an endpoint write it:
\* one anomaly alarm per equipment whatever fails, and up to the first failed
\* seeding or lost commit one rule alarm per variable, that of the newest tick,
\* and a composite fault in one piece (_persist, surface_codes,
\* active_anomaly_equipment).
JournalSound ==
  /\ AnomalyUnique /\ SnapshotSafe
  /\ Clean => /\ RuleAlarmUnique /\ MemoryCoversJournal /\ NoStaleRuleAlarm
              /\ CompositeNotSplit

\* A variable is muted when the simulator remembers a rule alarm the journal
\* no longer shows; it raises nothing there until the code changes.
Muted(e, m) == active[e][m] \in RuleCode /\ open[e][m][active[e][m]] = 0

\* Memory and journal part only by the clear-alarm endpoint or a commit whose
\* answer is lost: no tick, failed attempt, crash, restart, failed seeding or
\* scoring cycle mutes a variable.
MutedOnlyByHand ==
  [][\A e \in Equipment, m \in Metric :
       ~Muted(e, m) /\ Muted(e, m)' => ManualClear(e) \/ PersistLost]_vars

\* Each failed seeding and each lost commit leaves at most one extra open row
\* of a code behind: the damage of these faults adds up, it never multiplies.
DuplicatesBounded ==
  \A e \in Equipment, m \in Metric, c \in RuleCode :
    open[e][m][c] <= 1 + seedFailures + lostCommits

-----------------------------------------------------------------------------
(* Liveness.  Compose restarts a stopped container and both loops run for  *)
(* ever.  Crashes and database outages end: a step that restarts and       *)
(* retries make possible again and again is taken (strong fairness).       *)

Fairness ==
  /\ WF_vars(SimStart)
  /\ SF_vars(Tick) /\ SF_vars(PersistCommit)
  /\ WF_vars(ApiStart)
  /\ SF_vars(ScoreBegin) /\ SF_vars(ScoreCommit)

FairSpec == Spec /\ Fairness

\* A rule condition that from some time on every tick surfaces shows in the
\* journal again and again, however often ticks fail and the simulator
\* restarts, unless it was cleared by hand.
PersistentFaultRaised ==
  \A e \in Equipment, m \in Metric, c \in RuleCode :
    <>[](simPc = "persisting" => reading[e][m] = c)
      => []<>(open[e][m][c] > 0 \/ Muted(e, m))

\* A variable that stays normal ends up without any open rule row, unless a
\* failed seeding or a lost commit left a row behind that no memory knows of.
NormalEndsAlarm ==
  \A e \in Equipment, m \in Metric :
    (/\ <>[](simPc = "persisting" => reading[e][m] = NoCode)
     /\ []Clean)
      => <>[](\A c \in RuleCode : open[e][m][c] = 0)

\* A persistent anomaly on equipment routed to the real journal is open again
\* and again although simulator and endpoint close its row, and equipment
\* that stays quiet ends up without one.
AnomalyFollowsVerdict ==
  \A e \in Equipment :
    <>[](e \in realfire) =>
      /\ <>[](apiPc = "scoring" => verdict[e] \in Metric) => []<>AnomalyOpen(e)
      /\ <>[](apiPc = "scoring" => verdict[e] = Quiet) => <>[]~AnomalyOpen(e)

-----------------------------------------------------------------------------
(* What comments of the code promise and the code does not keep.           *)

\* simulator/main.py _load_active_alarms: "even after a restart no duplicate
\* raise".  Same formula as RuleAlarmUnique, with seeding queries that fail.
NoDuplicateAfterRestart == RuleAlarmUnique

=============================================================================
