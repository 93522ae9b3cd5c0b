------------------------ MODULE AlarmJournal_proofs ------------------------
(* Proofs about the alarm journal, for every value of the constants.       *)
EXTENDS AlarmJournal, TLAPS

-----------------------------------------------------------------------------
(* What one tick may surface.                                              *)

\* Every rule code has one of six priorities.
LEMMA PriorityBounds == \A c \in RuleCode : PRIORITY[c] \in 1..6
BY DEF RuleCode, PRIORITY

\* A non-empty set of rule codes has a most urgent one, so the CHOOSE of the
\* judgement is a member of the set.
LEMMA MostUrgentMember ==
  ASSUME NEW S \in SUBSET RuleCode, S # {}
  PROVE  MostUrgent(S) \in S
<1> DEFINE Least(n) == \E c \in S : PRIORITY[c] = n
           Lower(n) == \A c \in S : PRIORITY[c] > n
<1>1. \A c \in S : PRIORITY[c] \in 1..6
  BY PriorityBounds
<1>2. \A n \in 0..5 : Lower(n) => Lower(n + 1) \/ Least(n + 1)
  BY <1>1
<1>3. \A n \in 1..6 : Lower(n - 1) /\ Least(n)
                       => \E c \in S : \A d \in S : PRIORITY[c] <= PRIORITY[d]
  BY <1>1
<1>4. Lower(0) /\ ~Lower(6)
  BY <1>1
<1>5. \E n \in 1..6 : Lower(n - 1) /\ Least(n)
  <2> HIDE DEF Lower, Least
  <2>1. Lower(0) => Lower(1) \/ Least(1)
    BY <1>2
  <2>2. Lower(1) => Lower(2) \/ Least(2)
    BY <1>2
  <2>3. Lower(2) => Lower(3) \/ Least(3)
    BY <1>2
  <2>4. Lower(3) => Lower(4) \/ Least(4)
    BY <1>2
  <2>5. Lower(4) => Lower(5) \/ Least(5)
    BY <1>2
  <2>6. Lower(5) => Lower(6) \/ Least(6)
    BY <1>2
  <2>7. QED
    BY <1>4, <2>1, <2>2, <2>3, <2>4, <2>5, <2>6
<1>6. QED
  BY <1>3, <1>5 DEF MostUrgent

\* The codes a variable may be judged to carry: rule codes, and never the
\* composite one, which is not a matter of a single variable.
LEMMA CandidatesRule ==
  ASSUME NEW m \in Metric, NEW cond
  PROVE  Candidates(m, cond) \subseteq RuleCode \ {COMPOSITE_COOLING}
BY MetricAssumption
   DEF VARS, Candidates, ACUTE_CODES, DRIFT_CODES, VARIANCE, RuleCode, COMPOSITE_COOLING

\* judge_variables returns at most one non-composite rule code per variable.
LEMMA JudgedType ==
  ASSUME NEW conds
  PROVE  JudgeVariables(conds) \in
           [Metric -> (RuleCode \ {COMPOSITE_COOLING}) \cup {NoCode}]
<1> SUFFICES ASSUME NEW m \in Metric, Candidates(m, conds[m]) # {}
             PROVE  MostUrgent(Candidates(m, conds[m])) \in RuleCode \ {COMPOSITE_COOLING}
  BY DEF JudgeVariables
<1>1. Candidates(m, conds[m]) \subseteq RuleCode \ {COMPOSITE_COOLING}
  BY CandidatesRule
<1>2. QED
  BY <1>1, MostUrgentMember

\* What a tick surfaces is a rule code or nothing for each variable, and a
\* composite fault leaves pressure without a code.
LEMMA SurfaceableFacts ==
  ASSUME NEW s \in Surfaceable
  PROVE  /\ s \in [Metric -> RuleCode \cup {NoCode}]
         /\ \A m \in Metric : s[m] = COMPOSITE_COOLING => m = COMPOSITE_METRIC
         /\ COMPOSITE_METRIC \in Metric /\ s[COMPOSITE_METRIC] = COMPOSITE_COOLING
              => \A m \in (COMPOSITE_SUPPRESSED \cap Metric) \ {COMPOSITE_METRIC} :
                   s[m] = NoCode
<1>1. PICK conds \in [Metric -> Condition] :
        s = SurfaceCodes(JudgeVariables(conds), DetectCoolingFault(conds))
  BY DEF Surfaceable
<1> DEFINE judged == JudgeVariables(conds)
<1>2. judged \in [Metric -> (RuleCode \ {COMPOSITE_COOLING}) \cup {NoCode}]
  BY JudgedType
<1>3. COMPOSITE_COOLING \in RuleCode /\ NoCode # COMPOSITE_COOLING
  BY DEF COMPOSITE_COOLING, RuleCode, NoCode
<1> HIDE DEF judged
<1>4. CASE DetectCoolingFault(conds)
  <2>1. s = [m \in Metric |->
               IF m \notin COMPOSITE_SUPPRESSED THEN judged[m]
               ELSE IF m = COMPOSITE_METRIC THEN COMPOSITE_COOLING ELSE NoCode]
    BY <1>1, <1>4 DEF SurfaceCodes, judged
  <2>2. QED
    BY <2>1, <1>2, <1>3
<1>5. CASE ~DetectCoolingFault(conds)
  <2>1. s = judged
    BY <1>1, <1>5 DEF SurfaceCodes, judged
  <2>2. QED
    BY <2>1, <1>2, <1>3
<1>6. QED
  BY <1>4, <1>5

-----------------------------------------------------------------------------
(* Type correctness.                                                       *)

\* The journal and telemetry left by a tick's transaction, and the memory
\* after it, keep their shape.
LEMMA RecordType ==
  ASSUME TypeOK, Record
  PROVE  /\ open' \in [Equipment -> [Metric -> [Code -> Nat]]]
         /\ telemetry' \in [Equipment -> [Metric -> RuleCode \cup {NoCode}]]
BY DEF TypeOK, Record

LEMMA AppliedType ==
  ASSUME TypeOK
  PROVE  Applied \in [Equipment -> [Metric -> Code \cup {NoCode}]]
BY DEF TypeOK, Applied, Code

\* A failed attempt keeps the retry count in range and the rest typed.
LEMMA AttemptFailedType ==
  ASSUME TypeOK, simPc = "persisting", AttemptFailed
  PROVE  /\ simPc' \in {"idle", "persisting"}
         /\ attempt' \in 0..PERSIST_RETRY
         /\ active' = active
         /\ reading' \in [Equipment -> [Metric -> RuleCode \cup {NoCode}]]
BY DEF TypeOK, AttemptFailed, PERSIST_RETRY, Blank

LEMMA InitType == Init => TypeOK
BY BoundAssumption DEF Init, TypeOK, Blank, Unscored, PERSIST_RETRY

LEMMA NextType == TypeOK /\ [Next]_vars => TypeOK'
<1> SUFFICES ASSUME TypeOK, [Next]_vars PROVE TypeOK'
  OBVIOUS
<1> USE BoundAssumption
<1>1. CASE SimStart
  BY <1>1 DEF TypeOK, SimStart, Seeds, apiVars, faultVars
<1>2. CASE SimStartUnseeded
  BY <1>2 DEF TypeOK, SimStartUnseeded, Blank, apiVars
<1>3. CASE SimCrash
  BY <1>3 DEF TypeOK, SimCrash, Blank, PERSIST_RETRY, apiVars, faultVars
<1>4. CASE Tick
  <2>1. reading' \in [Equipment -> [Metric -> RuleCode \cup {NoCode}]]
    BY <1>4, SurfaceableFacts DEF Tick
  <2>2. QED
    BY <1>4, <2>1 DEF TypeOK, Tick, apiVars, faultVars
<1>5. CASE PersistCommit
  <2>1. /\ simPc' = "idle" /\ attempt' = 0 /\ active' = Applied /\ reading' = Blank
        /\ Record /\ UNCHANGED <<shadow, apiVars, faultVars>>
    BY <1>5 DEF PersistCommit
  <2>2. Blank \in [Equipment -> [Metric -> RuleCode \cup {NoCode}]] /\ 0 \in 0..PERSIST_RETRY
    BY DEF Blank, PERSIST_RETRY
  <2>3. QED
    BY <2>1, <2>2, RecordType, AppliedType DEF TypeOK, apiVars, faultVars
<1>6. CASE PersistFail
  <2>1. AttemptFailed /\ simPc = "persisting"
        /\ UNCHANGED <<open, telemetry, shadow, apiVars, faultVars>>
    BY <1>6 DEF PersistFail
  <2>2. QED
    BY <2>1, AttemptFailedType DEF TypeOK, apiVars, faultVars
<1>7. CASE PersistLost
  <2>1. /\ Record /\ AttemptFailed /\ simPc = "persisting"
        /\ lostCommits < MaxLostCommits /\ lostCommits' = lostCommits + 1
        /\ UNCHANGED <<shadow, apiVars, seedFailures>>
    BY <1>7 DEF PersistLost
  <2>2. lostCommits' \in 0..MaxLostCommits
    BY <2>1 DEF TypeOK
  <2>3. QED
    BY <2>1, <2>2, RecordType, AttemptFailedType DEF TypeOK, apiVars
<1>8. CASE ApiStart
  BY <1>8 DEF TypeOK, ApiStart, simVars, faultVars
<1>9. CASE ApiStop
  BY <1>9 DEF TypeOK, ApiStop, simVars, faultVars, Unscored
<1>10. CASE ScoreBegin
  BY <1>10 DEF TypeOK, ScoreBegin, simVars, faultVars
<1>11. CASE ScoreCommit
  <2>1. open' \in [Equipment -> [Metric -> [Code -> Nat]]]
    BY <1>11 DEF TypeOK, ScoreCommit
  <2>2. shadow' \in [Equipment -> Nat]
    BY <1>11 DEF TypeOK, ScoreCommit
  <2>3. seen' \subseteq Equipment /\ verdict' \in [Equipment -> Metric \cup {Quiet, Unscored}]
        /\ apiPc' \in {"down", "idle", "scoring"}
        /\ UNCHANGED <<telemetry, realfire, simVars, faultVars>>
    BY <1>11 DEF ScoreCommit
  <2>4. QED
    BY <2>1, <2>2, <2>3 DEF TypeOK, simVars, faultVars
<1>12. CASE ScoreFail
  BY <1>12 DEF TypeOK, ScoreFail, simVars, faultVars, Unscored
<1>13. ASSUME NEW e \in Equipment, ManualClear(e) PROVE TypeOK'
  BY <1>13 DEF TypeOK, ManualClear, simVars, apiVars, faultVars
<1>14. CASE UNCHANGED vars
  BY <1>14 DEF TypeOK, vars, simVars, apiVars, faultVars
<1>15. QED
  BY <1>1, <1>2, <1>3, <1>4, <1>5, <1>6, <1>7, <1>8, <1>9, <1>10, <1>11, <1>12,
     <1>13, <1>14 DEF Next

\* Every variable of the alarm system keeps its shape, whatever the equipment,
\* the sensor variables and the numbers of faults: in particular a tick is
\* attempted at most 1 + PERSIST_RETRY times and the memory never holds a
\* value that is not a code.
THEOREM TypeCorrect == Spec => []TypeOK
BY InitType, NextType, PTL DEF Spec

-----------------------------------------------------------------------------
(* The scorer's rows.                                                      *)

\* The inductive invariant: what a cycle did not find active is still closed.
AnomalyInv == TypeOK /\ AnomalyUnique /\ SnapshotSafe

\* A tick's transaction never opens WRN-901: it can only close its rows.
LEMMA RecordClosesAnomaly ==
  ASSUME TypeOK, Record, NEW e \in Equipment, NEW m \in Metric
  PROVE  open'[e][m][ANOMALY_ALARM_CODE] \in {0, open[e][m][ANOMALY_ALARM_CODE]}
<1>1. reading[e][m] # ANOMALY_ALARM_CODE /\ ANOMALY_ALARM_CODE \in Code
  BY DEF TypeOK, RuleCode, NoCode, ANOMALY_ALARM_CODE, Code
<1>2. open[e][m][ANOMALY_ALARM_CODE] \in Nat
  BY <1>1 DEF TypeOK
<1>3. QED
  BY <1>1, <1>2 DEF Record

\* A step that at most closes scorer rows and leaves the scorer alone keeps
\* the invariant's two safety parts.
LEMMA AnomalyShrinks ==
  ASSUME AnomalyInv,
         \A e \in Equipment, m \in Metric :
           open'[e][m][ANOMALY_ALARM_CODE] \in {0, open[e][m][ANOMALY_ALARM_CODE]},
         shadow' = shadow,
         apiPc' # "scoring" \/ UNCHANGED apiVars
  PROVE  AnomalyUnique' /\ SnapshotSafe'
<1>1. AnomalyUnique'
  BY DEF AnomalyInv, AnomalyUnique
<1>2. SnapshotSafe'
  <2> SUFFICES ASSUME apiPc' = "scoring", UNCHANGED apiVars
               PROVE  \A e \in Equipment \ seen :
                        IF e \in realfire THEN ~AnomalyOpen(e)' ELSE shadow[e] = 0
    BY DEF SnapshotSafe, apiVars
  <2>1. \A e \in Equipment \ seen : IF e \in realfire THEN ~AnomalyOpen(e) ELSE shadow[e] = 0
    BY DEF AnomalyInv, SnapshotSafe, apiVars
  <2>2. \A e \in Equipment : AnomalyOpen(e)' => AnomalyOpen(e)
    BY DEF AnomalyOpen
  <2>3. QED
    BY <2>1, <2>2
<1>3. QED
  BY <1>1, <1>2

\* A committed cycle raises only where its snapshot found nothing, and where
\* the snapshot found nothing nothing is open.
LEMMA ScoreCommitUnique ==
  ASSUME AnomalyInv, ScoreCommit
  PROVE  AnomalyUnique' /\ SnapshotSafe'
<1> DEFINE A == ANOMALY_ALARM_CODE
<1> USE DEF AnomalyInv
<1>1. A \in Code
  BY DEF Code
<1>2. ASSUME NEW e \in Equipment PROVE shadow'[e] <= 1
  <2>1. shadow[e] \in Nat /\ shadow[e] <= 1
    BY DEF TypeOK, AnomalyUnique
  <2>2. Fires(e) /\ e \notin realfire => shadow[e] = 0
    BY DEF ScoreCommit, SnapshotSafe, Fires
  <2>3. QED
    BY <2>1, <2>2 DEF ScoreCommit
<1>3. ASSUME NEW e \in Equipment, NEW m \in Metric, NEW n \in Metric,
             open'[e][m][A] > 0, open'[e][n][A] > 0
      PROVE  m = n /\ open'[e][m][A] = 1
  <2>1. \A k \in Metric : open[e][k][A] \in Nat
    BY <1>1 DEF TypeOK
  <2>2. CASE e \notin realfire
    <3>1. \A k \in Metric : open'[e][k][A] = open[e][k][A]
      BY <2>2, <1>1 DEF ScoreCommit
    <3>2. QED
      BY <3>1, <1>3 DEF AnomalyUnique
  <2>3. CASE e \in realfire /\ Fires(e)
    <3>1. \A k \in Metric : open[e][k][A] = 0
      BY <2>3, <2>1 DEF ScoreCommit, SnapshotSafe, Fires, AnomalyOpen
    <3>2. ~Recovers(e)
      BY <2>3 DEF Fires, Recovers
    <3>3. \A k \in Metric : open'[e][k][A] = IF k = verdict[e] THEN 1 ELSE 0
      BY <2>3, <3>1, <3>2, <1>1 DEF ScoreCommit
    <3>4. QED
      BY <3>3, <1>3
  <2>4. CASE e \in realfire /\ ~Fires(e)
    <3>1. \A k \in Metric : open'[e][k][A] \in {0, open[e][k][A]}
      BY <2>4, <2>1, <1>1 DEF ScoreCommit
    <3>2. QED
      BY <3>1, <1>3, <2>1 DEF AnomalyUnique
  <2>5. QED
    BY <2>2, <2>3, <2>4
<1>4. SnapshotSafe'
  BY DEF ScoreCommit, SnapshotSafe
<1>5. QED
  BY <1>2, <1>3, <1>4 DEF AnomalyUnique

LEMMA NextAnomaly == AnomalyInv /\ [Next]_vars => AnomalyInv'
<1> SUFFICES ASSUME AnomalyInv, [Next]_vars
             PROVE  AnomalyUnique' /\ SnapshotSafe'
  BY NextType DEF AnomalyInv
<1>1. \A e \in Equipment, m \in Metric : open[e][m][ANOMALY_ALARM_CODE] \in Nat
  BY DEF AnomalyInv, TypeOK, Code
<1>2. CASE UNCHANGED <<open, shadow, apiVars>>
  BY <1>2, AnomalyShrinks
<1>3. CASE Record /\ UNCHANGED <<shadow, apiVars>>
  <2>1. TypeOK
    BY DEF AnomalyInv
  <2>2. QED
    BY <1>3, <2>1, RecordClosesAnomaly, AnomalyShrinks
<1>4. CASE ApiStart \/ ApiStop \/ ScoreFail
  <2>1. apiPc' # "scoring" /\ open' = open /\ shadow' = shadow
    BY <1>4 DEF ApiStart, ApiStop, ScoreFail
  <2>2. QED
    BY <2>1, AnomalyShrinks
<1>5. CASE ScoreBegin
  <2>1. /\ UNCHANGED <<open, shadow, realfire>>
        /\ seen' = {e \in Equipment : ActiveInSink(e)}
    BY <1>5 DEF ScoreBegin
  <2>2. \A e \in Equipment : AnomalyOpen(e)' <=> AnomalyOpen(e)
    BY <2>1 DEF AnomalyOpen
  <2>3. \A e \in Equipment : shadow[e] \in Nat
    BY DEF AnomalyInv, TypeOK
  <2>4. SnapshotSafe'
    BY <2>1, <2>2, <2>3 DEF SnapshotSafe, ActiveInSink
  <2>5. QED
    BY <2>1, <2>4 DEF AnomalyInv, AnomalyUnique
<1>6. CASE ScoreCommit
  BY <1>6, ScoreCommitUnique
<1>7. ASSUME NEW e \in Equipment, ManualClear(e) PROVE AnomalyUnique' /\ SnapshotSafe'
  <2>1. \A f \in Equipment, m \in Metric :
          open'[f][m][ANOMALY_ALARM_CODE] \in {0, open[f][m][ANOMALY_ALARM_CODE]}
    BY <1>7 DEF ManualClear, AnomalyInv, TypeOK, Code
  <2>2. shadow' = shadow /\ UNCHANGED apiVars
    BY <1>7 DEF ManualClear
  <2>3. QED
    BY <2>1, <2>2, AnomalyShrinks
<1>8. QED
  BY <1>2, <1>3, <1>4, <1>5, <1>6, <1>7
     DEF Next, SimStart, SimStartUnseeded, SimCrash, Tick, PersistCommit, PersistFail,
         PersistLost, vars

LEMMA InitAnomaly == Init => AnomalyInv
BY InitType DEF Init, AnomalyInv, AnomalyUnique, SnapshotSafe, Code

\* At most one WRN-901 is open per equipment and at most one shadow row, for
\* every equipment set, every set of sensor variables and every number of
\* seeding failures and lost commits: the scorer's snapshot may be stale, but
\* only in the direction of rows that have been closed since.
THEOREM AnomalyAlwaysUnique == Spec => []AnomalyUnique
<1>1. AnomalyInv => AnomalyUnique
  BY DEF AnomalyInv
<1>2. QED
  BY <1>1, InitAnomaly, NextAnomaly, PTL DEF Spec

-----------------------------------------------------------------------------
(* The simulator's rows, up to the first failed seeding or lost commit.     *)

\* Uniqueness is not inductive alone: a raise keeps it because the memory
\* covers every open row, and then the clear that comes with it closes the row.
RuleInv == TypeOK /\ RuleAlarmUnique /\ MemoryCoversJournal /\ NoStaleRuleAlarm

\* No code is "no code", and WRN-901 is not one of the rules' codes.
LEMMA CodesDistinct ==
  /\ RuleCode \subseteq Code
  /\ NoCode \notin Code
  /\ ANOMALY_ALARM_CODE \in Code
  /\ ANOMALY_ALARM_CODE \notin RuleCode
BY DEF RuleCode, Code, NoCode, ANOMALY_ALARM_CODE

\* A tick's transaction leaves, of a variable's rule rows, the surfaced code's
\* alone: one row, new or kept.
LEMMA RecordRule ==
  ASSUME RuleInv, Record, simPc # "down",
         NEW e \in Equipment, NEW m \in Metric, NEW c \in RuleCode,
         open'[e][m][c] > 0
  PROVE  /\ c = reading[e][m]
         /\ open'[e][m][c] = 1
         /\ Applied[e][m] = c
<1>1. /\ open[e][m][c] \in Nat
      /\ reading[e][m] \in RuleCode \cup {NoCode}
      /\ active[e][m] \in Code \cup {NoCode}
  BY CodesDistinct DEF RuleInv, TypeOK
<1>2. open'[e][m][c] = (IF Clears(e, m) THEN 0 ELSE open[e][m][c])
                         + (IF Raises(e, m) /\ c = reading[e][m] THEN 1 ELSE 0)
  BY CodesDistinct DEF Record
<1>3. open[e][m][c] > 0 => open[e][m][c] = 1 /\ active[e][m] \in {c, ANOMALY_ALARM_CODE}
  BY DEF RuleInv, RuleAlarmUnique, MemoryCoversJournal
<1>4. CASE Raises(e, m)
  <2>1. Clears(e, m) \/ open[e][m][c] = 0
    BY <1>1, <1>3, <1>4, CodesDistinct DEF Raises, Clears
  <2>2. c = reading[e][m] /\ open'[e][m][c] = 1
    BY <1>1, <1>2, <2>1
  <2>3. QED
    BY <2>2, <1>4 DEF Applied
<1>5. CASE ~Raises(e, m)
  <2>1. ~Clears(e, m) /\ open'[e][m][c] = open[e][m][c]
    BY <1>1, <1>2, <1>5
  <2>2. active[e][m] \in {c, ANOMALY_ALARM_CODE}
    BY <2>1, <1>3
  <2>3. active[e][m] # NoCode
    BY <2>2, CodesDistinct
  <2>4. reading[e][m] = active[e][m]
    BY <2>1, <2>3 DEF Clears
  <2>5. active[e][m] = c
    BY <2>2, <2>4, <1>1, CodesDistinct DEF NoCode, ANOMALY_ALARM_CODE
  <2>6. Applied[e][m] = active[e][m]
    BY <1>5, <2>1 DEF Applied
  <2>7. QED
    BY <2>1, <2>4, <2>5, <2>6, <1>3
<1>6. QED
  BY <1>4, <1>5

\* A step that leaves rule rows as they are or closes them, and gives the
\* simulator no new memory, keeps the three invariants.
LEMMA RuleShrinks ==
  ASSUME RuleInv,
         \A e \in Equipment, m \in Metric, c \in RuleCode :
           open'[e][m][c] \in {0, open[e][m][c]},
         telemetry' = telemetry,
         simPc' = "down" \/ (simPc # "down" /\ active' = active)
  PROVE  RuleAlarmUnique' /\ MemoryCoversJournal' /\ NoStaleRuleAlarm'
<1> USE DEF RuleInv
<1>1. RuleAlarmUnique'
  BY DEF RuleAlarmUnique
<1>2. MemoryCoversJournal'
  BY DEF MemoryCoversJournal
<1>3. NoStaleRuleAlarm'
  BY DEF NoStaleRuleAlarm
<1>4. QED
  BY <1>1, <1>2, <1>3

LEMMA NextRule ==
  ASSUME Clean'
  PROVE  RuleInv /\ [Next]_vars => RuleInv'
<1> SUFFICES ASSUME RuleInv, [Next]_vars
             PROVE  RuleAlarmUnique' /\ MemoryCoversJournal' /\ NoStaleRuleAlarm'
  BY NextType DEF RuleInv
<1> USE CodesDistinct
<1>1. \A e \in Equipment, m \in Metric, c \in RuleCode : open[e][m][c] \in Nat
  BY DEF RuleInv, TypeOK
<1>2. CASE SimStart
  <2>1. /\ simPc' = "idle" /\ active' \in Seeds
        /\ UNCHANGED <<open, telemetry>>
    BY <1>2 DEF SimStart
  <2>2. ASSUME NEW e \in Equipment, NEW m \in Metric, NEW c \in RuleCode, open[e][m][c] > 0
        PROVE  active'[e][m] \in {c, ANOMALY_ALARM_CODE}
    <3>1. active'[e][m] \in OpenCodes(e, m)
      BY <2>1, <2>2 DEF Seeds, OpenCodes
    <3>2. active'[e][m] \in RuleCode \cup {ANOMALY_ALARM_CODE} /\ open[e][m][active'[e][m]] > 0
      BY <3>1 DEF OpenCodes, Code
    <3>3. QED
      BY <3>2, <2>2 DEF RuleInv, RuleAlarmUnique
  <2>3. MemoryCoversJournal'
    BY <2>1, <2>2 DEF MemoryCoversJournal
  <2>4. QED
    BY <2>1, <2>3 DEF RuleInv, RuleAlarmUnique, NoStaleRuleAlarm
<1>3. CASE SimStartUnseeded
  BY <1>3 DEF Clean, SimStartUnseeded, RuleInv, TypeOK
<1>4. CASE SimCrash
  BY <1>4, RuleShrinks DEF SimCrash
<1>5. CASE Tick
  BY <1>5, RuleShrinks DEF Tick
<1>6. CASE PersistCommit
  <2>1. Record /\ simPc # "down" /\ active' = Applied /\ telemetry' = reading
    BY <1>6 DEF PersistCommit, Record
  <2>2. \A e \in Equipment, m \in Metric, c \in RuleCode :
          open'[e][m][c] > 0 =>
            c = reading[e][m] /\ open'[e][m][c] = 1 /\ Applied[e][m] = c
    BY <2>1, RecordRule
  <2>3. RuleAlarmUnique'
    BY <2>2 DEF RuleAlarmUnique
  <2>4. MemoryCoversJournal'
    BY <2>1, <2>2 DEF MemoryCoversJournal
  <2>5. NoStaleRuleAlarm'
    BY <2>1, <2>2 DEF NoStaleRuleAlarm
  <2>6. QED
    BY <2>3, <2>4, <2>5
<1>7. CASE PersistFail
  BY <1>7, RuleShrinks DEF PersistFail, AttemptFailed
<1>8. CASE PersistLost
  BY <1>8 DEF Clean, PersistLost, RuleInv, TypeOK
<1>9. CASE UNCHANGED <<open, telemetry, simVars>>
  <2>1. RuleAlarmUnique' /\ NoStaleRuleAlarm'
    BY <1>9 DEF RuleInv, RuleAlarmUnique, NoStaleRuleAlarm
  <2>2. MemoryCoversJournal'
    BY <1>9 DEF RuleInv, MemoryCoversJournal, simVars
  <2>3. QED
    BY <2>1, <2>2
<1>10. ASSUME \A e \in Equipment, m \in Metric, c \in RuleCode :
                open'[e][m][c] \in {0, open[e][m][c]},
              UNCHANGED <<telemetry, simVars>>
       PROVE  RuleAlarmUnique' /\ MemoryCoversJournal' /\ NoStaleRuleAlarm'
  <2>1. CASE simPc = "down"
    BY <1>10, <2>1, RuleShrinks DEF simVars
  <2>2. CASE simPc # "down"
    BY <1>10, <2>2, RuleShrinks DEF simVars
  <2>3. QED
    BY <2>1, <2>2
<1>11. CASE ScoreCommit
  <2>1. \A e \in Equipment, m \in Metric, c \in RuleCode : open'[e][m][c] = open[e][m][c]
    BY <1>11 DEF ScoreCommit
  <2>2. QED
    BY <1>10, <1>11, <2>1 DEF ScoreCommit
<1>12. ASSUME NEW e \in Equipment, ManualClear(e)
       PROVE  RuleAlarmUnique' /\ MemoryCoversJournal' /\ NoStaleRuleAlarm'
  <2>1. \A f \in Equipment, m \in Metric, c \in RuleCode :
          open'[f][m][c] \in {0, open[f][m][c]}
    BY <1>12 DEF ManualClear, RuleInv, TypeOK
  <2>2. QED
    BY <1>10, <1>12, <2>1 DEF ManualClear
<1>13. QED
  BY <1>2, <1>3, <1>4, <1>5, <1>6, <1>7, <1>8, <1>9, <1>11, <1>12
     DEF Next, ApiStart, ApiStop, ScoreBegin, ScoreFail, vars

LEMMA InitRule == Init => RuleInv
BY InitType, CodesDistinct
   DEF Init, RuleInv, RuleAlarmUnique, MemoryCoversJournal, NoStaleRuleAlarm

\* The two faults are counted and never taken back.
LEMMA StaysClean ==
  ASSUME TypeOK, [Next]_vars, Clean'
  PROVE  Clean
BY DEF TypeOK, Clean, Next, SimStart, SimStartUnseeded, SimCrash, Tick, PersistCommit,
       PersistFail, PersistLost, ApiStart, ApiStop, ScoreBegin, ScoreCommit, ScoreFail,
       ManualClear, faultVars, vars

CleanInv == TypeOK /\ (Clean => RuleInv)

LEMMA NextCleanInv == CleanInv /\ [Next]_vars => CleanInv'
<1> SUFFICES ASSUME CleanInv, [Next]_vars PROVE CleanInv'
  OBVIOUS
<1>1. TypeOK'
  BY NextType DEF CleanInv
<1>2. CASE Clean'
  <2>1. RuleInv
    BY <1>2, StaysClean DEF CleanInv
  <2>2. RuleInv'
    BY <1>2, <2>1, NextRule
  <2>3. QED
    BY <1>1, <2>2 DEF CleanInv
<1>3. CASE ~Clean'
  BY <1>1, <1>3 DEF CleanInv
<1>4. QED
  BY <1>2, <1>3

\* Up to the first failed seeding or lost commit a variable never has two open
\* rule rows, for every equipment set and every set of sensor variables.
THEOREM RuleAlarmAlwaysUnique == Spec => [](Clean => RuleAlarmUnique)
<1>1. Init => CleanInv
  BY InitRule DEF CleanInv, RuleInv
<1>2. CleanInv => (Clean => RuleAlarmUnique)
  BY DEF CleanInv, RuleInv
<1>3. QED
  BY <1>1, <1>2, NextCleanInv, PTL DEF Spec

\* As long, an open rule alarm is the one the newest committed telemetry row
\* carries.
THEOREM RuleAlarmNeverStale == Spec => [](Clean => NoStaleRuleAlarm)
<1>1. Init => CleanInv
  BY InitRule DEF CleanInv, RuleInv
<1>2. CleanInv => (Clean => NoStaleRuleAlarm)
  BY DEF CleanInv, RuleInv
<1>3. QED
  BY <1>1, <1>2, NextCleanInv, PTL DEF Spec

-----------------------------------------------------------------------------
(* Composite faults and muted variables.                                   *)

\* A tick's surfaced codes are whole: where temperature carries the composite
\* code pressure carries none, and no other variable carries the composite.
Whole(codes) ==
  /\ \A m \in Metric : codes[m] = COMPOSITE_COOLING => m = COMPOSITE_METRIC
  /\ COMPOSITE_METRIC \in Metric /\ codes[COMPOSITE_METRIC] = COMPOSITE_COOLING
       => \A m \in (COMPOSITE_SUPPRESSED \cap Metric) \ {COMPOSITE_METRIC} :
            codes[m] = NoCode

\* Whatever is being persisted and whatever was last committed is whole.
WholeInv ==
  CleanInv /\ \A e \in Equipment : Whole(reading[e]) /\ Whole(telemetry[e])

LEMMA NextWhole == WholeInv /\ [Next]_vars => WholeInv'
<1> SUFFICES ASSUME WholeInv, [Next]_vars
             PROVE  \A e \in Equipment : Whole(reading'[e]) /\ Whole(telemetry'[e])
  BY NextCleanInv DEF WholeInv, Whole
<1>1. \A e \in Equipment : Whole(reading[e]) /\ Whole(telemetry[e]) /\ Whole(Blank[e])
  BY DEF WholeInv, Whole, Blank, NoCode, COMPOSITE_COOLING
<1>2. CASE Tick
  <2>1. telemetry' = telemetry /\ \A e \in Equipment : reading'[e] \in Surfaceable
    BY <1>2 DEF Tick
  <2>2. \A s \in Surfaceable : Whole(s)
    BY SurfaceableFacts DEF Whole
  <2>3. QED
    BY <1>1, <2>1, <2>2
<1>3. CASE reading' \in {reading, Blank} /\ telemetry' \in {reading, telemetry}
  BY <1>1, <1>3
<1>4. QED
  BY <1>2, <1>3
     DEF Next, SimStart, SimStartUnseeded, SimCrash, PersistCommit, PersistFail,
         PersistLost, Record, AttemptFailed, ApiStart, ApiStop, ScoreBegin, ScoreCommit,
         ScoreFail, ManualClear, vars, simVars

LEMMA WholeShown ==
  ASSUME WholeInv, Clean
  PROVE  CompositeNotSplit
<1> SUFFICES ASSUME NEW e \in Equipment, "temperature" \in Metric,
                    open[e]["temperature"]["ERR-402"] > 0,
                    NEW m \in COMPOSITE_SUPPRESSED \cap Metric,
                    NEW c \in RuleCode, open[e][m][c] > 0
             PROVE  m = COMPOSITE_METRIC /\ c = COMPOSITE_COOLING
  BY DEF CompositeNotSplit
<1>1. telemetry[e]["temperature"] = COMPOSITE_COOLING /\ telemetry[e][m] = c
  BY DEF WholeInv, CleanInv, RuleInv, NoStaleRuleAlarm, RuleCode, COMPOSITE_COOLING
<1>2. Whole(telemetry[e]) /\ COMPOSITE_METRIC = "temperature" /\ c # NoCode
  BY CodesDistinct DEF WholeInv, COMPOSITE_METRIC
<1>3. m = COMPOSITE_METRIC
  BY <1>1, <1>2 DEF Whole
<1>4. QED
  BY <1>1, <1>2, <1>3

\* Every run of the simulator, the scorer and the endpoint keeps the journal
\* sound, for every equipment set, every set of sensor variables and every
\* number of faults: the scorer's alarms always, the simulator's until the
\* first failed seeding or lost commit, across retries, crashes and restarts.
THEOREM JournalAlwaysSound == Spec => []JournalSound
<1>1. Init => WholeInv /\ AnomalyInv
  BY InitRule, InitAnomaly
     DEF Init, WholeInv, CleanInv, RuleInv, Whole, Blank, NoCode, COMPOSITE_COOLING
<1>2. WholeInv /\ AnomalyInv => JournalSound
  BY WholeShown DEF WholeInv, CleanInv, RuleInv, AnomalyInv, JournalSound
<1>3. QED
  BY <1>1, <1>2, NextWhole, NextAnomaly, PTL DEF Spec

\* A committed tick mutes nothing: a code it raises has a new row, a code it
\* keeps has the row it had.
LEMMA CommitMutesNothing ==
  ASSUME TypeOK, PersistCommit, NEW e \in Equipment, NEW m \in Metric,
         ~Muted(e, m)
  PROVE  ~Muted(e, m)'
<1> SUFFICES ASSUME Applied[e][m] \in RuleCode
             PROVE  open'[e][m][Applied[e][m]] # 0
  BY DEF PersistCommit, Muted
<1>1. Applied[e][m] = IF Raises(e, m) THEN reading[e][m]
                      ELSE IF Clears(e, m) THEN NoCode ELSE active[e][m]
  BY DEF Applied
<1>2. \A c \in RuleCode :
        /\ open[e][m][c] \in Nat
        /\ open'[e][m][c] = (IF Clears(e, m) THEN 0 ELSE open[e][m][c])
                              + (IF Raises(e, m) /\ c = reading[e][m] THEN 1 ELSE 0)
  BY CodesDistinct DEF PersistCommit, Record, TypeOK
<1>3. CASE Raises(e, m)
  BY <1>1, <1>2, <1>3
<1>4. CASE ~Raises(e, m)
  <2>1. Applied[e][m] = active[e][m] /\ ~Clears(e, m)
    BY <1>1, <1>4, CodesDistinct
  <2>2. QED
    BY <1>2, <1>4, <2>1 DEF Muted
<1>5. QED
  BY <1>3, <1>4

\* Only the clear-alarm endpoint and lost commits mute a variable, whatever
\* else fails.
THEOREM OnlyHandMutes == Spec => MutedOnlyByHand
<1> DEFINE A == \A e \in Equipment, m \in Metric :
                  ~Muted(e, m) /\ Muted(e, m)' => ManualClear(e) \/ PersistLost
<1>1. TypeOK /\ [Next]_vars => [A]_vars
  <2> SUFFICES ASSUME TypeOK, Next, NEW e \in Equipment, NEW m \in Metric,
                      ~Muted(e, m), Muted(e, m)', ~PersistLost
               PROVE  ManualClear(e)
    OBVIOUS
  <2> USE CodesDistinct
  <2>1. CASE SimStart
    <3>1. active'[e][m] # NoCode /\ open'[e][m][active'[e][m]] = 0 /\ open' = open
      BY <2>1 DEF SimStart, Muted
    <3>2. active'[e][m] \in OpenCodes(e, m)
      BY <2>1, <3>1 DEF SimStart, Seeds
    <3>3. QED
      BY <3>1, <3>2 DEF OpenCodes
  <2>2. CASE active' = Blank
    BY <2>2 DEF Muted, Blank
  <2>3. CASE PersistCommit
    BY <2>3, CommitMutesNothing
  <2>4. CASE UNCHANGED <<open, active>>
    BY <2>4 DEF Muted
  <2>5. CASE ScoreCommit
    <3>1. \A c \in RuleCode : open'[e][m][c] = open[e][m][c]
      BY <2>5 DEF ScoreCommit
    <3>2. QED
      BY <2>5, <3>1 DEF ScoreCommit, simVars, Muted
  <2>6. ASSUME NEW f \in Equipment, ManualClear(f) PROVE ManualClear(e)
    <3>1. CASE f # e
      BY <2>6, <3>1 DEF ManualClear, simVars, Muted, TypeOK
    <3>2. QED
      BY <2>6, <3>1
  <2>7. QED
    BY <2>1, <2>2, <2>3, <2>4, <2>5, <2>6
       DEF Next, SimStartUnseeded, SimCrash, Tick, PersistFail, AttemptFailed, ApiStart,
           ApiStop, ScoreBegin, ScoreFail, simVars
<1>2. QED
  BY <1>1, InitType, NextType, PTL DEF Spec, MutedOnlyByHand

-----------------------------------------------------------------------------
(* What the two faults can cost.                                           *)

\* The bound is not inductive alone: a variable the simulator remembers
\* nothing of may gain a row without losing one, so it must be one short.
DamageInv ==
  /\ TypeOK
  /\ DuplicatesBounded
  /\ simPc # "down" =>
       \A e \in Equipment, m \in Metric, c \in RuleCode :
         active[e][m] = NoCode => open[e][m][c] <= seedFailures + lostCommits

\* The transaction adds a row only where the memory was empty or the old rows
\* are closed with it.
LEMMA RecordDamage ==
  ASSUME DamageInv, Record, simPc # "down",
         NEW e \in Equipment, NEW m \in Metric, NEW c \in RuleCode
  PROVE  /\ open'[e][m][c] <= 1 + seedFailures + lostCommits
         /\ Applied[e][m] = NoCode => open'[e][m][c] <= seedFailures + lostCommits
<1>1. /\ open[e][m][c] \in Nat /\ seedFailures \in Nat /\ lostCommits \in Nat
      /\ open[e][m][c] <= 1 + seedFailures + lostCommits
      /\ active[e][m] = NoCode => open[e][m][c] <= seedFailures + lostCommits
  BY CodesDistinct, BoundAssumption DEF DamageInv, TypeOK, DuplicatesBounded
<1>2. open'[e][m][c] = (IF Clears(e, m) THEN 0 ELSE open[e][m][c])
                         + (IF Raises(e, m) /\ c = reading[e][m] THEN 1 ELSE 0)
  BY CodesDistinct DEF Record
<1>3. Applied[e][m] = IF Raises(e, m) THEN reading[e][m]
                      ELSE IF Clears(e, m) THEN NoCode ELSE active[e][m]
  BY DEF Applied
<1>4. CASE Clears(e, m)
  <2>1. open'[e][m][c] \in {0, 1} /\ (open'[e][m][c] = 1 => Raises(e, m))
    BY <1>2, <1>4
  <2>2. Raises(e, m) => Applied[e][m] # NoCode
    BY <1>3 DEF Raises
  <2>3. QED
    BY <1>1, <2>1, <2>2
<1>5. CASE ~Clears(e, m) /\ Raises(e, m)
  <2>1. active[e][m] = NoCode /\ Applied[e][m] # NoCode
    BY <1>3, <1>5 DEF Clears, Raises
  <2>2. QED
    BY <1>1, <1>2, <1>5, <2>1
<1>6. CASE ~Clears(e, m) /\ ~Raises(e, m)
  BY <1>1, <1>2, <1>3, <1>6
<1>7. QED
  BY <1>4, <1>5, <1>6

LEMMA NextDamage == DamageInv /\ [Next]_vars => DamageInv'
<1> DEFINE Short == simPc # "down" =>
             \A e \in Equipment, m \in Metric, c \in RuleCode :
               active[e][m] = NoCode => open[e][m][c] <= seedFailures + lostCommits
<1> SUFFICES ASSUME DamageInv, [Next]_vars
             PROVE  DuplicatesBounded' /\ Short'
  BY NextType DEF DamageInv
<1> USE CodesDistinct
<1>1. /\ seedFailures \in Nat /\ lostCommits \in Nat
      /\ \A e \in Equipment, m \in Metric, c \in RuleCode :
           open[e][m][c] \in Nat /\ open[e][m][c] <= 1 + seedFailures + lostCommits
  BY BoundAssumption DEF DamageInv, TypeOK, DuplicatesBounded
<1>2. CASE SimStart
  <2>1. /\ active' \in Seeds /\ UNCHANGED <<open, seedFailures, lostCommits>>
    BY <1>2 DEF SimStart, faultVars
  <2>2. ASSUME NEW e \in Equipment, NEW m \in Metric, NEW c \in RuleCode,
               active'[e][m] = NoCode
        PROVE  open[e][m][c] = 0
    <3>1. OpenCodes(e, m) = {}
      BY <2>1, <2>2 DEF Seeds, OpenCodes
    <3>2. QED
      BY <3>1, <1>1 DEF OpenCodes
  <2>3. QED
    BY <1>1, <2>1, <2>2 DEF DamageInv, DuplicatesBounded
<1>3. CASE SimStartUnseeded
  BY <1>1, <1>3 DEF SimStartUnseeded, DuplicatesBounded
<1>4. CASE SimCrash
  BY <1>1, <1>4 DEF SimCrash, faultVars, DuplicatesBounded
<1>5. CASE Tick \/ PersistFail
  BY <1>1, <1>5 DEF Tick, PersistFail, AttemptFailed, faultVars, DamageInv, DuplicatesBounded
<1>6. CASE PersistCommit
  <2>1. Record /\ simPc # "down" /\ active' = Applied /\ UNCHANGED faultVars
    BY <1>6 DEF PersistCommit
  <2>2. QED
    BY <2>1, RecordDamage DEF DuplicatesBounded, faultVars
<1>7. CASE PersistLost
  <2>1. /\ Record /\ simPc # "down" /\ active' = active
        /\ seedFailures' = seedFailures /\ lostCommits' = lostCommits + 1
    BY <1>7 DEF PersistLost, AttemptFailed
  <2>2. \A e \in Equipment, m \in Metric, c \in RuleCode :
          open'[e][m][c] <= 1 + seedFailures + lostCommits /\ open'[e][m][c] \in Nat
    BY <2>1, RecordDamage, RecordType DEF DamageInv
  <2>3. QED
    BY <1>1, <2>1, <2>2 DEF DuplicatesBounded
<1>8. ASSUME \A e \in Equipment, m \in Metric, c \in RuleCode :
               open'[e][m][c] \in {0, open[e][m][c]},
             UNCHANGED <<simVars, faultVars>>
      PROVE  DuplicatesBounded' /\ Short'
  BY <1>1, <1>8 DEF simVars, faultVars, DamageInv, DuplicatesBounded
<1>9. CASE UNCHANGED <<open, simVars, faultVars>>
  BY <1>8, <1>9
<1>10. CASE ScoreCommit
  <2>1. \A e \in Equipment, m \in Metric, c \in RuleCode : open'[e][m][c] = open[e][m][c]
    BY <1>10 DEF ScoreCommit
  <2>2. QED
    BY <1>8, <1>10, <2>1 DEF ScoreCommit
<1>11. ASSUME NEW e \in Equipment, ManualClear(e) PROVE DuplicatesBounded' /\ Short'
  <2>1. \A f \in Equipment, m \in Metric, c \in RuleCode :
          open'[f][m][c] \in {0, open[f][m][c]}
    BY <1>11 DEF ManualClear, DamageInv, TypeOK
  <2>2. QED
    BY <1>8, <1>11, <2>1 DEF ManualClear
<1>12. QED
  BY <1>2, <1>3, <1>4, <1>5, <1>6, <1>7, <1>9, <1>10, <1>11
     DEF Next, ApiStart, ApiStop, ScoreBegin, ScoreFail, vars

\* Each failed seeding and each lost commit leaves at most one more open row of
\* a code behind, for every number of them.
THEOREM DamageAdds == Spec => []DuplicatesBounded
<1>1. Init => DamageInv
  BY InitType, CodesDistinct DEF Init, DamageInv, DuplicatesBounded
<1>2. DamageInv => DuplicatesBounded
  BY DEF DamageInv
<1>3. QED
  BY <1>1, <1>2, NextDamage, PTL DEF Spec

=============================================================================
