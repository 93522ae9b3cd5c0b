---------------------------- MODULE Refit_proofs ----------------------------
(* Proofs about fitting and refitting, for every number of equipment, of   *)
(* process types and of fits, and all bounds on training data.             *)
EXTENDS Refit, TLAPS

-----------------------------------------------------------------------------
(* Type correctness.                                                       *)

LEMMA AtMostType == \A n, m \in Nat : AtMost(n, m) \in 0..m
BY DEF AtMost

LEMMA TrainedType == \A p \in Process : Trained(p) \subseteq Equipment
BY DEF Trained

LEMMA InitTypes == Init => TypeOK
BY RefitAssumption DEF Init, TypeOK, NoFit, NoLimit, Fitter

LEMMA NextTypes == TypeOK /\ [Next]_vars => TypeOK'
<1> SUFFICES ASSUME TypeOK, [Next]_vars PROVE TypeOK'
  OBVIOUS
<1> USE RefitAssumption
<1>1. CASE Elapse
  <2>1. ASSUME NEW n \in 0..Stale + 1 PROVE AtMost(n + 1, Stale + 1) \in 0..Stale + 1
    BY DEF AtMost
  <2>2. fittedAt' \in [Process -> 0..Stale + 1]
    BY <1>1, <2>1 DEF Elapse, TypeOK
  <2>3. age' \in [Process -> 0..Stale + 1]
    BY <1>1, <2>1 DEF Elapse, TypeOK
  <2>4. QED
    BY <1>1, <2>2, <2>3 DEF Elapse, TypeOK, data, fitting, scoring
<1>2. CASE LoadModels \/ LoadLimits \/ EndCycle
  BY <1>2 DEF LoadModels, LoadLimits, EndCycle, TypeOK, NoFit, NoLimit, data, tables, fitting
<1>3. ASSUME NEW e \in Equipment \ Realfire, Telemetry(e)
      PROVE  TypeOK'
  BY <1>3 DEF Telemetry, TypeOK, tables, fitting, scoring
<1>4. ASSUME NEW e \in Equipment \ Realfire, Repair(e)
      PROVE  TypeOK'
  <2>1. repaired' \in [Fitter -> SUBSET Equipment]
    BY <1>4 DEF Repair, TypeOK
  <2>2. recent' \in [Equipment -> 0..Enough] /\ before' \in [Equipment -> 0..1]
    BY <1>4 DEF Repair, TypeOK
  <2>3. overlapped' \subseteq Equipment
    BY <1>4 DEF Repair, TypeOK
  <2>4. QED
    BY <1>4, <2>1, <2>2, <2>3 DEF Repair, TypeOK, tables, scoring
<1>5. ASSUME NEW f \in Fitter, Begin(f)
      PROVE  TypeOK'
  <2>1. Visited(f) \subseteq Process
    BY DEF Visited
  <2>2. runs' \in 0..MaxRuns
    BY <1>5 DEF Begin, TypeOK
  <2>3. QED
    BY <1>5, <2>1, <2>2 DEF Begin, TypeOK, data, tables, scoring
<1>6. ASSUME NEW f \in Fitter, NEW p \in Process, FitType(f, p)
      PROVE  TypeOK'
  <2>1. PICK n \in Counts(f, p) : TooFew(f, p, n) \/ Save(f, p, n)
    BY <1>6 DEF FitType
  <2>2. todo' \in [Fitter -> SUBSET Process]
    BY <2>1 DEF TooFew, Save, TypeOK
  <2>3. /\ fits' \in 0..MaxFits
        /\ written' \in [Fitter -> [Process -> 0..MaxFits]]
        /\ calibrated' \in [Fitter -> [Equipment -> 0..MaxFits]]
        /\ saw' \in [Fitter -> SUBSET Equipment]
    <3>1. CASE TooFew(f, p, n)
      BY <3>1 DEF TooFew, TypeOK
    <3>2. CASE Save(f, p, n)
      <4>1. fits + 1 \in 0..MaxFits /\ fits' = fits + 1
        BY <3>2 DEF Save, TypeOK
      <4>2. written' \in [Fitter -> [Process -> 0..MaxFits]]
        BY <3>2, <4>1 DEF Save, TypeOK
      <4>3. [e \in Equipment |-> IF e \in Trained(p) /\ n[e] >= MinCalibration
                                 THEN fits + 1 ELSE calibrated[f][e]]
              \in [Equipment -> 0..MaxFits]
        BY <4>1 DEF TypeOK
      <4>4. calibrated' \in [Fitter -> [Equipment -> 0..MaxFits]]
        BY <3>2, <4>3 DEF Save, TypeOK
      <4>5. saw' \in [Fitter -> SUBSET Equipment]
        BY <3>2, TrainedType DEF Save, TypeOK
      <4>6. QED
        BY <4>1, <4>2, <4>4, <4>5
    <3>3. QED
      BY <2>1, <3>1, <3>2
  <2>4. QED
    BY <1>6, <2>2, <2>3 DEF FitType, TypeOK, data, tables, scoring
<1>7. ASSUME NEW f \in Fitter, Rest(f)
      PROVE  /\ pc' \in [Fitter -> {"idle", "fitting"}] /\ todo' \in [Fitter -> SUBSET Process]
             /\ repaired' \in [Fitter -> SUBSET Equipment]
             /\ saw' \in [Fitter -> SUBSET Equipment]
             /\ written' \in [Fitter -> [Process -> 0..MaxFits]]
             /\ calibrated' \in [Fitter -> [Equipment -> 0..MaxFits]]
  BY <1>7 DEF Rest, TypeOK, NoFit, NoLimit
<1>8. ASSUME NEW f \in Fitter, Commit(f)
      PROVE  TypeOK'
  <2>1. Rest(f)
    BY <1>8 DEF Commit
  <2>2. model' \in [Process -> 0..MaxFits] /\ age' \in [Process -> 0..Stale + 1]
    BY <1>8 DEF Commit, TypeOK
  <2>3. mixed' \in [Process -> SUBSET Equipment]
    BY <1>8, TrainedType DEF Commit, TypeOK
  <2>4. fittedAt' \in [Process -> 0..Stale + 1]
    BY <1>8 DEF Commit, FittedAt, TypeOK
  <2>5. calibration' \in [Equipment -> 0..MaxFits]
    BY <1>8 DEF Commit, TypeOK
  <2>6. between' \subseteq Process
    BY <1>8 DEF Commit, TypeOK
  <2>7. QED
    BY <1>7, <1>8, <2>1, <2>2, <2>3, <2>4, <2>5, <2>6 DEF Commit, TypeOK, data
<1>9. ASSUME NEW f \in Fitter, Fail(f)
      PROVE  TypeOK'
  <2>1. Rest(f)
    BY <1>9 DEF Fail
  <2>2. QED
    BY <1>7, <1>9, <2>1 DEF Fail, TypeOK, data, tables, scoring
<1>10. CASE UNCHANGED vars
  BY <1>10 DEF TypeOK, vars, data, tables, fitting, scoring
<1>11. QED
  BY <1>1, <1>2, <1>3, <1>4, <1>5, <1>6, <1>8, <1>9, <1>10 DEF Next

\* Telemetry, tables, fits and scorer have the shapes of TypeOK.
THEOREM RefitTypes == Spec => []TypeOK
BY InitTypes, NextTypes, PTL DEF Spec

-----------------------------------------------------------------------------
(* What was trained with windows from before a repair.                     *)

RepairInv ==
  /\ RepairRespected
  /\ \A f \in Fitter : repaired[f] \subseteq overlapped /\ saw[f] \subseteq overlapped

LEMMA NextRepair == TypeOK /\ RepairInv /\ [Next]_vars => RepairInv'
<1> SUFFICES ASSUME TypeOK, RepairInv, [Next]_vars PROVE RepairInv'
  OBVIOUS
<1> USE DEF TypeOK, RepairInv, RepairRespected
<1>1. CASE Elapse \/ LoadModels \/ LoadLimits \/ EndCycle
  BY <1>1 DEF Elapse, LoadModels, LoadLimits, EndCycle, tables, fitting
<1>2. ASSUME NEW e \in Equipment \ Realfire, Telemetry(e)
      PROVE  RepairInv'
  BY <1>2 DEF Telemetry, tables, fitting
<1>3. ASSUME NEW e \in Equipment \ Realfire, Repair(e)
      PROVE  RepairInv'
  <2>1. overlapped \subseteq overlapped'
    BY <1>3 DEF Repair
  <2>2. \A f \in Fitter : repaired'[f] \subseteq overlapped'
    BY <1>3 DEF Repair
  <2>3. QED
    BY <1>3, <2>1, <2>2 DEF Repair, tables
<1>4. ASSUME NEW f \in Fitter, Begin(f)
      PROVE  RepairInv'
  BY <1>4 DEF Begin, tables
<1>5. ASSUME NEW f \in Fitter, NEW p \in Process, FitType(f, p)
      PROVE  RepairInv'
  <2>1. PICK n \in Counts(f, p) : TooFew(f, p, n) \/ Save(f, p, n)
    BY <1>5 DEF FitType
  <2>2. {e \in Trained(p) : Early(f, e) > 0} \subseteq repaired[f]
    BY DEF Early
  <2>3. CASE TooFew(f, p, n)
    BY <1>5, <2>3 DEF TooFew, FitType, tables
  <2>4. CASE Save(f, p, n)
    <3>1. saw' = [saw EXCEPT ![f] = @ \cup {e \in Trained(p) : Early(f, e) > 0}]
      BY <2>4 DEF Save
    <3>2. \A g \in Fitter : saw'[g] \subseteq saw[g] \cup repaired[g]
      BY <2>2, <3>1 DEF TypeOK
    <3>3. UNCHANGED <<repaired, mixed, overlapped>>
      BY <1>5 DEF FitType, tables
    <3>4. QED
      BY <3>2, <3>3
  <2>5. QED
    BY <2>1, <2>3, <2>4
<1>6. ASSUME NEW f \in Fitter, Commit(f)
      PROVE  RepairInv'
  BY <1>6 DEF Commit, Rest
<1>7. ASSUME NEW f \in Fitter, Fail(f)
      PROVE  RepairInv'
  BY <1>7 DEF Fail, Rest, tables
<1>8. CASE UNCHANGED vars
  BY <1>8 DEF vars, tables, fitting
<1>9. QED
  BY <1>1, <1>2, <1>3, <1>4, <1>5, <1>6, <1>7, <1>8 DEF Next

\* A model has seen windows from before a repair only if the repair came while
\* a fit was running (fit.py:43-48, 115-134).
THEOREM RepairAlwaysRespected == Spec => []RepairRespected
<1>1. Init => RepairInv
  BY DEF Init, RepairInv, RepairRespected
<1>2. RepairInv => RepairRespected
  BY DEF RepairInv
<1>3. QED
  BY <1>1, <1>2, InitTypes, NextTypes, NextRepair, PTL DEF Spec

-----------------------------------------------------------------------------
(* Limits and models.                                                      *)

\* Fits are numbered as they are made; an uncommitted model is newer than the
\* stored one and the only one of its type, as its row is locked; a limit never
\* comes from a later fit than its model, stored or not.
LimitInv ==
  /\ CalibrationNotAhead
  /\ \A p \in Process : model[p] <= fits
  /\ \A f \in Fitter, p \in Process :
       written[f][p] # 0 =>
         /\ model[p] < written[f][p] /\ written[f][p] <= fits
         /\ \A g \in Fitter \ {f} : written[g][p] = 0
  /\ \A f \in Fitter, e \in Equipment : calibrated[f][e] <= written[f][TypeOf[e]]

LEMMA InitLimit == Init => LimitInv
BY RefitAssumption DEF Init, LimitInv, CalibrationNotAhead, NoFit, NoLimit

LEMMA NextLimit == TypeOK /\ LimitInv /\ [Next]_vars => LimitInv'
<1> SUFFICES ASSUME TypeOK, LimitInv, [Next]_vars PROVE LimitInv'
  OBVIOUS
<1> USE RefitAssumption
<1>1. ASSUME UNCHANGED <<model, calibration, written, calibrated, fits>> PROVE LimitInv'
  BY <1>1 DEF LimitInv, CalibrationNotAhead
<1>2. CASE Elapse \/ LoadModels \/ LoadLimits \/ EndCycle
  BY <1>1, <1>2 DEF Elapse, LoadModels, LoadLimits, EndCycle, tables, fitting
<1>3. ASSUME NEW e \in Equipment \ Realfire, Telemetry(e) \/ Repair(e)
      PROVE  LimitInv'
  BY <1>1, <1>3 DEF Telemetry, Repair, tables, fitting
<1>4. ASSUME NEW f \in Fitter, Begin(f)
      PROVE  LimitInv'
  BY <1>1, <1>4 DEF Begin, tables
<1>5. ASSUME NEW f \in Fitter, NEW p \in Process, FitType(f, p)
      PROVE  LimitInv'
  <2>1. PICK n \in Counts(f, p) : TooFew(f, p, n) \/ Save(f, p, n)
    BY <1>5 DEF FitType
  <2>2. model' = model /\ calibration' = calibration
    BY <1>5 DEF FitType, tables
  <2>3. CASE TooFew(f, p, n)
    BY <1>1, <2>2, <2>3 DEF TooFew
  <2>4. CASE Save(f, p, n)
    <3>1. fits' = fits + 1 /\ fits \in Nat
      BY <2>4 DEF Save, TypeOK
    <3>2. \A g \in Fitter, q \in Process :
            written'[g][q] = IF g = f /\ q = p THEN fits + 1 ELSE written[g][q]
      BY <2>4 DEF Save, TypeOK
    <3>3. \A g \in Fitter, e \in Equipment :
            \/ calibrated'[g][e] = calibrated[g][e]
            \/ g = f /\ TypeOf[e] = p /\ calibrated'[g][e] = fits + 1
      BY <2>4 DEF Save, TypeOK, Trained
    <3>4. \A g \in Fitter \ {f} : written[g][p] = 0
      BY <2>4 DEF Save, Unlocked
    <3>5. CalibrationNotAhead'
      BY <2>2 DEF CalibrationNotAhead, LimitInv
    <3>6. \A q \in Process : model'[q] <= fits'
      BY <2>2, <3>1 DEF LimitInv, TypeOK
    <3>7. \A g \in Fitter, q \in Process :
            written'[g][q] # 0 =>
              /\ model'[q] < written'[g][q] /\ written'[g][q] <= fits'
              /\ \A h \in Fitter \ {g} : written'[h][q] = 0
      <4>1. SUFFICES ASSUME NEW g \in Fitter, NEW q \in Process, written'[g][q] # 0
                     PROVE  /\ model'[q] < written'[g][q] /\ written'[g][q] <= fits'
                            /\ \A h \in Fitter \ {g} : written'[h][q] = 0
        OBVIOUS
      <4>2. CASE g = f /\ q = p
        BY <2>2, <3>1, <3>2, <3>4, <4>2 DEF LimitInv, TypeOK
      <4>3. CASE ~(g = f /\ q = p)
        BY <2>2, <3>1, <3>2, <3>4, <4>1, <4>3 DEF LimitInv, TypeOK
      <4>4. QED
        BY <4>2, <4>3
    <3>8. \A g \in Fitter, e \in Equipment : calibrated'[g][e] <= written'[g][TypeOf[e]]
      <4>1. SUFFICES ASSUME NEW g \in Fitter, NEW e \in Equipment
                     PROVE  calibrated'[g][e] <= written'[g][TypeOf[e]]
        OBVIOUS
      <4>2. /\ TypeOf[e] \in Process /\ calibrated[g][e] \in Nat
            /\ written[g][TypeOf[e]] \in Nat
            /\ calibrated[g][e] <= written[g][TypeOf[e]]
        BY DEF LimitInv, TypeOK
      <4>3. written[g][TypeOf[e]] <= fits
        BY <3>1, <4>2 DEF LimitInv
      <4>4. QED
        BY <3>1, <3>2, <3>3, <4>2, <4>3
    <3>9. QED
      BY <3>5, <3>6, <3>7, <3>8 DEF LimitInv
  <2>5. QED
    BY <2>1, <2>3, <2>4
<1>6. ASSUME NEW f \in Fitter, Rest(f)
      PROVE  /\ \A g \in Fitter, q \in Process :
                  written'[g][q] = IF g = f THEN 0 ELSE written[g][q]
             /\ \A g \in Fitter, e \in Equipment :
                  calibrated'[g][e] = IF g = f THEN 0 ELSE calibrated[g][e]
  BY <1>6 DEF Rest, NoFit, NoLimit, TypeOK
<1>7. ASSUME NEW f \in Fitter, Commit(f)
      PROVE  LimitInv'
  <2>1. Rest(f) /\ fits' = fits
    BY <1>7 DEF Commit
  <2>2. \A p \in Process :
          model'[p] = IF written[f][p] # 0 THEN written[f][p] ELSE model[p]
    BY <1>7 DEF Commit
  <2>3. \A e \in Equipment :
          calibration'[e] = IF calibrated[f][e] # 0 THEN calibrated[f][e] ELSE calibration[e]
    BY <1>7 DEF Commit
  <2>4. CalibrationNotAhead'
    <3>1. SUFFICES ASSUME NEW e \in Equipment
                   PROVE  calibration'[e] <= model'[TypeOf[e]]
      BY DEF CalibrationNotAhead
    <3>2. /\ TypeOf[e] \in Process
          /\ calibration[e] \in Nat /\ model[TypeOf[e]] \in Nat
          /\ calibrated[f][e] \in Nat /\ written[f][TypeOf[e]] \in Nat
      BY DEF TypeOK
    <3>3. /\ calibration[e] <= model[TypeOf[e]]
          /\ calibrated[f][e] <= written[f][TypeOf[e]]
          /\ written[f][TypeOf[e]] # 0 => model[TypeOf[e]] < written[f][TypeOf[e]]
      BY <3>2 DEF LimitInv, CalibrationNotAhead
    <3>4. QED
      BY <2>2, <2>3, <3>2, <3>3
  <2>5. \A p \in Process : model'[p] <= fits'
    BY <2>1, <2>2 DEF LimitInv
  <2>6. \A g \in Fitter, p \in Process :
          written'[g][p] # 0 =>
            /\ model'[p] < written'[g][p] /\ written'[g][p] <= fits'
            /\ \A h \in Fitter \ {g} : written'[h][p] = 0
    BY <1>6, <2>1, <2>2 DEF LimitInv
  <2>7. \A g \in Fitter, e \in Equipment : calibrated'[g][e] <= written'[g][TypeOf[e]]
    <3>1. \A e \in Equipment : TypeOf[e] \in Process
      OBVIOUS
    <3>2. QED
      BY <1>6, <2>1, <3>1 DEF LimitInv
  <2>8. QED
    BY <2>4, <2>5, <2>6, <2>7 DEF LimitInv
<1>8. ASSUME NEW f \in Fitter, Fail(f)
      PROVE  LimitInv'
  <2>1. Rest(f) /\ UNCHANGED <<model, calibration, fits>>
    BY <1>8 DEF Fail, tables
  <2>2. \A e \in Equipment : TypeOf[e] \in Process
    OBVIOUS
  <2>3. QED
    BY <1>6, <2>1, <2>2 DEF LimitInv, CalibrationNotAhead
<1>9. CASE UNCHANGED vars
  BY <1>1, <1>9 DEF vars, tables, fitting
<1>10. QED
  BY <1>2, <1>3, <1>4, <1>5, <1>7, <1>8, <1>9 DEF Next

\* Loop and command may fit at once and be rolled back: no limit is ever ahead
\* of the model of its type (save_model, save_calibration, fit_all).
THEOREM CalibrationNeverAhead == Spec => []CalibrationNotAhead
<1>1. LimitInv => CalibrationNotAhead
  BY DEF LimitInv
<1>2. QED
  BY <1>1, InitTypes, InitLimit, NextTypes, NextLimit, PTL DEF Spec

-----------------------------------------------------------------------------
(* The scorer's two reads.                                                 *)

\* Between its reads the scorer's models differ from the stored ones only where
\* a fit committed.
ReadInv ==
  /\ scorer = "reading" => \A p \in Process : model[p] # used[p] => p \in between
  /\ TornOnlyByCommit

LEMMA NextRead == TypeOK /\ LimitInv /\ ReadInv /\ [Next]_vars => ReadInv'
<1> SUFFICES ASSUME TypeOK, LimitInv, ReadInv, [Next]_vars PROVE ReadInv'
  OBVIOUS
<1> USE RefitAssumption
<1>1. ASSUME UNCHANGED <<model, scorer, used, limits, between>> PROVE ReadInv'
  BY <1>1 DEF ReadInv, TornOnlyByCommit
<1>2. CASE Elapse
  BY <1>1, <1>2 DEF Elapse, scoring
<1>3. CASE LoadModels
  <2>1. scorer' = "reading" /\ used' = model /\ model' = model
    BY <1>3 DEF LoadModels, tables
  <2>2. QED
    BY <2>1 DEF ReadInv, TornOnlyByCommit
<1>4. CASE LoadLimits
  <2>1. SUFFICES ASSUME NEW e \in Equipment, calibration[e] > used[TypeOf[e]]
                 PROVE  TypeOf[e] \in between
    BY <1>4 DEF LoadLimits, ReadInv, TornOnlyByCommit
  <2>2. /\ TypeOf[e] \in Process /\ calibration[e] \in Nat /\ used[TypeOf[e]] \in Nat
        /\ model[TypeOf[e]] \in Nat
    BY DEF TypeOK
  <2>3. calibration[e] <= model[TypeOf[e]]
    BY DEF LimitInv, CalibrationNotAhead
  <2>4. model[TypeOf[e]] # used[TypeOf[e]]
    BY <2>1, <2>2, <2>3
  <2>5. QED
    BY <1>4, <2>2, <2>4 DEF LoadLimits, ReadInv
<1>5. CASE EndCycle
  BY <1>5 DEF EndCycle, ReadInv, TornOnlyByCommit
<1>6. ASSUME NEW e \in Equipment \ Realfire, Telemetry(e) \/ Repair(e)
      PROVE  ReadInv'
  BY <1>1, <1>6 DEF Telemetry, Repair, tables, scoring
<1>7. ASSUME NEW f \in Fitter, \/ Begin(f) \/ Fail(f)
                               \/ \E p \in Process : FitType(f, p)
      PROVE  ReadInv'
  BY <1>1, <1>7 DEF Begin, Fail, FitType, tables, scoring
<1>8. ASSUME NEW f \in Fitter, Commit(f)
      PROVE  ReadInv'
  <2>1. UNCHANGED <<scorer, used, limits>> /\ between \subseteq between'
    BY <1>8 DEF Commit
  <2>2. \A p \in Process : scorer = "reading" /\ model'[p] # model[p] => p \in between'
    BY <1>8 DEF Commit
  <2>3. QED
    BY <2>1, <2>2 DEF ReadInv, TornOnlyByCommit
<1>9. CASE UNCHANGED vars
  BY <1>1, <1>9 DEF vars, tables, scoring
<1>10. QED
  BY <1>2, <1>3, <1>4, <1>5, <1>6, <1>7, <1>8, <1>9 DEF Next

\* The scorer applies a limit to an older model than it was made with only if a
\* fit committed between its two reads (anomaly_repository.py:70-101).
THEOREM OnlyCommitTears == Spec => []TornOnlyByCommit
<1>1. Init => ReadInv
  BY DEF Init, ReadInv, TornOnlyByCommit
<1>2. ReadInv => TornOnlyByCommit
  BY DEF ReadInv
<1>3. QED
  BY <1>1, <1>2, InitTypes, InitLimit, NextTypes, NextLimit, NextRead, PTL DEF Spec

=============================================================================
