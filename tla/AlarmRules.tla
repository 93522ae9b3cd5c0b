----------------------------- MODULE AlarmRules -----------------------------
(***************************************************************************)
(* The rule side of alarm judgement (simulator/generator.py): from where   *)
(* each sensor variable stands relative to its band to the one code the    *)
(* journal shows for it.  Sensor values are abstracted to the three facts  *)
(* the judgement reads: which side of the dynamic band the value is on,    *)
(* whether the band has used up the hard-limit corridor, and whether the   *)
(* recent first differences are too noisy.                                 *)
(***************************************************************************)
EXTENDS Naturals

CONSTANTS
  Metric,        \* the sensor variables modelled, a subset of VARS
  VarianceVars   \* variables whose noise the scenario amplifies on purpose

VARS == {"temperature", "pressure", "rf_power", "gas_flow"}

ASSUME MetricAssumption == Metric \subseteq VARS /\ VarianceVars \subseteq Metric

NoCode == "none"

ACUTE_CODES ==
  [temperature |-> "ERR-401", pressure |-> "ERR-301",
   rf_power |-> "ERR-201", gas_flow |-> "WRN-501"]

DRIFT_CODES ==
  [temperature |-> "WRN-701", pressure |-> "WRN-702",
   rf_power |-> "WRN-703", gas_flow |-> "WRN-704"]

VARIANCE == "WRN-801"
COMPOSITE_COOLING == "ERR-402"
ANOMALY_ALARM_CODE == "WRN-901"

RuleCode ==
  {"ERR-402", "ERR-401", "ERR-301", "ERR-201", "WRN-501",
   "WRN-701", "WRN-702", "WRN-703", "WRN-704", "WRN-801"}

\* Every code a journal row can carry: the rules' own and the scorer's.
Code == RuleCode \cup {ANOMALY_ALARM_CODE}

\* Smaller is more urgent.
PRIORITY ==
  [c \in RuleCode |->
     CASE c = "ERR-402"                            -> 1
       [] c \in {"ERR-401", "ERR-301"}             -> 2
       [] c = "ERR-201"                            -> 3
       [] c = "WRN-501"                            -> 4
       [] c = "WRN-801"                            -> 6
       [] OTHER                                    -> 5]

Condition == [band : {"low", "in", "high"}, drifted : BOOLEAN, noisy : BOOLEAN]

Candidates(m, cond) ==
  {c \in {ACUTE_CODES[m], DRIFT_CODES[m], VARIANCE} :
     \/ c = ACUTE_CODES[m] /\ cond.band # "in" /\ m \notin VarianceVars
     \/ c = DRIFT_CODES[m] /\ cond.drifted
     \/ c = VARIANCE /\ cond.noisy}

MostUrgent(codes) ==
  CHOOSE c \in codes : \A d \in codes : PRIORITY[c] <= PRIORITY[d]

\* judge_variables: every variable is judged alone and keeps one code.
JudgeVariables(conds) ==
  [m \in Metric |->
     IF Candidates(m, conds[m]) = {} THEN NoCode
     ELSE MostUrgent(Candidates(m, conds[m]))]

\* detect_cooling_fault: temperature above its band while pressure is below.
DetectCoolingFault(conds) ==
  /\ {"temperature", "pressure"} \subseteq Metric
  /\ conds["temperature"].band = "high"
  /\ conds["pressure"].band = "low"

COMPOSITE_METRIC == "temperature"
COMPOSITE_SUPPRESSED == {"temperature", "pressure"}

\* surface_codes: a composite fault replaces the two single codes.
SurfaceCodes(codes, composite) ==
  IF ~composite THEN codes
  ELSE [m \in Metric |->
          IF m \notin COMPOSITE_SUPPRESSED THEN codes[m]
          ELSE IF m = COMPOSITE_METRIC THEN COMPOSITE_COOLING ELSE NoCode]

\* What one tick of one equipment may surface.
Surfaceable ==
  {SurfaceCodes(JudgeVariables(conds), DetectCoolingFault(conds)) :
     conds \in [Metric -> Condition]}

=============================================================================
