-------------------------------- MODULE Refit --------------------------------
(***************************************************************************)
(* Fitting the anomaly models: the command anomaly-fit and the refit loop, *)
(* the two tables they share, and the scorer that reads them               *)
(* (watcher/fit.py, refit_worker.py, anomaly_repository.py, models.py).    *)
(*                                                                         *)
(* A fit is one transaction: nothing of it shows before its commit, and    *)
(* the row of a process type it has written is locked until then.  A model *)
(* with all its parameters, and a limit calibrated with it, are the number *)
(* of the fit that made them.  Training data is counted in windows of      *)
(* normal telemetry, those since the last repair of the equipment apart    *)
(* from those before it.  Time is counted in hours up to Stale + 1.        *)
(***************************************************************************)
EXTENDS Integers, FiniteSets, FiniteSetsExt

CONSTANTS
  Equipment, Process,
  TypeOf,          \* [Equipment -> Process]: process_type
  Realfire,        \* anomaly_realfire_equipment
  MinTrain,        \* MIN_TRAIN_WINDOWS
  MinCalibration,  \* MIN_CALIBRATION_WINDOWS
  Stale,           \* anomaly_refit_stale_hours
  Enough,          \* bound: windows are not counted beyond
  MaxFits,         \* bound: process types fitted
  MaxRepaired,     \* bound: equipment repaired, once each
  MaxRuns,         \* bound: runs of the command
  MaxFailures      \* bound: fits that fail

ASSUME RefitAssumption ==
  /\ IsFiniteSet(Equipment)
  /\ TypeOf \in [Equipment -> Process] /\ Realfire \subseteq Equipment
  /\ MinTrain \in Nat \ {0} /\ MinCalibration \in 1..Enough
  /\ {Stale, Enough, MaxFits, MaxRepaired, MaxRuns, MaxFailures} \subseteq Nat

VARIABLES
  recent,      \* [Equipment -> windows within the recency bound, since the repair]
  before,      \* [Equipment -> such windows from before the last repair]
  model,       \* equipment_anomaly_models: [Process -> fit], 0 without a row
  fittedAt,    \* [Process -> hours since fitted_at]
  age,         \* history: [Process -> hours since the row was last written]
  calibration, \* equipment_anomaly_calibrations: [Equipment -> fit], 0 without a row
  mixed,       \* history: [Process -> equipment its model saw from before a repair]
  pc,          \* [Fitter -> what it does]
  todo,        \* [Fitter -> process types it has still to visit]
  repaired,    \* [Fitter -> equipment repaired since it read repaired_at]
  written,     \* [Fitter -> [Process -> fit it wrote and has not committed]]
  calibrated,  \* [Fitter -> [Equipment -> the same for the limits]]
  saw,         \* [Fitter -> equipment it counted windows from before a repair of]
  scorer,      \* what the scorer does
  used,        \* the models it read
  limits,      \* the limits it read
  between,     \* history: process types committed between its two reads
  overlapped,  \* history: equipment repaired while a fit was running
  fits, runs, failures   \* counters of the bounds

data == <<recent, before>>
tables == <<model, fittedAt, age, calibration, mixed>>
fitting == <<pc, todo, repaired, written, calibrated, saw, fits, runs, failures>>
scoring == <<scorer, used, limits, between>>
vars == <<data, tables, fitting, scoring, overlapped>>

Fitter == {"loop", "cli"}

NoFit == [p \in Process |-> 0]
NoLimit == [e \in Equipment |-> 0]

\* A database with or without models: the first fit is made by the command.
Init ==
  /\ recent = [e \in Equipment |-> 0] /\ before = [e \in Equipment |-> 0]
  /\ model = NoFit /\ calibration = NoLimit
  /\ fittedAt = NoFit /\ age = NoFit
  /\ mixed = [p \in Process |-> {}]
  /\ pc = [f \in Fitter |-> "idle"] /\ todo = [f \in Fitter |-> {}]
  /\ repaired = [f \in Fitter |-> {}] /\ saw = [f \in Fitter |-> {}]
  /\ written = [f \in Fitter |-> NoFit] /\ calibrated = [f \in Fitter |-> NoLimit]
  /\ scorer = "idle" /\ used = NoFit /\ limits = NoLimit /\ between = {}
  /\ overlapped = {} /\ fits = 0 /\ runs = 0 /\ failures = 0

AtMost(n, most) == IF n < most THEN n ELSE most

-----------------------------------------------------------------------------
(* The plant: telemetry, repairs, time.                                    *)

Telemetry(e) ==
  /\ recent[e] < Enough
  /\ recent' = [recent EXCEPT ![e] = @ + 1]
  /\ UNCHANGED <<before, tables, fitting, scoring, overlapped>>

\* A completed repair sets repaired_at: what was recent is before it now.
Repair(e) ==
  /\ recent[e] > 0 /\ before[e] = 0
  /\ Cardinality({x \in Equipment : before[x] > 0}) < MaxRepaired
  /\ before' = [before EXCEPT ![e] = 1] /\ recent' = [recent EXCEPT ![e] = 0]
  /\ repaired' = [f \in Fitter |-> IF pc[f] = "fitting" THEN repaired[f] \cup {e} ELSE {}]
  /\ overlapped' = IF \E f \in Fitter : pc[f] = "fitting" THEN overlapped \cup {e}
                                                          ELSE overlapped
  /\ UNCHANGED <<tables, pc, todo, written, calibrated, saw, fits, runs, failures, scoring>>

Elapse ==
  /\ \E p \in Process : model[p] # 0 /\ age[p] <= Stale
  /\ fittedAt' = [p \in Process |-> IF model[p] = 0 THEN 0 ELSE AtMost(fittedAt[p] + 1, Stale + 1)]
  /\ age' = [p \in Process |-> IF model[p] = 0 THEN 0 ELSE AtMost(age[p] + 1, Stale + 1)]
  /\ UNCHANGED <<data, model, calibration, mixed, fitting, scoring, overlapped>>

-----------------------------------------------------------------------------
(* fit_all.                                                                *)

IsStale(p) == model[p] = 0 \/ fittedAt[p] > Stale

\* The loop asks for stale models only, the command for all.
Visited(f) == IF f = "loop" THEN {p \in Process : IsStale(p)} ELSE Process

\* A transaction begins: equipment with repaired_at and fitted_at are read.
Begin(f) ==
  /\ pc[f] = "idle" /\ fits < MaxFits
  /\ f = "cli" => runs < MaxRuns
  /\ pc' = [pc EXCEPT ![f] = "fitting"]
  /\ todo' = [todo EXCEPT ![f] = Visited(f)]
  /\ repaired' = [repaired EXCEPT ![f] = {}]
  /\ runs' = IF f = "cli" THEN runs + 1 ELSE runs
  /\ UNCHANGED <<data, tables, written, calibrated, saw, fits, failures, scoring, overlapped>>

\* Mutant of Early: the recency bound alone is applied.
EarlyAlways(f, e) == before[e]

\* _effective_since keeps windows from before a repair out, if the repair was
\* known when the transaction began.
Early(f, e) == IF e \in repaired[f] THEN before[e] ELSE 0

Trained(p) == {e \in Equipment \ Realfire : TypeOf[e] = p}

\* Every number of windows the query can find: the command has no recency
\* bound and may find older ones.
Counts(f, p) ==
  {n \in [Trained(p) -> 0..Enough] :
     \A e \in Trained(p) :
       LET found == recent[e] + Early(f, e)
       IN  IF f = "cli" THEN n[e] >= AtMost(found, Enough) ELSE n[e] = AtMost(found, Enough)}

\* Mutant of Unlocked: the upsert waits for nobody.
UnlockedAlways(f, p) == TRUE

\* The upsert waits for another transaction that has written the row.
Unlocked(f, p) == \A g \in Fitter \ {f} : written[g][p] = 0

TooFew(f, p, n) ==
  /\ SumFunction(n) < MinTrain
  /\ todo' = [todo EXCEPT ![f] = @ \ {p}]
  /\ UNCHANGED <<written, calibrated, saw, fits>>

\* save_model, then save_calibration for equipment with windows of its own;
\* what other equipment was calibrated with before stays.
Save(f, p, n) ==
  /\ SumFunction(n) >= MinTrain /\ fits < MaxFits
  /\ Unlocked(f, p)
  /\ todo' = [todo EXCEPT ![f] = @ \ {p}]
  /\ fits' = fits + 1
  /\ written' = [written EXCEPT ![f][p] = fits + 1]
  /\ calibrated' = [calibrated EXCEPT ![f] =
       [e \in Equipment |-> IF e \in Trained(p) /\ n[e] >= MinCalibration THEN fits + 1
                                                                         ELSE @[e]]]
  /\ saw' = [saw EXCEPT ![f] = @ \cup {e \in Trained(p) : Early(f, e) > 0}]

FitType(f, p) ==
  /\ pc[f] = "fitting" /\ p \in todo[f]
  /\ \E n \in Counts(f, p) : TooFew(f, p, n) \/ Save(f, p, n)
  /\ UNCHANGED <<data, tables, pc, repaired, runs, failures, scoring, overlapped>>

\* A new row takes fitted_at from its default, the beginning of the
\* transaction (counted as now); an update does not set it.
FittedAt(f) ==
  [p \in Process |-> IF written[f][p] # 0 /\ model[p] = 0 THEN 0 ELSE fittedAt[p]]

Rest(f) ==
  /\ pc' = [pc EXCEPT ![f] = "idle"]
  /\ todo' = [todo EXCEPT ![f] = {}] /\ repaired' = [repaired EXCEPT ![f] = {}]
  /\ written' = [written EXCEPT ![f] = NoFit]
  /\ calibrated' = [calibrated EXCEPT ![f] = NoLimit]
  /\ saw' = [saw EXCEPT ![f] = {}]

Commit(f) ==
  /\ pc[f] = "fitting" /\ todo[f] = {}
  /\ LET new == {p \in Process : written[f][p] # 0}
     IN  /\ model' = [p \in Process |-> IF p \in new THEN written[f][p] ELSE model[p]]
         /\ age' = [p \in Process |-> IF p \in new THEN 0 ELSE age[p]]
         /\ mixed' = [p \in Process |-> IF p \in new THEN saw[f] \cap Trained(p) ELSE mixed[p]]
         /\ between' = IF scorer = "reading" THEN between \cup new ELSE between
  /\ fittedAt' = FittedAt(f)
  /\ calibration' = [e \in Equipment |-> IF calibrated[f][e] # 0 THEN calibrated[f][e]
                                                                ELSE calibration[e]]
  /\ Rest(f)
  /\ UNCHANGED <<data, fits, runs, failures, scorer, used, limits, overlapped>>

\* Mutant of Fail: the exception ends the loop.
FailForever(f) ==
  /\ pc[f] = "fitting" /\ failures < MaxFailures
  /\ failures' = failures + 1
  /\ pc' = [pc EXCEPT ![f] = "dead"]
  /\ written' = [written EXCEPT ![f] = NoFit]
  /\ UNCHANGED <<data, tables, todo, repaired, calibrated, saw, fits, runs, scoring, overlapped>>

\* Any error, a deadlock the database breaks or a stop of the process rolls
\* back; the loop sleeps and tries again, the command has to be started again.
Fail(f) ==
  /\ pc[f] = "fitting" /\ failures < MaxFailures
  /\ failures' = failures + 1
  /\ Rest(f)
  /\ UNCHANGED <<data, tables, fits, runs, scoring, overlapped>>

-----------------------------------------------------------------------------
(* score_once begins with load_scorer: one statement for the models, a     *)
(* second one (load_equipment_limits) for the limits.                      *)

LoadModels ==
  /\ scorer = "idle" /\ model # NoFit
  /\ scorer' = "reading" /\ used' = model /\ between' = {}
  /\ UNCHANGED <<data, tables, fitting, limits, overlapped>>

LoadLimits ==
  /\ scorer = "reading"
  /\ scorer' = "scoring" /\ limits' = calibration
  /\ UNCHANGED <<data, tables, fitting, used, between, overlapped>>

\* The cycle ends, or fails; the next one loads again.
EndCycle ==
  /\ scorer # "idle"
  /\ scorer' = "idle" /\ used' = NoFit /\ limits' = NoLimit /\ between' = {}
  /\ UNCHANGED <<data, tables, fitting, overlapped>>

Next ==
  \/ Elapse \/ LoadModels \/ LoadLimits \/ EndCycle
  \/ \E e \in Equipment \ Realfire : Telemetry(e) \/ Repair(e)
  \/ \E f \in Fitter : \/ Begin(f) \/ Commit(f) \/ Fail(f)
                       \/ \E p \in Process : FitType(f, p)

Spec == Init /\ [][Next]_vars

\* The loop goes on for ever (run_refit_loop), hours pass.
Fairness ==
  /\ WF_vars(Begin("loop")) /\ WF_vars(Commit("loop"))
  /\ WF_vars(Commit("cli"))
  /\ \A p \in Process : WF_vars(FitType("loop", p)) /\ WF_vars(FitType("cli", p))

FairSpec == Spec /\ Fairness

-----------------------------------------------------------------------------
TypeOK ==
  /\ recent \in [Equipment -> 0..Enough] /\ before \in [Equipment -> 0..1]
  /\ model \in [Process -> 0..MaxFits] /\ calibration \in [Equipment -> 0..MaxFits]
  /\ fittedAt \in [Process -> 0..Stale + 1] /\ age \in [Process -> 0..Stale + 1]
  /\ mixed \in [Process -> SUBSET Equipment]
  /\ pc \in [Fitter -> {"idle", "fitting"}] /\ todo \in [Fitter -> SUBSET Process]
  /\ repaired \in [Fitter -> SUBSET Equipment] /\ saw \in [Fitter -> SUBSET Equipment]
  /\ written \in [Fitter -> [Process -> 0..MaxFits]]
  /\ calibrated \in [Fitter -> [Equipment -> 0..MaxFits]]
  /\ scorer \in {"idle", "reading", "scoring"}
  /\ used \in [Process -> 0..MaxFits] /\ limits \in [Equipment -> 0..MaxFits]
  /\ between \subseteq Process /\ overlapped \subseteq Equipment
  /\ fits \in 0..MaxFits /\ runs \in 0..MaxRuns /\ failures \in 0..MaxFailures

\* The limit of an equipment never comes from a later fit than the model of
\* its type, although loop and command fit at the same time and either may
\* be rolled back: a limit is only ever too old (save_model, save_calibration).
CalibrationNotAhead == \A e \in Equipment : calibration[e] <= model[TypeOf[e]]

\* The scorer applies a limit to an older model than it was calibrated with
\* only if a fit committed between its two reads (load_scorer).
TornOnlyByCommit ==
  scorer = "scoring" =>
    \A e \in Equipment : limits[e] > used[TypeOf[e]] => TypeOf[e] \in between

\* A model has seen windows from before the last repair it could know of only
\* if the repair came while a fit was running (_effective_since).
RepairRespected == \A p \in Process : mixed[p] \subseteq overlapped

\* A model that is stale is replaced as long as there is data to train with,
\* although fits fail and the command holds the row (run_refit_loop).
StaleRefitted ==
  \A p \in Process :
    (model[p] # 0 /\ age[p] > Stale /\ [](SumFunction([e \in Trained(p) |-> recent[e]]) >= MinTrain))
      ~> (age[p] = 0 \/ (fits = MaxFits /\ \A f \in Fitter : written[f][p] = 0))

-----------------------------------------------------------------------------
\* fit.py: a fresh model needs no refit; refit_worker.py: only models beyond
\* staleness are fitted again.  The loop visits no type whose model was written
\* within the staleness bound.
FreshNotRefitted ==
  [][Begin("loop") =>
       \A p \in todo'["loop"] : model[p] = 0 \/ age[p] > Stale]_vars

=============================================================================
