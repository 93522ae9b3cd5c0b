----------------------------- MODULE IncidentPlan -----------------------------
(***************************************************************************)
(* One request for an incident plan (incident/service.py, repository.py):  *)
(* the context is read in several statements, manuals are searched against *)
(* a time limit, a language model is asked, and whatever was missing is    *)
(* told in warnings beside a draft that falls back to the checklist.       *)
(* A row of telemetry is its time, whether it has an alarm and whether the *)
(* variable of the alarm has a value.                                      *)
(***************************************************************************)
EXTENDS Integers, FiniteSets, Sequences

CONSTANTS
  Near,           \* half width of the window around the alarm
  Past,           \* how far back the baseline reaches
  Occurred,       \* occurred_at of the notification
  BaselineLimit,  \* how many rows the baseline takes
  MaxTime,        \* bound: times of telemetry
  MaxRows         \* bound: rows

IncidentAssumption ==
  {Near, Past, Occurred, MaxTime, MaxRows} \subseteq Nat /\ BaselineLimit \in Nat \ {0}

VARIABLES
  rows,        \* equipment_telemetry of the equipment
  setup,       \* whether notification, process type, search tool and key are there
  pc,
  incident,    \* the row taken for the incident, None without one
  baseline,    \* the rows of the baseline
  manuals,     \* results of the search: "none", "some"
  warnings,    \* warnings so far
  plan         \* "ai", "checklist", "none" before

vars == <<rows, setup, pc, incident, baseline, manuals, warnings, plan>>

None == [at |-> -1, alarm |-> FALSE, value |-> FALSE]
Row == [at : 0..MaxTime, alarm : BOOLEAN, value : BOOLEAN]

Init ==
  /\ rows = {}
  /\ setup \in [notification : BOOLEAN, process : BOOLEAN, tool : BOOLEAN, key : BOOLEAN]
  /\ pc = "start" /\ incident = None /\ baseline = {}
  /\ manuals = "none" /\ warnings = {} /\ plan = "none"

\* Telemetry goes on arriving while the context is read, late rows too.
Telemetry ==
  /\ Cardinality(rows) < MaxRows /\ pc \in {"start", "incident"}
  /\ \E r \in Row : (\A x \in rows : x.at # r.at) /\ rows' = rows \cup {r}
  /\ UNCHANGED <<setup, pc, incident, baseline, manuals, warnings, plan>>

Distance(r) == IF r.at > Occurred THEN r.at - Occurred ELSE Occurred - r.at

\* The nearest row of the window; the earlier of two, which come sorted by time.
Nearest ==
  LET near == {r \in rows : Distance(r) <= Near}
  IN IF near = {} THEN None
     ELSE CHOOSE r \in near : \A x \in near :
            Distance(r) < Distance(x) \/ (Distance(r) = Distance(x) /\ r.at <= x.at)

ReadIncident ==
  /\ pc = "start"
  /\ IF setup.notification
     THEN pc' = "incident" /\ incident' = Nearest
     ELSE pc' = "refused" /\ UNCHANGED incident
  /\ UNCHANGED <<rows, setup, baseline, manuals, warnings, plan>>

\* The newest normal rows of the half hour before.
Normal ==
  LET before == {r \in rows : ~r.alarm /\ Occurred - Past <= r.at /\ r.at < Occurred}
  IN {r \in before : Cardinality({x \in before : x.at > r.at}) < BaselineLimit}

\* A deviation has a baseline when some row of it has a value.
HasDeviation == incident # None /\ incident.value
HasDelta == HasDeviation /\ \E r \in baseline : r.value

ContextWarningsFew(normal) == IF normal = {} THEN {"no baseline"} ELSE {}   \* mutant
ContextWarnings(normal) ==
  IF incident = None THEN {"no sensors"}
  ELSE IF normal = {} THEN {"no baseline"} ELSE {}

\* The baseline is read, then deviations and query are made of it; from here one
\* time limit runs over every call of the search.
ReadBaseline ==
  /\ pc = "incident"
  /\ baseline' = Normal /\ warnings' = ContextWarnings(Normal)
  /\ pc' = "tool"
  /\ UNCHANGED <<rows, setup, incident, manuals, plan>>

\* load_tools_for_server: a server without the tool has no results.
LoadTool ==
  /\ pc = "tool"
  /\ pc' = IF setup.tool THEN "filtered" ELSE "searched"
  /\ UNCHANGED <<rows, setup, incident, baseline, manuals, warnings, plan>>

\* The search of the process type; without results, and with a type, once more.
SearchFiltered ==
  /\ pc = "filtered"
  /\ \/ manuals' = "some" /\ pc' = "searched"
     \/ UNCHANGED manuals /\ pc' = IF setup.process THEN "unfiltered" ELSE "searched"
  /\ UNCHANGED <<rows, setup, incident, baseline, warnings, plan>>

SearchUnfiltered ==
  /\ pc = "unfiltered"
  /\ manuals' \in {"some", "none"} /\ pc' = "searched"
  /\ UNCHANGED <<rows, setup, incident, baseline, warnings, plan>>

Searching == pc \in {"tool", "filtered", "unfiltered"}

SearchFailed ==
  /\ Searching
  /\ warnings' = warnings \cup {"search failed"} /\ manuals' = "none" /\ pc' = "searched"
  /\ UNCHANGED <<rows, setup, incident, baseline, plan>>

\* The time limit is over, whichever call is waiting.
SearchLate ==
  /\ Searching
  /\ warnings' = warnings \cup {"search late"} /\ manuals' = "none" /\ pc' = "searched"
  /\ UNCHANGED <<rows, setup, incident, baseline, plan>>

Draft(kind, why) ==
  /\ plan' = kind /\ warnings' = warnings \cup why /\ pc' = "done"
  /\ UNCHANGED <<rows, setup, incident, baseline, manuals>>

\* _generate_plan: without manuals, or without a model, the checklist.
DraftFromChecklist ==
  /\ pc = "searched" /\ (manuals = "none" \/ ~setup.key)
  /\ Draft("checklist", IF manuals = "none" THEN {"no manuals"} ELSE {"no model"})

DraftByModel ==
  /\ pc = "searched" /\ manuals = "some" /\ setup.key
  /\ Draft("ai", {})

\* The model fails or answers in another form.
ModelFailed ==
  /\ pc = "searched" /\ manuals = "some" /\ setup.key
  /\ Draft("checklist", {"model failed"})

Next ==
  \/ Telemetry \/ ReadIncident \/ ReadBaseline
  \/ LoadTool \/ SearchFiltered \/ SearchUnfiltered \/ SearchFailed \/ SearchLate
  \/ DraftFromChecklist \/ DraftByModel \/ ModelFailed

Spec == Init /\ [][Next]_vars

-----------------------------------------------------------------------------

PlanWarnings == {"no manuals", "no model", "model failed"}

\* The answer tells what it lacks: a checklist comes with exactly one reason, a
\* plan of the model rests on manuals and on none of the search's failures; a
\* change is reported only against normal rows from before the alarm, and no
\* warning means that a row of the incident and a baseline were found, whatever
\* arrived between the reads (incident/service.py:258-305).
PlanExplained ==
  pc = "done" =>
    /\ plan = "ai" => manuals = "some" /\ warnings \cap (PlanWarnings \cup {"search failed", "search late"}) = {}
    /\ plan = "checklist" => Cardinality(warnings \cap PlanWarnings) = 1
    /\ warnings \cap {"search failed", "search late"} # {} => "no manuals" \in warnings
    /\ warnings = {} => incident # None /\ baseline # {} /\ plan = "ai"
    /\ HasDelta => /\ \E r \in baseline : r.at < Occurred /\ ~r.alarm
                   /\ "no baseline" \notin warnings

=============================================================================
