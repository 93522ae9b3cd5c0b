----------------------------- MODULE StatusView -----------------------------
(***************************************************************************)
(* The status of an equipment as the twin (list_equipment_status) and its  *)
(* detail (get_equipment_detail) show it: the newest tick's code first,    *)
(* then an open anomaly alarm.  Each reads the two in statements of its    *)
(* own while ticks, the scorer and the clear endpoint write.  One          *)
(* equipment; a detail of an unknown one ends with its first read.         *)
(***************************************************************************)
EXTENDS Integers

CONSTANTS
  View,       \* requests
  Code,       \* codes the rules give a tick
  Critical,   \* CRITICAL_ALARM_CODES
  NoCode,
  Anomaly     \* ANOMALY_ALARM_CODE

StatusAssumption ==
  Critical \subseteq Code /\ NoCode \notin Code /\ Anomaly \notin Code /\ NoCode # Anomaly

VARIABLES
  tick,      \* alarm_code of the newest tick, NoCode before the first
  anomaly,   \* an anomaly alarm is open
  step,      \* [View -> what it reads next]
  code,      \* [View -> alarm_code it will show]
  seen       \* history: [View -> states since it began, or since its clear]

vars == <<tick, anomaly, step, code, seen>>

Init ==
  /\ tick = NoCode /\ anomaly = FALSE
  /\ step = [v \in View |-> "idle"] /\ code = [v \in View |-> NoCode]
  /\ seen = [v \in View |-> {}]

Moment(t, a) == [tick |-> t, anomaly |-> a]
Witnessed(t, a) ==
  seen' = [v \in View |-> IF step[v] \in {"idle", "done"} THEN seen[v]
                          ELSE seen[v] \cup {Moment(t, a)}]

\* A tick commits with its rule alarms.
Tick(c) ==
  /\ tick' = c
  /\ Witnessed(c, anomaly)
  /\ UNCHANGED <<anomaly, step, code>>

\* The scorer raises or ends the anomaly alarm.
Score ==
  /\ anomaly' = ~anomaly
  /\ Witnessed(tick, ~anomaly)
  /\ UNCHANGED <<tick, step, code>>

-----------------------------------------------------------------------------
Begin(v, next) ==
  /\ step[v] = "idle"
  /\ step' = [step EXCEPT ![v] = next]
  /\ seen' = [seen EXCEPT ![v] = {Moment(tick, anomaly)}]
  /\ UNCHANGED <<tick, anomaly, code>>

\* The detail reads the master data before it reads the tick.
List(v) == Begin(v, "tick")
Detail(v) == Begin(v, "meta")

\* clear_equipment_alarm ends the open alarms, commits, and goes on as a detail.
Clear(v) ==
  /\ step[v] = "idle"
  /\ anomaly' = FALSE
  /\ step' = [step EXCEPT ![v] = "meta"]
  /\ seen' = [w \in View |->
       IF w = v THEN {Moment(tick, FALSE)}
       ELSE IF step[w] \in {"idle", "done"} THEN seen[w]
       ELSE seen[w] \cup {Moment(tick, FALSE)}]
  /\ UNCHANGED <<tick, code>>

ReadMeta(v) ==
  /\ step[v] = "meta"
  /\ step' = [step EXCEPT ![v] = "tick"]
  /\ UNCHANGED <<tick, anomaly, code, seen>>

ReadTick(v) ==
  /\ step[v] = "tick"
  /\ code' = [code EXCEPT ![v] = tick]
  /\ step' = [step EXCEPT ![v] = "anomaly"]
  /\ UNCHANGED <<tick, anomaly, seen>>

\* Mutant: an open anomaly goes before the code of the tick.
SurfaceFirst(v) == IF anomaly THEN Anomaly ELSE code[v]
Surface(v) == IF code[v] = NoCode /\ anomaly THEN Anomaly ELSE code[v]

ReadAnomaly(v) ==
  /\ step[v] = "anomaly"
  /\ code' = [code EXCEPT ![v] = Surface(v)]
  /\ step' = [step EXCEPT ![v] = "done"]
  /\ UNCHANGED <<tick, anomaly, seen>>

assess_status(c) ==
  IF c = NoCode THEN "normal" ELSE IF c \in Critical THEN "critical" ELSE "warning"

Next ==
  \/ \E c \in Code \cup {NoCode} : Tick(c)
  \/ Score
  \/ \E v \in View :
       List(v) \/ Detail(v) \/ Clear(v) \/ ReadMeta(v) \/ ReadTick(v) \/ ReadAnomaly(v)

Spec == Init /\ [][Next]_vars

-----------------------------------------------------------------------------
Severity(c) == IF assess_status(c) = "normal" THEN 0
               ELSE IF assess_status(c) = "warning" THEN 1 ELSE 2

Standing(m) == IF m.tick # NoCode THEN m.tick ELSE IF m.anomaly THEN Anomaly ELSE NoCode

\* The status shown is no better than the best and no worse than the worst of
\* the moments of the request.  Only when the two alarms took turns while it was
\* read, the anomaly ending and the rules' code coming between the two reads,
\* an equipment that was never without alarm is shown normal; and the code
\* shown stood at some moment (service.py:76-82, 165-171).
StatusHonest ==
  \A v \in View : step[v] = "done" =>
    /\ \E m \in seen[v] : Severity(Standing(m)) >= Severity(code[v])
    /\ \/ \E m \in seen[v] : Severity(Standing(m)) <= Severity(code[v])
       \/ /\ code[v] = NoCode
          /\ \E m, n \in seen[v] : m.tick = NoCode /\ m.anomaly /\ n.tick # NoCode /\ ~n.anomaly
    /\ code[v] # NoCode =>
         \E m \in seen[v] : code[v] = m.tick \/ (code[v] = Anomaly /\ m.anomaly)

=============================================================================
