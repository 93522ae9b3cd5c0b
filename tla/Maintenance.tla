---------------------------- MODULE Maintenance ----------------------------
(***************************************************************************)
(* Work logs (worklog/service.py), repairs (admin/service.py) and what a   *)
(* repair does to the simulator: for a heal window it generates normal     *)
(* readings, whatever its scenario (_select_spec).                         *)
(*                                                                         *)
(* A request is a transaction that ends in one step, its commit; what it   *)
(* read before is kept in the request.  A request by another user than the *)
(* log's owner changes nothing and is left out.  Of a work type only the   *)
(* branch it takes matters.  Status, notes, the inspection date, the alarm *)
(* snapshot and the latch time are stored and never read by a decision.    *)
(* Of a reading only the scenario it was generated for is kept.            *)
(***************************************************************************)
EXTENDS Integers, Sequences

CONSTANTS
  Log,             \* work logs that may be written
  Equipment,
  Faulty,          \* equipment whose scenario is a fault
  HealWindow,      \* sim_repair_heal_minutes
  MaxTime,         \* bound: the clock
  MaxRequests,     \* bound: completions and repairs requested
  MaxLostCommits   \* bound: commits the database applied but reported failed

NoEquipment == "no equipment"
NoLog == "no log"

ASSUME MaintenanceAssumption ==
  /\ Faulty \subseteq Equipment /\ NoEquipment \notin Equipment /\ NoLog \notin Log
  /\ HealWindow \in Nat /\ MaxTime \in Nat \ {0}
  /\ MaxRequests \in Nat /\ MaxLostCommits \in Nat

PERSIST_RETRY == 1

VARIABLES
  now,          \* the clock, read by API and simulator
  state,        \* [Log -> {"absent", "live", "deleted"}]
  type,         \* [Log -> Type]: the branch of its work_type
  machine,      \* [Log -> Equipment \cup {NoEquipment}]: equipment_id
  completedAt,  \* [Log -> time]: completed_at
  requests,     \* completions and repairs between their first read and commit
  repairs,      \* equipment_repairs: [log, machine, at], in commit order
  repairedAt,   \* [Equipment -> time]: equipment_masters.repaired_at
  simPc,        \* the simulator: "down", "idle" or "persisting" a tick
  attempt,      \* retries of the current tick so far
  tickAt,       \* now of that tick
  specs,        \* [Equipment -> Spec]: what it generated
  latest,       \* [Equipment -> Spec]: the newest telemetry row
  started,      \* history: requests so far
  retyped,      \* history: logs whose work type was changed
  lateFaults,   \* history: fault rows of ticks older than the end of the
                \* heal window, committed since the last repair
  lostCommits   \* history: lost commits so far

logs == <<state, type, machine, completedAt, retyped>>
shop == <<requests, repairs, repairedAt, started>>
sim == <<simPc, attempt, tickAt, specs>>
vars == <<now, logs, shop, sim, latest, lateFaults, lostCommits>>

Never == 0
Time == 0..MaxTime
Type == {"repair", "other"}   \* REPAIR_TYPES, and those that store no repair
Normal == "normal"
Fault == "fault"
Spec_ == {Normal, Fault}

Init ==
  /\ now = 1
  /\ state = [l \in Log |-> "absent"] /\ type = [l \in Log |-> "other"]
  /\ machine = [l \in Log |-> NoEquipment] /\ completedAt = [l \in Log |-> Never]
  /\ requests = {} /\ repairs = <<>> /\ repairedAt = [e \in Equipment |-> Never]
  /\ simPc = "idle" /\ attempt = 0 /\ tickAt = Never
  /\ specs = [e \in Equipment |-> Normal] /\ latest = [e \in Equipment |-> Normal]
  /\ started = 0 /\ retyped = {}
  /\ lateFaults = [e \in Equipment |-> 0] /\ lostCommits = 0

Elapse ==
  /\ now < MaxTime
  /\ now' = now + 1
  /\ UNCHANGED <<logs, shop, sim, latest, lateFaults, lostCommits>>

-----------------------------------------------------------------------------
(* Work logs.                                                              *)

\* create_work_log: the equipment comes from the notification, if any.
Create(l, t, e) ==
  /\ state[l] = "absent"
  /\ state' = [state EXCEPT ![l] = "live"]
  /\ type' = [type EXCEPT ![l] = t]
  /\ machine' = [machine EXCEPT ![l] = e]
  /\ UNCHANGED <<now, completedAt, retyped, shop, sim, latest, lateFaults, lostCommits>>

\* update_work_log: a completed log may be changed as well.
Update(l, t) ==
  /\ state[l] = "live" /\ t # type[l]
  /\ type' = [type EXCEPT ![l] = t]
  /\ retyped' = retyped \cup {l}
  /\ UNCHANGED <<now, state, machine, completedAt, shop, sim, latest, lateFaults, lostCommits>>

\* delete_work_log, a soft delete
Delete(l) ==
  /\ state[l] = "live"
  /\ state' = [state EXCEPT ![l] = "deleted"]
  /\ UNCHANGED <<now, type, machine, completedAt, retyped, shop, sim, latest, lateFaults,
                 lostCommits>>

Request(l, t, e) ==
  /\ started < MaxRequests
  /\ started' = started + 1
  /\ requests' = requests \cup
       {[id |-> started, log |-> l, type |-> t, machine |-> e, at |-> now]}
  /\ UNCHANGED <<now, logs, repairs, repairedAt, sim, latest, lateFaults, lostCommits>>

\* complete_work_log up to its first read, which the rest relies on.
StartComplete(l) ==
  /\ state[l] = "live"
  /\ Request(l, type[l], machine[l])

\* POST /equipment/{id}/repair
StartRepair(e) == Request(NoLog, "repair", e)

EntersRepair(r) == r.machine # NoEquipment /\ r.type = "repair"

\* create_repair: one row, and the latch the simulator reads; both carry the
\* time it took before writing.
StoreRepair(r) ==
  \E at \in r.at..now :
    /\ repairs' = Append(repairs, [log |-> r.log, machine |-> r.machine, at |-> at])
    /\ repairedAt' = [repairedAt EXCEPT ![r.machine] = at]
    /\ lateFaults' = [lateFaults EXCEPT ![r.machine] = 0]

\* Mutant of Completed: the completion is recorded by the other branch only.
CompletedOther(r) ==
  IF r.log # NoLog /\ state[r.log] = "live" /\ ~EntersRepair(r)
  THEN [completedAt EXCEPT ![r.log] = r.at]
  ELSE completedAt

\* complete_work_log of the repository reads again, and finds nothing if the
\* log was deleted meanwhile; its answer is not looked at before the commit.
Completed(r) ==
  IF r.log # NoLog /\ state[r.log] = "live"
  THEN [completedAt EXCEPT ![r.log] = r.at]
  ELSE completedAt

Finish(r) ==
  /\ requests' = requests \ {r}
  /\ completedAt' = Completed(r)
  /\ IF EntersRepair(r) THEN StoreRepair(r) ELSE UNCHANGED <<repairs, repairedAt, lateFaults>>
  /\ UNCHANGED <<now, state, type, machine, retyped, started, sim, latest, lostCommits>>

\* An error or a stop of the API rolls a request back.
Abort(r) ==
  /\ requests' = requests \ {r}
  /\ UNCHANGED <<now, logs, repairs, repairedAt, started, sim, latest, lateFaults, lostCommits>>

-----------------------------------------------------------------------------
(* The simulator.                                                          *)

Healing(e, t) == repairedAt[e] # Never /\ t - repairedAt[e] < HealWindow

\* Mutants of Selected: a repair lasts for ever; the window ends a moment early.
SelectedForever(e) == IF repairedAt[e] = Never /\ e \in Faulty THEN Fault ELSE Normal
SelectedEarly(e) == IF ~Healing(e, now + 1) /\ e \in Faulty THEN Fault ELSE Normal

\* _select_spec
Selected(e) == IF ~Healing(e, now) /\ e \in Faulty THEN Fault ELSE Normal

\* A tick loads repaired_at of all equipment and generates its readings.
Tick ==
  /\ simPc = "idle"
  /\ simPc' = "persisting"
  /\ tickAt' = now
  /\ specs' = [e \in Equipment |-> Selected(e)]
  /\ UNCHANGED <<now, logs, shop, attempt, latest, lateFaults, lostCommits>>

\* The transaction of _persist.
Record ==
  /\ latest' = specs
  /\ lateFaults' = [e \in Equipment |->
       lateFaults[e] + (IF specs[e] = Fault /\ Healing(e, tickAt) THEN 1 ELSE 0)]

NoTick == attempt' = 0 /\ tickAt' = Never /\ specs' = [e \in Equipment |-> Normal]

PersistCommit ==
  /\ simPc = "persisting"
  /\ Record
  /\ simPc' = "idle" /\ NoTick
  /\ UNCHANGED <<now, logs, shop, lostCommits>>

\* An attempt that reported an error: retry once, then skip the tick.
AttemptFailed ==
  \/ /\ attempt < PERSIST_RETRY
     /\ attempt' = attempt + 1
     /\ UNCHANGED <<simPc, tickAt, specs>>
  \/ attempt = PERSIST_RETRY /\ simPc' = "idle" /\ NoTick

PersistFail ==
  /\ simPc = "persisting"
  /\ AttemptFailed
  /\ UNCHANGED <<now, logs, shop, latest, lateFaults, lostCommits>>

\* The database committed, the connection failed before the answer arrived.
PersistLost ==
  /\ simPc = "persisting"
  /\ lostCommits < MaxLostCommits
  /\ Record
  /\ AttemptFailed
  /\ lostCommits' = lostCommits + 1
  /\ UNCHANGED <<now, logs, shop>>

SimCrash ==
  /\ simPc # "down"
  /\ simPc' = "down"
  /\ NoTick
  /\ UNCHANGED <<now, logs, shop, latest, lateFaults, lostCommits>>

SimStart ==
  /\ simPc = "down"
  /\ simPc' = "idle"
  /\ UNCHANGED <<now, logs, shop, attempt, tickAt, specs, latest, lateFaults, lostCommits>>

-----------------------------------------------------------------------------

Next ==
  \/ Elapse
  \/ \E l \in Log :
       \/ \E t \in Type, e \in Equipment \cup {NoEquipment} : Create(l, t, e)
       \/ \E t \in Type : Update(l, t)
       \/ Delete(l) \/ StartComplete(l)
  \/ \E e \in Equipment : StartRepair(e)
  \/ \E r \in requests : Finish(r) \/ Abort(r)
  \/ Tick \/ PersistCommit \/ PersistFail \/ PersistLost \/ SimCrash \/ SimStart

Spec == Init /\ [][Next]_vars

\* Compose restarts the simulator; outages of the database end.
FairSpec == Spec /\ WF_vars(SimStart) /\ SF_vars(Tick) /\ SF_vars(PersistCommit)

-----------------------------------------------------------------------------
(* Properties.                                                             *)

\* The shape of every variable.
TypeOK ==
  /\ now \in Time
  /\ state \in [Log -> {"absent", "live", "deleted"}]
  /\ type \in [Log -> Type]
  /\ machine \in [Log -> Equipment \cup {NoEquipment}]
  /\ completedAt \in [Log -> Time]
  /\ requests \subseteq
       [id : Nat, log : Log \cup {NoLog}, type : Type,
        machine : Equipment \cup {NoEquipment}, at : Time]
  /\ repairs \in Seq([log : Log \cup {NoLog}, machine : Equipment, at : Time])
  /\ repairedAt \in [Equipment -> Time]
  /\ simPc \in {"down", "idle", "persisting"}
  /\ attempt \in 0..PERSIST_RETRY
  /\ tickAt \in Time
  /\ specs \in [Equipment -> Spec_] /\ latest \in [Equipment -> Spec_]
  /\ started \in Nat /\ retyped \subseteq Log
  /\ lateFaults \in [Equipment -> Nat]
  /\ lostCommits \in 0..MaxLostCommits

\* After a repair at most one fault of the heal window still reaches the
\* telemetry: that of a tick which had read the old latch.  Only a commit whose
\* answer got lost and that is repeated adds another (_select_spec, _persist).
LateFaultsBounded == \A e \in Equipment : lateFaults[e] <= 1 + lostCommits

\* A repair stored for a work log belongs to a completed log, unless the log
\* was deleted while it was completed.
RepairHasCompletion ==
  \A i \in DOMAIN repairs :
    LET l == repairs[i].log IN
      l # NoLog => completedAt[l] # Never \/ state[l] = "deleted"

\* A completed log of repair type with equipment has a repair that is not
\* older than the completion, also when it is completed twice, deleted or
\* completed while the equipment is repaired directly; only a change of its
\* type may part them (complete_work_log).
CompletionHasRepair ==
  \A l \in Log \ retyped :
    completedAt[l] # Never /\ machine[l] # NoEquipment /\ type[l] = "repair" =>
      \E i \in DOMAIN repairs :
        repairs[i].log = l /\ repairs[i].machine = machine[l] /\ repairs[i].at >= completedAt[l]

\* Completions and repairs go together, over every interleaving of requests.
RepairsMatchCompletions == RepairHasCompletion /\ CompletionHasRepair

\* While the heal window lasts the newest telemetry becomes normal, and once
\* it is over the scenario's fault comes back, however often ticks fail and
\* the simulator restarts (ADR-0007).
StateFollowsWindow ==
  \A e \in Faulty :
    /\ <>[]Healing(e, now) => <>[](latest[e] = Normal)
    /\ <>[]~Healing(e, now) => <>[](latest[e] = Fault)

\* Every repair stored for a work log goes with its completion, as
\* docs/worklog.md:23 says of the complete endpoint.
CompletedAndStored ==
  \A i \in DOMAIN repairs :
    repairs[i].log # NoLog => completedAt[repairs[i].log] # Never

=============================================================================
