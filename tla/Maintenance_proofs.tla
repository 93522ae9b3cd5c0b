------------------------- MODULE Maintenance_proofs -------------------------
(* Proofs about work logs, repairs and the heal window, for any logs,      *)
(* equipment, scenarios and lengths of the window.                         *)
EXTENDS Maintenance, TLAPS

RequestRecord ==
  [id : Nat, log : Log \cup {NoLog}, type : Type,
   machine : Equipment \cup {NoEquipment}, at : Time]

RepairRecord == [log : Log \cup {NoLog}, machine : Equipment, at : Time]

\* A request that enters a repair stores it and latches it.
LEMMA StoreTypes ==
  ASSUME TypeOK, NEW r \in requests, EntersRepair(r), StoreRepair(r)
  PROVE  /\ r.machine \in Equipment
         /\ \E at \in Time :
              /\ r.at <= at
              /\ repairs' = Append(repairs, [log |-> r.log, machine |-> r.machine, at |-> at])
              /\ repairedAt' = [repairedAt EXCEPT ![r.machine] = at]
              /\ lateFaults' = [lateFaults EXCEPT ![r.machine] = 0]
<1>1. r \in RequestRecord /\ now \in Time
  BY DEF TypeOK, RequestRecord
<1>2. r.at \in Time /\ r.machine \in Equipment \cup {NoEquipment}
  BY <1>1 DEF RequestRecord
<1>3. r.machine \in Equipment
  BY <1>2 DEF EntersRepair
<1>4. PICK at \in r.at..now :
        /\ repairs' = Append(repairs, [log |-> r.log, machine |-> r.machine, at |-> at])
        /\ repairedAt' = [repairedAt EXCEPT ![r.machine] = at]
        /\ lateFaults' = [lateFaults EXCEPT ![r.machine] = 0]
  BY DEF StoreRepair
<1>5. at \in Time /\ r.at <= at
  BY <1>1, <1>2, <1>4, MaintenanceAssumption DEF Time
<1>6. QED
  BY <1>3, <1>4, <1>5

-----------------------------------------------------------------------------
(* Types.                                                                  *)

LEMMA InitTypes == Init => TypeOK
  BY MaintenanceAssumption DEF Init, TypeOK, Time, Type, Never, Spec_, Normal, Fault,
     PERSIST_RETRY

\* The steps of the API.
LEMMA ShopTypes ==
  ASSUME TypeOK,
         \/ Elapse
         \/ \E l \in Log :
              \/ \E t \in Type, e \in Equipment \cup {NoEquipment} : Create(l, t, e)
              \/ \E t \in Type : Update(l, t)
              \/ Delete(l) \/ StartComplete(l)
         \/ \E e \in Equipment : StartRepair(e)
         \/ \E r \in requests : Finish(r) \/ Abort(r)
  PROVE  TypeOK'
<1> USE DEF logs, shop, sim
<1>1. CASE Elapse
  BY <1>1, MaintenanceAssumption DEF Elapse, TypeOK, Time
<1>2. ASSUME NEW l \in Log, NEW t \in Type, NEW e \in Equipment \cup {NoEquipment},
             Create(l, t, e)
      PROVE  TypeOK'
  BY <1>2 DEF Create, TypeOK
<1>3. ASSUME NEW l \in Log, NEW t \in Type, Update(l, t) PROVE TypeOK'
  BY <1>3 DEF Update, TypeOK
<1>4. ASSUME NEW l \in Log, Delete(l) PROVE TypeOK'
  BY <1>4 DEF Delete, TypeOK
<1>5. ASSUME NEW l \in Log \cup {NoLog}, NEW t \in Type, NEW e \in Equipment \cup {NoEquipment},
             Request(l, t, e)
      PROVE  TypeOK'
  <2>1. [id |-> started, log |-> l, type |-> t, machine |-> e, at |-> now] \in RequestRecord
    BY DEF TypeOK, RequestRecord
  <2>2. requests' \subseteq RequestRecord /\ started' \in Nat
    BY <1>5, <2>1 DEF Request, TypeOK, RequestRecord
  <2>3. QED
    BY <1>5, <2>2 DEF Request, TypeOK, RequestRecord
<1>6. ASSUME NEW l \in Log, StartComplete(l) PROVE TypeOK'
  BY <1>5, <1>6 DEF StartComplete, TypeOK
<1>7. ASSUME NEW e \in Equipment, StartRepair(e) PROVE TypeOK'
  BY <1>5, <1>7 DEF StartRepair, Type
<1>8. ASSUME NEW r \in requests, Finish(r) PROVE TypeOK'
  <2>1. r \in RequestRecord
    BY DEF TypeOK, RequestRecord
  <2>2. r.log \in Log \cup {NoLog} /\ r.at \in Time
    BY <2>1 DEF RequestRecord
  <2>3. requests' \subseteq RequestRecord /\ completedAt' \in [Log -> Time]
    BY <1>8, <2>2 DEF Finish, Completed, TypeOK, RequestRecord
  <2>4. /\ repairs' \in Seq(RepairRecord)
        /\ repairedAt' \in [Equipment -> Time]
        /\ lateFaults' \in [Equipment -> Nat]
    <3>1. CASE EntersRepair(r)
      <4>1. StoreRepair(r)
        BY <1>8, <3>1 DEF Finish
      <4>2. PICK at \in Time :
              /\ repairs' = Append(repairs, [log |-> r.log, machine |-> r.machine, at |-> at])
              /\ repairedAt' = [repairedAt EXCEPT ![r.machine] = at]
              /\ lateFaults' = [lateFaults EXCEPT ![r.machine] = 0]
        BY <3>1, <4>1, StoreTypes
      <4>3. [log |-> r.log, machine |-> r.machine, at |-> at] \in RepairRecord
        BY <2>2, <3>1, <4>1, StoreTypes DEF RepairRecord
      <4>4. repairs \in Seq(RepairRecord)
        BY DEF TypeOK, RepairRecord
      <4>5. repairs' \in Seq(RepairRecord)
        BY <4>2, <4>3, <4>4
      <4>6. repairedAt \in [Equipment -> Time] /\ lateFaults \in [Equipment -> Nat]
        BY DEF TypeOK
      <4>7. repairedAt' \in [Equipment -> Time]
        BY <4>2, <4>6
      <4>8. lateFaults' \in [Equipment -> Nat]
        BY <4>2, <4>6
      <4>9. QED
        BY <4>5, <4>7, <4>8
    <3>2. CASE ~EntersRepair(r)
      BY <1>8, <3>2 DEF Finish, TypeOK, RepairRecord
    <3>3. QED
      BY <3>1, <3>2
  <2>5. QED
    BY <1>8, <2>3, <2>4 DEF Finish, TypeOK, RequestRecord, RepairRecord
<1>9. ASSUME NEW r \in requests, Abort(r) PROVE TypeOK'
  BY <1>9 DEF Abort, TypeOK
<1>10. QED
  BY <1>1, <1>2, <1>3, <1>4, <1>6, <1>7, <1>8, <1>9

\* The steps of the simulator.
LEMMA SimTypes ==
  ASSUME TypeOK, Tick \/ PersistCommit \/ PersistFail \/ PersistLost \/ SimCrash \/ SimStart
  PROVE  TypeOK'
<1> USE DEF logs, shop, Spec_, Normal, Fault
<1>1. CASE Tick
  BY <1>1 DEF Tick, Selected, TypeOK
<1>2. ASSUME Record
      PROVE  latest' \in [Equipment -> Spec_] /\ lateFaults' \in [Equipment -> Nat]
  BY <1>2 DEF Record, TypeOK
<1>3. ASSUME NoTick
      PROVE  attempt' \in 0..PERSIST_RETRY /\ tickAt' \in Time /\ specs' \in [Equipment -> Spec_]
  BY <1>3, MaintenanceAssumption DEF NoTick, PERSIST_RETRY, Time, Never
<1>4. ASSUME simPc = "persisting", AttemptFailed
      PROVE  /\ simPc' \in {"down", "idle", "persisting"}
             /\ attempt' \in 0..PERSIST_RETRY /\ tickAt' \in Time /\ specs' \in [Equipment -> Spec_]
  BY <1>3, <1>4 DEF AttemptFailed, TypeOK, PERSIST_RETRY
<1>5. CASE PersistCommit
  BY <1>2, <1>3, <1>5 DEF PersistCommit, TypeOK
<1>6. CASE PersistFail
  BY <1>4, <1>6 DEF PersistFail, TypeOK
<1>7. CASE PersistLost
  <2>1. lostCommits' \in 0..MaxLostCommits
    BY <1>7, MaintenanceAssumption DEF PersistLost, TypeOK
  <2>2. QED
    BY <1>2, <1>4, <1>7, <2>1 DEF PersistLost, TypeOK
<1>8. CASE SimCrash
  BY <1>3, <1>8 DEF SimCrash, TypeOK
<1>9. CASE SimStart
  BY <1>9 DEF SimStart, TypeOK
<1>10. QED
  BY <1>1, <1>5, <1>6, <1>7, <1>8, <1>9

LEMMA NextTypes == TypeOK /\ [Next]_vars => TypeOK'
<1>1. ASSUME TypeOK, UNCHANGED vars PROVE TypeOK'
  BY <1>1 DEF TypeOK, vars, logs, shop, sim
<1>2. QED
  BY <1>1, ShopTypes, SimTypes DEF Next

\* The shape of every variable (TypeOK of Maintenance).
THEOREM MaintenanceTypes == Spec => []TypeOK
  BY InitTypes, NextTypes, PTL DEF Spec

-----------------------------------------------------------------------------
(* Faults of the heal window.                                              *)

\* A fault which the tick being persisted will add to lateFaults.
Pending(e) ==
  IF simPc = "persisting" /\ specs[e] = Fault /\ Healing(e, tickAt) THEN 1 ELSE 0

\* A tick adds at most one late fault, and that one counts before it is
\* committed.
LateInv == \A e \in Equipment : lateFaults[e] + Pending(e) <= 1 + lostCommits

LEMMA InitLate == Init => LateInv
  BY DEF Init, LateInv, Pending

\* A repair starts to count anew; what is pending then is at most one.
LEMMA FinishLate ==
  ASSUME TypeOK, LateInv, NEW r \in requests, Finish(r)
  PROVE  LateInv'
<1> SUFFICES ASSUME NEW e \in Equipment PROVE lateFaults'[e] + Pending(e)' <= 1 + lostCommits'
  BY DEF LateInv
<1>1. /\ lateFaults \in [Equipment -> Nat] /\ repairedAt \in [Equipment -> Time]
      /\ lostCommits \in Nat /\ Pending(e)' \in {0, 1}
      /\ lateFaults[e] + Pending(e) <= 1 + lostCommits
  BY MaintenanceAssumption DEF TypeOK, LateInv, Pending
<1>2. UNCHANGED <<simPc, specs, tickAt, lostCommits>>
  BY DEF Finish, sim
<1>3. CASE ~EntersRepair(r)
  BY <1>1, <1>2, <1>3 DEF Finish, Pending, Healing
<1>4. CASE EntersRepair(r)
  <2>1. StoreRepair(r)
    BY <1>4 DEF Finish
  <2>2. PICK at \in Time :
          /\ repairedAt' = [repairedAt EXCEPT ![r.machine] = at]
          /\ lateFaults' = [lateFaults EXCEPT ![r.machine] = 0]
    BY <1>4, <2>1, StoreTypes
  <2>3. CASE e = r.machine
    <3>1. lateFaults'[e] = 0
      BY <1>1, <2>2, <2>3
    <3>2. QED
      BY <1>1, <1>2, <3>1
  <2>4. CASE e # r.machine
    <3>1. lateFaults'[e] = lateFaults[e] /\ repairedAt'[e] = repairedAt[e]
      BY <1>1, <2>2, <2>4
    <3>2. Pending(e)' = Pending(e)
      BY <1>2, <3>1 DEF Pending, Healing
    <3>3. QED
      BY <1>1, <1>2, <3>1, <3>2
  <2>5. QED
    BY <2>3, <2>4
<1>5. QED
  BY <1>3, <1>4

\* The simulator: a tick that sees the latch generates no fault, and only a
\* commit that is repeated adds a pending fault twice.
LEMMA SimLate ==
  ASSUME TypeOK, LateInv,
         Tick \/ PersistCommit \/ PersistFail \/ PersistLost \/ SimCrash \/ SimStart
  PROVE  LateInv'
<1> SUFFICES ASSUME NEW e \in Equipment PROVE lateFaults'[e] + Pending(e)' <= 1 + lostCommits'
  BY DEF LateInv
<1> USE DEF shop, logs
<1>1. /\ lateFaults[e] \in Nat /\ lostCommits \in Nat
      /\ Pending(e) \in {0, 1} /\ Pending(e)' \in {0, 1}
      /\ lateFaults[e] + Pending(e) <= 1 + lostCommits
  BY MaintenanceAssumption DEF TypeOK, LateInv, Pending
<1>2. CASE Tick
  <2>1. /\ specs'[e] = Selected(e) /\ tickAt' = now
        /\ UNCHANGED <<repairedAt, lateFaults, lostCommits>>
    BY <1>2 DEF Tick
  <2>2. Pending(e)' = 0
    BY <2>1 DEF Pending, Selected, Healing, Normal, Fault
  <2>3. QED
    BY <1>1, <2>1, <2>2
<1>3. ASSUME simPc = "persisting", Record
      PROVE  lateFaults'[e] = lateFaults[e] + Pending(e)
  BY <1>3 DEF Record, Pending
<1>4. ASSUME simPc = "persisting", AttemptFailed, UNCHANGED repairedAt
      PROVE  Pending(e)' \in {0, Pending(e)}
  BY <1>4 DEF AttemptFailed, NoTick, Pending, Healing, Normal, Fault
<1>5. CASE PersistCommit
  <2>1. Pending(e)' = 0
    BY <1>5 DEF PersistCommit, Pending
  <2>2. QED
    BY <1>1, <1>3, <1>5, <2>1 DEF PersistCommit
<1>6. CASE PersistFail
  BY <1>1, <1>4, <1>6 DEF PersistFail
<1>7. CASE PersistLost
  <2>1. /\ lateFaults'[e] = lateFaults[e] + Pending(e) /\ lostCommits' = lostCommits + 1
        /\ Pending(e)' \in {0, Pending(e)}
    BY <1>3, <1>4, <1>7 DEF PersistLost
  <2>2. QED
    BY <1>1, <2>1
<1>8. CASE SimCrash
  <2>1. Pending(e)' = 0 /\ UNCHANGED <<lateFaults, lostCommits>>
    BY <1>8 DEF SimCrash, Pending
  <2>2. QED
    BY <1>1, <2>1
<1>9. CASE SimStart
  <2>1. Pending(e)' = 0 /\ UNCHANGED <<lateFaults, lostCommits>>
    BY <1>9 DEF SimStart, Pending
  <2>2. QED
    BY <1>1, <2>1
<1>10. QED
  BY <1>2, <1>5, <1>6, <1>7, <1>8, <1>9

LEMMA NextLate == TypeOK /\ LateInv /\ [Next]_vars => LateInv'
<1> SUFFICES ASSUME TypeOK, LateInv, [Next]_vars PROVE LateInv'
  OBVIOUS
<1>1. ASSUME UNCHANGED <<repairedAt, sim, lateFaults, lostCommits>> PROVE LateInv'
  BY <1>1 DEF sim, LateInv, Pending, Healing
<1>2. CASE UNCHANGED vars
  BY <1>1, <1>2 DEF vars, shop
<1>3. CASE Elapse
  BY <1>1, <1>3 DEF Elapse, shop
<1>4. ASSUME NEW l \in Log,
             \/ \E t \in Type, e \in Equipment \cup {NoEquipment} : Create(l, t, e)
             \/ \E t \in Type : Update(l, t)
             \/ Delete(l) \/ StartComplete(l)
      PROVE  LateInv'
  BY <1>1, <1>4 DEF Create, Update, Delete, StartComplete, Request, shop
<1>5. ASSUME NEW e \in Equipment, StartRepair(e) PROVE LateInv'
  BY <1>1, <1>5 DEF StartRepair, Request
<1>6. ASSUME NEW r \in requests, Abort(r) PROVE LateInv'
  BY <1>1, <1>6 DEF Abort
<1>7. QED
  BY <1>2, <1>3, <1>4, <1>5, <1>6, FinishLate, SimLate DEF Next

\* However repairs, ticks, failures and restarts interleave, a repair is
\* followed by at most one fault of its heal window, plus one for each commit
\* that was applied, reported failed and repeated (LateFaultsBounded).
THEOREM LateFaultsAlwaysBounded == Spec => []LateFaultsBounded
<1>1. TypeOK /\ LateInv => LateFaultsBounded
  BY MaintenanceAssumption DEF TypeOK, LateInv, Pending, LateFaultsBounded
<1>2. QED
  BY <1>1, InitTypes, InitLate, NextTypes, NextLate, PTL DEF Spec

-----------------------------------------------------------------------------
(* Completions and repairs.                                                *)

\* What a request read is still so when it commits, a change of the log's work
\* type and a deletion apart.
RequestInv ==
  \A r \in requests :
    /\ r.at # Never
    /\ r.log # NoLog =>
         /\ state[r.log] # "absent" /\ machine[r.log] = r.machine
         /\ r.log \notin retyped => type[r.log] = r.type

AbsentInv == \A l \in Log : state[l] = "absent" => completedAt[l] = Never

WorkInv ==
  now >= 1 /\ RequestInv /\ AbsentInv /\ RepairHasCompletion /\ CompletionHasRepair

LEMMA RepairLogs ==
  ASSUME TypeOK PROVE \A i \in DOMAIN repairs : repairs[i].log \in Log \cup {NoLog}
<1>1. repairs \in Seq(RepairRecord)
  BY DEF TypeOK, RepairRecord
<1>2. \A i \in DOMAIN repairs : repairs[i] \in RepairRecord
  BY <1>1
<1>3. QED
  BY <1>2 DEF RepairRecord

LEMMA InitWork == Init => WorkInv
  BY DEF Init, WorkInv, RequestInv, AbsentInv, RepairHasCompletion, CompletionHasRepair, Never

\* A step that leaves the logs and the repairs alone, and the requests but for
\* some that end.
LEMMA KeepWork ==
  ASSUME WorkInv, now' >= 1, requests' \subseteq requests, UNCHANGED <<logs, repairs>>
  PROVE  WorkInv'
  BY DEF logs, WorkInv, RequestInv, AbsentInv, RepairHasCompletion, CompletionHasRepair, Never

LEMMA RequestWork ==
  ASSUME TypeOK, WorkInv,
         NEW l \in Log \cup {NoLog}, NEW t \in Type, NEW e \in Equipment \cup {NoEquipment},
         Request(l, t, e),
         l # NoLog => state[l] # "absent" /\ machine[l] = e /\ type[l] = t
  PROVE  WorkInv'
<1>1. now # Never
  BY DEF TypeOK, WorkInv, Time, Never
<1>2. RequestInv'
  BY <1>1 DEF Request, logs, WorkInv, RequestInv
<1>3. QED
  BY <1>2 DEF Request, logs, WorkInv, AbsentInv, RepairHasCompletion, CompletionHasRepair

\* create_work_log: nothing refers to a log before it exists.
LEMMA CreateWork ==
  ASSUME TypeOK, WorkInv, NEW l \in Log, NEW t \in Type,
         NEW e \in Equipment \cup {NoEquipment}, Create(l, t, e)
  PROVE  WorkInv'
<1>1. /\ state \in [Log -> {"absent", "live", "deleted"}] /\ type \in [Log -> Type]
      /\ machine \in [Log -> Equipment \cup {NoEquipment}]
      /\ state[l] = "absent" /\ completedAt[l] = Never
  BY DEF TypeOK, Create, WorkInv, AbsentInv
<1>2. /\ state' = [state EXCEPT ![l] = "live"] /\ type' = [type EXCEPT ![l] = t]
      /\ machine' = [machine EXCEPT ![l] = e]
      /\ UNCHANGED <<now, completedAt, retyped, requests, repairs>>
  BY DEF Create, shop
<1>3. \A k \in Log \ {l} : state'[k] = state[k] /\ type'[k] = type[k] /\ machine'[k] = machine[k]
  BY <1>1, <1>2
<1>4. \A r \in requests : r.log \in Log \cup {NoLog}
  BY DEF TypeOK
<1>5. RequestInv'
  BY <1>1, <1>2, <1>3, <1>4 DEF WorkInv, RequestInv
<1>6. AbsentInv'
  BY <1>1, <1>2, <1>3 DEF WorkInv, AbsentInv
<1>7. \A i \in DOMAIN repairs : repairs[i].log \in Log \cup {NoLog}
  BY RepairLogs
<1>8. RepairHasCompletion'
  BY <1>1, <1>2, <1>3, <1>7 DEF WorkInv, RepairHasCompletion
<1>9. CompletionHasRepair'
  BY <1>1, <1>2, <1>3 DEF WorkInv, CompletionHasRepair
<1>10. QED
  BY <1>2, <1>5, <1>6, <1>8, <1>9 DEF WorkInv

\* update_work_log
LEMMA UpdateWork ==
  ASSUME TypeOK, WorkInv, NEW l \in Log, NEW t \in Type, Update(l, t)
  PROVE  WorkInv'
<1>1. /\ type \in [Log -> Type] /\ type' = [type EXCEPT ![l] = t] /\ retyped' = retyped \cup {l}
      /\ UNCHANGED <<now, state, machine, completedAt, requests, repairs>>
  BY DEF TypeOK, Update, shop
<1>2. \A k \in Log \ retyped' : k \notin retyped /\ type'[k] = type[k]
  BY <1>1
<1>3. \A r \in requests : r.log \in Log \cup {NoLog}
  BY DEF TypeOK
<1>4. RequestInv'
  BY <1>1, <1>2, <1>3 DEF WorkInv, RequestInv
<1>5. CompletionHasRepair'
  BY <1>1, <1>2 DEF WorkInv, CompletionHasRepair
<1>6. QED
  BY <1>1, <1>4, <1>5 DEF WorkInv, AbsentInv, RepairHasCompletion

\* delete_work_log
LEMMA DeleteWork ==
  ASSUME TypeOK, WorkInv, NEW l \in Log, Delete(l)
  PROVE  WorkInv'
<1>1. /\ state \in [Log -> {"absent", "live", "deleted"}]
      /\ state[l] = "live" /\ state' = [state EXCEPT ![l] = "deleted"]
      /\ UNCHANGED <<now, type, machine, completedAt, retyped, requests, repairs>>
  BY DEF TypeOK, Delete, shop
<1>2. \A k \in Log : state'[k] = state[k] \/ (state'[k] = "deleted" /\ state[k] = "live")
  BY <1>1
<1>3. \A r \in requests : r.log \in Log \cup {NoLog}
  BY DEF TypeOK
<1>4. RequestInv'
  BY <1>1, <1>2, <1>3 DEF WorkInv, RequestInv
<1>5. AbsentInv'
  BY <1>1, <1>2 DEF WorkInv, AbsentInv
<1>6. \A i \in DOMAIN repairs : repairs[i].log \in Log \cup {NoLog}
  BY RepairLogs
<1>7. RepairHasCompletion'
  BY <1>1, <1>2, <1>6 DEF WorkInv, RepairHasCompletion
<1>8. QED
  BY <1>1, <1>4, <1>5, <1>7 DEF WorkInv, CompletionHasRepair

\* The commit of a completion or a repair.
LEMMA FinishWork ==
  ASSUME TypeOK, WorkInv, NEW r \in requests, Finish(r)
  PROVE  WorkInv'
<1>1. /\ r.log \in Log \cup {NoLog} /\ r.at \in Time /\ r.at # Never
      /\ r.log # NoLog => state[r.log] # "absent" /\ machine[r.log] = r.machine
      /\ r.log # NoLog /\ r.log \notin retyped => type[r.log] = r.type
  BY DEF TypeOK, WorkInv, RequestInv
<1>2. /\ requests' \subseteq requests /\ completedAt' = Completed(r)
      /\ UNCHANGED <<now, state, type, machine, retyped>>
  BY DEF Finish
<1>3. /\ state \in [Log -> {"absent", "live", "deleted"}] /\ completedAt \in [Log -> Time]
      /\ repairs \in Seq(RepairRecord)
  BY DEF TypeOK, RepairRecord
<1>4. \A l \in Log : completedAt'[l] = IF l = r.log /\ state[l] = "live" THEN r.at ELSE completedAt[l]
  BY <1>1, <1>2, <1>3, MaintenanceAssumption DEF Completed
<1>5. \/ ~EntersRepair(r) /\ repairs' = repairs
      \/ \E at \in Time : /\ EntersRepair(r) /\ r.at <= at
                          /\ repairs' = Append(repairs, [log |-> r.log, machine |-> r.machine, at |-> at])
  BY StoreTypes DEF Finish
<1>6. RequestInv'
  BY <1>2 DEF WorkInv, RequestInv
<1>7. AbsentInv'
  BY <1>1, <1>2, <1>4 DEF WorkInv, AbsentInv
<1>8. /\ \A i \in DOMAIN repairs : i \in DOMAIN repairs' /\ repairs'[i] = repairs[i]
      /\ \A i \in DOMAIN repairs' : i \in DOMAIN repairs \/ repairs'[i].log = r.log
      /\ EntersRepair(r) => \E i \in DOMAIN repairs' :
           repairs'[i].log = r.log /\ repairs'[i].machine = r.machine /\ repairs'[i].at >= r.at
  <2>1. CASE ~EntersRepair(r)
    BY <1>5, <2>1
  <2>2. CASE EntersRepair(r)
    <3>1. PICK at \in Time :
            r.at <= at /\ repairs' = Append(repairs, [log |-> r.log, machine |-> r.machine, at |-> at])
      BY <1>5, <2>2
    <3>2. /\ Len(repairs) \in Nat /\ Len(repairs') = Len(repairs) + 1
          /\ DOMAIN repairs = 1..Len(repairs) /\ DOMAIN repairs' = 1..(Len(repairs) + 1)
          /\ \A i \in 1..Len(repairs) : repairs'[i] = repairs[i]
          /\ repairs'[Len(repairs) + 1] = [log |-> r.log, machine |-> r.machine, at |-> at]
      BY <1>3, <3>1
    <3>3. at >= r.at
      BY <1>1, <3>1 DEF Time
    <3>4. QED
      BY <3>2, <3>3
  <2>3. QED
    BY <2>1, <2>2
<1>9. \A i \in DOMAIN repairs : repairs[i].log \in Log \cup {NoLog}
  BY RepairLogs
<1>10. RepairHasCompletion'
  <2>1. ASSUME NEW i \in DOMAIN repairs', repairs'[i].log # NoLog
        PROVE  completedAt'[repairs'[i].log] # Never \/ state'[repairs'[i].log] = "deleted"
    <3>1. CASE repairs'[i].log = r.log
      <4>1. r.log \in Log /\ state[r.log] \in {"live", "deleted"}
        BY <1>1, <1>3, <2>1, <3>1
      <4>2. QED
        BY <1>1, <1>2, <1>4, <3>1, <4>1
    <3>2. CASE repairs'[i].log # r.log
      <4>1. i \in DOMAIN repairs /\ repairs'[i] = repairs[i]
        BY <1>8, <3>2
      <4>2. repairs[i].log \in Log
        BY <1>9, <2>1, <4>1
      <4>3. completedAt[repairs[i].log] # Never \/ state[repairs[i].log] = "deleted"
        BY <2>1, <4>1 DEF WorkInv, RepairHasCompletion
      <4>4. QED
        BY <1>2, <1>4, <3>2, <4>1, <4>2, <4>3
    <3>3. QED
      BY <3>1, <3>2
  <2>2. QED
    BY <2>1 DEF RepairHasCompletion
<1>11. CompletionHasRepair'
  <2>1. ASSUME NEW l \in Log \ retyped,
               completedAt'[l] # Never, machine[l] # NoEquipment, type[l] = "repair"
        PROVE  \E i \in DOMAIN repairs' :
                 /\ repairs'[i].log = l /\ repairs'[i].machine = machine[l]
                 /\ repairs'[i].at >= completedAt'[l]
    <3>1. CASE l = r.log /\ state[l] = "live"
      <4>1. l # NoLog => EntersRepair(r) /\ r.machine = machine[l] /\ completedAt'[l] = r.at
        BY <1>1, <1>4, <2>1, <3>1 DEF EntersRepair
      <4>2. QED
        BY <1>8, <3>1, <4>1, MaintenanceAssumption
    <3>2. CASE ~(l = r.log /\ state[l] = "live")
      <4>1. completedAt'[l] = completedAt[l]
        BY <1>4, <3>2
      <4>2. PICK i \in DOMAIN repairs :
              /\ repairs[i].log = l /\ repairs[i].machine = machine[l]
              /\ repairs[i].at >= completedAt[l]
        BY <2>1, <4>1 DEF WorkInv, CompletionHasRepair
      <4>3. QED
        BY <1>8, <4>1, <4>2
    <3>3. QED
      BY <3>1, <3>2
  <2>2. QED
    BY <1>2, <2>1 DEF CompletionHasRepair
<1>12. QED
  BY <1>2, <1>6, <1>7, <1>10, <1>11 DEF WorkInv

LEMMA NextWork == TypeOK /\ WorkInv /\ [Next]_vars => WorkInv'
<1> SUFFICES ASSUME TypeOK, WorkInv, [Next]_vars PROVE WorkInv'
  OBVIOUS
<1>1. now \in Nat /\ now >= 1
  BY MaintenanceAssumption DEF TypeOK, WorkInv, Time
<1>2. CASE UNCHANGED vars
  BY <1>1, <1>2, KeepWork DEF vars, shop
<1>3. CASE Elapse
  BY <1>1, <1>3, KeepWork DEF Elapse, shop
<1>4. ASSUME NEW l \in Log, StartComplete(l) PROVE WorkInv'
  <2>1. type[l] \in Type /\ machine[l] \in Equipment \cup {NoEquipment} /\ state[l] # "absent"
    BY <1>4 DEF TypeOK, StartComplete
  <2>2. QED
    BY <1>4, <2>1, RequestWork DEF StartComplete
<1>5. ASSUME NEW e \in Equipment, StartRepair(e) PROVE WorkInv'
  <2>1. Request(NoLog, "repair", e)
    BY <1>5 DEF StartRepair
  <2>2. "repair" \in Type
    BY DEF Type
  <2>3. QED
    BY <2>1, <2>2, RequestWork
<1>6. ASSUME NEW r \in requests, Abort(r) PROVE WorkInv'
  BY <1>1, <1>6, KeepWork DEF Abort
<1>7. CASE Tick \/ PersistCommit \/ PersistFail \/ PersistLost \/ SimCrash \/ SimStart
  <2>1. UNCHANGED <<now, logs, requests, repairs>>
    BY <1>7 DEF Tick, PersistCommit, PersistFail, PersistLost, SimCrash, SimStart, shop
  <2>2. QED
    BY <1>1, <2>1, KeepWork
<1>8. QED
  BY <1>2, <1>3, <1>4, <1>5, <1>6, <1>7, CreateWork, UpdateWork, DeleteWork, FinishWork DEF Next

LEMMA WorkIsInvariant == Spec => []WorkInv
  BY InitTypes, InitWork, NextTypes, NextWork, PTL DEF Spec

\* Every repair stored for a work log has its completion, unless the log was
\* deleted meanwhile (RepairHasCompletion).
THEOREM EveryRepairHasCompletion == Spec => []RepairHasCompletion
<1>1. WorkInv => RepairHasCompletion
  BY DEF WorkInv
<1>2. QED
  BY <1>1, WorkIsInvariant, PTL

\* Every completion of a repair has its repair, of the same equipment and not
\* older (CompletionHasRepair).
THEOREM EveryCompletionHasRepair == Spec => []CompletionHasRepair
<1>1. WorkInv => CompletionHasRepair
  BY DEF WorkInv
<1>2. QED
  BY <1>1, WorkIsInvariant, PTL

\* Completions and repairs go together, however the requests for a log
\* interleave (worklog/service.py:85-127, admin/repository.py:190-225).
THEOREM RepairsAlwaysMatch == Spec => []RepairsMatchCompletions
<1>1. WorkInv => RepairsMatchCompletions
  BY DEF WorkInv, RepairsMatchCompletions
<1>2. QED
  BY <1>1, WorkIsInvariant, PTL

=============================================================================
