-------------------------- MODULE NotificationSync --------------------------
(***************************************************************************)
(* The background loop that turns journal rows into notifications          *)
(* (watcher/sync_worker.py, notification/repository.sync_from_alarms).     *)
(* Each cycle reads the rows of the last Lookback, keeps the first of each *)
(* alarm and bucket, and inserts what is not there yet.  The read and the  *)
(* insert are two statements: rows commit between them, and the process    *)
(* may stop or the database fail after the read.                           *)
(*                                                                         *)
(* An alarm stands for an equipment, variable and code.  Its rows have one *)
(* writer and are raised in time order, but a row is stamped before it is  *)
(* committed: up to MaxLag later, when the tick is slow or retried.        *)
(***************************************************************************)
EXTENDS Integers, Sequences, FiniteSets

CONSTANTS
  Alarm,
  Lookback,      \* _SYNC_LOOKBACK, in units of time
  BucketWidth,   \* _BUCKET_WIDTH
  MaxLag,        \* bound: from the stamp of a row to its commit
  MaxTime,       \* bound: the clock
  MaxRows        \* bound: journal rows

ASSUME TimeAssumption ==
  /\ Lookback \in Nat /\ MaxLag \in Nat /\ MaxTime \in Nat /\ MaxRows \in Nat
  /\ BucketWidth \in Nat \ {0}

VARIABLES
  now,       \* the clock
  alarms,    \* journal rows: set of [alarm, at]
  notes,     \* notifications in id order: [alarm, bucket, occurred]
  pc,        \* the loop: "down", "idle" or "writing"
  readAt,    \* time of the read of the cycle in progress
  window,    \* rows that read returned
  reached,   \* history: rows committed before that read
  synced,    \* history: readAt of the last committed cycle, 0 before the first
  covered,   \* history: reached of the last committed cycle
  gap        \* history: longest time between the reads of committed cycles

cycle == <<pc, readAt, window, reached>>
history == <<synced, covered, gap>>
vars == <<now, alarms, notes, cycle, history>>

Row == [alarm : Alarm, at : 0..MaxTime]

\* date_bin
Bucket(t) == t \div BucketWidth

Init ==
  /\ now = 0 /\ alarms = {} /\ notes = <<>>
  /\ pc = "down" /\ readAt = 0 /\ window = {} /\ reached = {}
  /\ synced = 0 /\ covered = {} /\ gap = 0

-----------------------------------------------------------------------------

Elapse ==
  /\ now < MaxTime
  /\ now' = now + 1
  /\ UNCHANGED <<alarms, notes, cycle, history>>

\* The simulator or the scorer commits a row stamped a moment ago.
RowCommitted(a, at) ==
  /\ Cardinality(alarms) < MaxRows
  /\ at \in 0..now /\ now - at <= MaxLag
  /\ \A r \in alarms : r.alarm = a => r.at < at
  /\ alarms' = alarms \cup {[alarm |-> a, at |-> at]}
  /\ UNCHANGED <<now, notes, cycle, history>>

LoopStart ==
  /\ pc = "down"
  /\ pc' = "idle"
  /\ UNCHANGED <<now, alarms, notes, readAt, window, reached, history>>

\* Mutant of InWindow: no lookback but the cycle's own bucket.
InWindowNarrow(r) == Bucket(r.at) = Bucket(now)

\* Rows raised within the lookback.
InWindow(r) == r.at >= now - Lookback

\* _sync_once up to the SELECT.
SyncRead ==
  /\ pc = "idle"
  /\ pc' = "writing"
  /\ readAt' = now
  /\ window' = {r \in alarms : InWindow(r)}
  /\ reached' = alarms
  /\ UNCHANGED <<now, alarms, notes, history>>

\* Mutant of Groups: the latest row of a bucket instead of the first.
GroupsLatest(rows) ==
  {[alarm |-> r.alarm, bucket |-> Bucket(r.at), occurred |-> r.at] :
     r \in {s \in rows : \A t \in rows :
              t.alarm = s.alarm /\ Bucket(t.at) = Bucket(s.at) => t.at <= s.at}}

\* GROUP BY alarm and bucket with the earliest stamp of each group.
Groups(rows) ==
  {[alarm |-> r.alarm, bucket |-> Bucket(r.at), occurred |-> r.at] :
     r \in {s \in rows : \A t \in rows :
              t.alarm = s.alarm /\ Bucket(t.at) = Bucket(s.at) => s.at <= t.at}}

Notified(a, b) == \E i \in DOMAIN notes : notes[i].alarm = a /\ notes[i].bucket = b

\* Mutant of Missing: no conflict clause.
MissingAll(rows) == Groups(rows)

\* ON CONFLICT DO NOTHING: the groups the unique constraint lets in.
Missing(rows) == {g \in Groups(rows) : ~Notified(g.alarm, g.bucket)}

\* The rest of the cycle, in one transaction; the new ids follow no order of
\* the groups.
SyncCommit ==
  /\ pc = "writing"
  /\ pc' = "idle"
  /\ \E new \in [1..Cardinality(Missing(window)) -> Missing(window)] :
       /\ \A g \in Missing(window) : \E i \in DOMAIN new : new[i] = g
       /\ notes' = notes \o new
  /\ synced' = readAt
  /\ covered' = reached
  /\ gap' = IF readAt - synced > gap THEN readAt - synced ELSE gap
  /\ readAt' = 0 /\ window' = {} /\ reached' = {}
  /\ UNCHANGED <<now, alarms>>

\* Any error rolls the cycle back; the loop tries again next interval.
SyncFail ==
  /\ pc = "writing"
  /\ pc' = "idle"
  /\ readAt' = 0 /\ window' = {} /\ reached' = {}
  /\ UNCHANGED <<now, alarms, notes, history>>

LoopStop ==
  /\ pc # "down"
  /\ pc' = "down"
  /\ readAt' = 0 /\ window' = {} /\ reached' = {}
  /\ UNCHANGED <<now, alarms, notes, history>>

Next ==
  \/ Elapse
  \/ \E a \in Alarm, at \in 0..MaxTime : RowCommitted(a, at)
  \/ LoopStart \/ SyncRead \/ SyncCommit \/ SyncFail \/ LoopStop

Spec == Init /\ [][Next]_vars

-----------------------------------------------------------------------------
(* Properties.                                                             *)

\* The shape of every variable.
TypeOK ==
  /\ now \in 0..MaxTime
  /\ alarms \in SUBSET Row
  /\ notes \in Seq([alarm : Alarm, bucket : Nat, occurred : 0..MaxTime])
  /\ pc \in {"down", "idle", "writing"}
  /\ readAt \in 0..now
  /\ window \in SUBSET Row /\ reached \in SUBSET Row
  /\ synced \in 0..now /\ gap \in 0..now
  /\ covered \in SUBSET Row

\* No committed cycle came so late that a row may have slipped out of the
\* window before any cycle saw it.
Prompt == gap + MaxLag <= Lookback

\* As long as the loop never paused for the lookback, every row that was there
\* when the last committed cycle read has its notification: failed cycles,
\* restarts and late commits lose nothing (comment of _SYNC_LOOKBACK).
NothingMissed ==
  Prompt => \A r \in covered : Notified(r.alarm, Bucket(r.at))

\* Under the same condition a notification tells the first occurrence within
\* its bucket, whatever rows arrived before, during and after its cycle.
FirstOfBucket ==
  Prompt =>
    \A i \in DOMAIN notes, r \in alarms :
      r.alarm = notes[i].alarm /\ Bucket(r.at) = notes[i].bucket
        => notes[i].occurred <= r.at

\* What a prompt loop promises: no row is lost, and no notification is late.
SyncComplete == NothingMissed /\ FirstOfBucket

\* The loop implements the log readers rely on, although cycles overlap in the
\* rows they read and are repeated after errors.
Log == INSTANCE NotificationLog WITH notes <- notes
ImplementsLog == Log!Spec

\* The loop's process is restarted and its outages end.
Fairness == WF_vars(LoopStart) /\ SF_vars(SyncRead) /\ SF_vars(SyncCommit)

FairSpec == Spec /\ Fairness

\* Every row is notified in the end if at all times the last committed cycle
\* is recent enough.
EveryRowNotified ==
  [](now - synced + MaxLag <= Lookback) =>
    \A a \in Alarm, t \in 0..MaxTime :
      [alarm |-> a, at |-> t] \in alarms ~> Notified(a, Bucket(t))

=============================================================================
