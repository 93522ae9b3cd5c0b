------------------------- MODULE NotificationSchema -------------------------
(***************************************************************************)
(* The migrations that rewrite notifications in place (alembic 0005, 0012, *)
(* 0022, 0028), up and down, with the application writing between them.    *)
(* Each is one transaction.  Time is counted in quarters of an hour; a row *)
(* has a kind, its equipment and alarm code.  Of what the application did  *)
(* under an old schema only the schema is known: its constraint, and one   *)
(* flag for all users, which any of them may have set or cleared.          *)
(***************************************************************************)
EXTENDS Integers, FiniteSets

CONSTANTS
  Kind,
  Metric,
  NoMetric,   \* NULL: never equal to another in a unique constraint
  User,
  MaxTime,    \* bound: times
  MaxRows     \* bound: rows

SchemaAssumption ==
  NoMetric \notin Metric /\ {MaxTime, MaxRows} \subseteq Nat

VARIABLES
  version,    \* 5, 12, 22 or 28
  rows,       \* notifications, with bucket_hour or bucket_start
  flag,       \* ids with is_read, before 28
  reads,      \* notification_reads, from 28
  users,
  inserted,   \* history: rows the application inserted
  wasRead,    \* history: [id, user] read by this user, not marked unread since
  onceRead    \* history: ids read by somebody at some time

vars == <<version, rows, flag, reads, users, inserted, wasRead, onceRead>>

Init ==
  /\ version = 5 /\ rows = {} /\ flag = {} /\ reads = {} /\ users = {}
  /\ inserted = {} /\ wasRead = {} /\ onceRead = {}

Bucket(v, at) == IF v = 5 THEN 0 ELSE IF v = 12 THEN at \div 4 ELSE at \div 2

\* The unique constraint of a version; 5 has only that of its source.
Equal(v, r, s) ==
  /\ v # 5 /\ r.kind = s.kind /\ r.bucket = s.bucket
  /\ v # 12 => r.metric = s.metric /\ r.metric # NoMetric

Rebucket(v, r) == [r EXCEPT !.bucket = Bucket(v, r.at)]

-----------------------------------------------------------------------------
(* The application.                                                        *)

Insert ==
  /\ Cardinality(inserted) < MaxRows
  /\ \E kind \in Kind, at \in 0..MaxTime,
        metric \in IF version < 22 THEN {NoMetric} ELSE Metric :
       LET row == [id |-> Cardinality(inserted) + 1, kind |-> kind, metric |-> metric,
                   at |-> at, bucket |-> Bucket(version, at)]
       IN /\ \A r \in rows : ~Equal(version, r, row)
          /\ rows' = rows \cup {row}
          /\ inserted' = inserted \cup {row}
  /\ UNCHANGED <<version, flag, reads, users, wasRead, onceRead>>

ShownRead(id, u) == IF version < 28 THEN id \in flag ELSE [id |-> id, user |-> u] \in reads

MarkRead(u) ==
  /\ u \in users
  /\ \E r \in rows :
       /\ IF version < 28 THEN flag' = flag \cup {r.id} /\ UNCHANGED reads
          ELSE reads' = reads \cup {[id |-> r.id, user |-> u]} /\ UNCHANGED flag
       /\ wasRead' = wasRead \cup {[id |-> r.id, user |-> u]}
       /\ onceRead' = onceRead \cup {r.id}
  /\ UNCHANGED <<version, rows, users, inserted>>

\* Before 28 one user's is everybody's.
MarkUnread(u) ==
  /\ u \in users
  /\ \E r \in rows :
       LET marks == {[id |-> r.id, user |-> x] : x \in IF version < 28 THEN User ELSE {u}}
       IN /\ IF version < 28 THEN flag' = flag \ {r.id} /\ UNCHANGED reads
             ELSE reads' = reads \ marks /\ UNCHANGED flag
          /\ wasRead' = wasRead \ marks
  /\ UNCHANGED <<version, rows, users, inserted, onceRead>>

NewUser == users' = User /\ users # User
           /\ UNCHANGED <<version, rows, flag, reads, inserted, wasRead, onceRead>>

-----------------------------------------------------------------------------
(* Upgrades.                                                               *)

\* Mutant: the last of each bucket is kept.
Latest(S) == {r \in S : \A s \in S :
  s.kind = r.kind /\ s.bucket = r.bucket => s.at < r.at \/ (s.at = r.at /\ s.id <= r.id)}

\* row_number() OVER (PARTITION BY ... ORDER BY occurred_at, id) = 1
Earliest(S) == {r \in S : \A s \in S :
  s.kind = r.kind /\ s.bucket = r.bucket => r.at < s.at \/ (s.at = r.at /\ r.id <= s.id)}

\* Deleted rows take their flag with them.
Upgrade12 ==
  /\ version = 5 /\ version' = 12
  /\ rows' = Earliest({Rebucket(12, r) : r \in rows})
  /\ flag' = {i \in flag : \E r \in rows' : r.id = i}
  /\ UNCHANGED <<reads, users, inserted, wasRead, onceRead>>

Upgrade22 ==
  /\ version = 12 /\ version' = 22
  /\ rows' = {[Rebucket(22, r) EXCEPT !.metric = NoMetric] : r \in rows}
  /\ UNCHANGED <<flag, reads, users, inserted, wasRead, onceRead>>

\* What was read by somebody becomes read by everybody there is.
Upgrade28 ==
  /\ version = 22 /\ version' = 28
  /\ reads' = {[id |-> i, user |-> u] : i \in flag, u \in users}
  /\ flag' = {}
  /\ UNCHANGED <<rows, users, inserted, wasRead, onceRead>>

-----------------------------------------------------------------------------
(* Downgrades.                                                             *)

Downgrade28 ==
  /\ version = 28 /\ version' = 22
  /\ flag' = {i \in {r.id : r \in rows} : \E u \in User : [id |-> i, user |-> u] \in reads}
  /\ reads' = {}
  /\ UNCHANGED <<rows, users, inserted, wasRead, onceRead>>

\* Fails, and leaves everything, when two rows of one hour are in the way.
Downgrade22 ==
  /\ version = 22
  /\ LET back == {[Rebucket(12, r) EXCEPT !.metric = NoMetric] : r \in rows} IN
       /\ \A r, s \in back : r.id # s.id => ~Equal(12, r, s)
       /\ rows' = back
  /\ version' = 12
  /\ UNCHANGED <<flag, reads, users, inserted, wasRead, onceRead>>

Downgrade12 ==
  /\ version = 12 /\ version' = 5
  /\ rows' = {Rebucket(5, r) : r \in rows}
  /\ UNCHANGED <<flag, reads, users, inserted, wasRead, onceRead>>

Next ==
  \/ Insert \/ NewUser \/ \E u \in User : MarkRead(u) \/ MarkUnread(u)
  \/ Upgrade12 \/ Upgrade22 \/ Upgrade28 \/ Downgrade28 \/ Downgrade22 \/ Downgrade12

Spec == Init /\ [][Next]_vars

-----------------------------------------------------------------------------
SameHour(r, s) == r.kind = s.kind /\ r.at \div 4 = s.at \div 4

\* Through any upgrades and downgrades with work between them: no two rows are
\* in each other's way; an alarm that was notified keeps a notification of its
\* hour that is not later; whoever read a row that is still there sees it as
\* read until it is marked unread, by him or, under the flag, by anybody; and a
\* row is shown read only if somebody did read it once (alembic 0012:32-47,
\* 0022:35, 0028:53-62, 72-78; notification/repository.py:228-270).
HistorySurvives ==
  /\ \A r, s \in rows : r.id # s.id => ~Equal(version, r, s)
  /\ \A r \in inserted : \E s \in rows : SameHour(r, s) /\ s.at <= r.at
  /\ \A r \in rows : \A u \in users :
       /\ [id |-> r.id, user |-> u] \in wasRead => ShownRead(r.id, u)
       /\ ShownRead(r.id, u) => r.id \in onceRead

=============================================================================
