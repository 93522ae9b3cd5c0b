------------------------------ MODULE SensorLogs ------------------------------
(***************************************************************************)
(* Reading sensor values of a range of time: the tool get_sensor_logs, the *)
(* series of one equipment, and the query they share, which answers with   *)
(* the stored rows or with buckets (telemetry/repository.py, service.py).  *)
(* Time is counted in microseconds, the grain of an interval.  A row is    *)
(* its equipment and time; a bucket the same with the rows it averages.    *)
(***************************************************************************)
EXTENDS Integers, FiniteSets, Functions, Sequences

CONSTANTS
  Equipment,
  Line,       \* the equipment of the line asked for
  Interval,   \* sensor_sampling_interval_seconds
  MaxRows,    \* sensor_log_max_rows
  Window,     \* DEFAULT_SERIES_WINDOW
  Tables,     \* the tables considered: sets of rows
  Horizon     \* bound: time

Time == 0..Horizon
Row == [equipment : Equipment, at : Time]

\* A setting counts an interval in seconds: many microseconds for every row.
SensorAssumption ==
  /\ Line \subseteq Equipment /\ IsFiniteSet(Line)
  /\ {Interval, MaxRows, Window} \subseteq Nat \ {0}
  /\ MaxRows <= 2 * Interval
  /\ Horizon \in Nat
  /\ \A rows \in Tables : rows \subseteq Row /\ IsFiniteSet(rows)

VARIABLES
  stored,    \* equipment_telemetry: the rows
  request,   \* what is asked for
  stage,     \* "asked", "anchored", "late" (a row came since), "answered"
  answer     \* the rows sent, in order

vars == <<stored, request, stage, answer>>

None == -1

\* Either a tool call with both times for an equipment or a line, or a series
\* of one equipment where times may be missing.
Asked ==
  [kind : {"tool"}, equipment : {{e} : e \in Equipment} \cup {Line}, start : Time, end : Time]
    \cup [kind : {"series"}, equipment : {{e} : e \in Equipment},
          start : Time \cup {None}, end : Time \cup {None}]

Init ==
  /\ stored \in Tables /\ request \in Asked
  /\ stage = "asked" /\ answer = <<>>

-----------------------------------------------------------------------------
(* fetch_sensor_logs.                                                      *)

InRange == {r \in stored : /\ r.equipment \in request.equipment
                           /\ request.start <= r.at /\ r.at <= request.end}

\* _count_equipments: 1 for a single equipment and for a line without any.
Count == IF request.equipment = {} THEN 1 ELSE Cardinality(request.equipment)

Span == IF request.end > request.start THEN request.end - request.start ELSE 0

\* estimated_rows > limit
TooMany == Span * Count > MaxRows * Interval /\ Span > 0

Buckets == IF MaxRows \div Count > 2 THEN MaxRows \div Count ELSE 2

\* span / (buckets - 1), rounded half to even as timedelta does.
Rounded(a, b) ==
  LET low == a \div b
      twice == 2 * (a % b)
  IN IF twice > b \/ (twice = b /\ low % 2 = 1) THEN low + 1 ELSE low
WidthOfAll == Rounded(Span, Buckets)   \* mutant: the end has no bucket of its own
Width == Rounded(Span, Buckets - 1)

\* date_bin with the start of the request as its origin.
BinOf(r) == [equipment |-> r.equipment,
             at |-> request.start + ((r.at - request.start) \div Width) * Width]

Bins == {[bin |-> BinOf(r), rows |-> {x \in InRange : BinOf(x) = BinOf(r)}] : r \in InRange}

\* What LIMIT leaves of n.
Limited(n) == IF n < MaxRows THEN n ELSE MaxRows

\* The first buckets; which of those with equal times is left open.
Oldest(bins) ==
  {S \in SUBSET bins : /\ Cardinality(S) = Limited(Cardinality(bins))
                       /\ \A b \in S, c \in bins \ S : b.bin.at <= c.bin.at}

\* The newest rows; for a line the newest of each equipment, merged.
Latest ==
  {r \in InRange :
     Cardinality({s \in InRange : s.equipment = r.equipment /\ s.at > r.at}) < MaxRows}

Newest(rows) ==
  {S \in SUBSET rows : /\ Cardinality(S) = Limited(Cardinality(rows))
                       /\ \A r \in S, s \in rows \ S : s.at <= r.at}

Raw == {{[bin |-> r, rows |-> {r}] : r \in S} : S \in Newest(Latest)}

Logs == IF TooMany THEN Oldest(Bins) ELSE Raw

\* The answers with these items, in order of time.
InOrder(s) == \A i, j \in DOMAIN s : i < j => s[i].bin.at <= s[j].bin.at
Ordered(items) ==
  {s \in [1..Cardinality(items) -> items] : Range(s) = items /\ InOrder(s)}

-----------------------------------------------------------------------------

\* get_sensor_series with a time missing: the newest row is the anchor.
Anchor ==
  /\ stage = "asked" /\ request.kind = "series"
  /\ request.start = None \/ request.end = None
  /\ \E newest \in {r \in stored : r.equipment \in request.equipment} :
       /\ \A r \in stored : r.equipment \in request.equipment => r.at <= newest.at
       /\ LET end == IF request.end = None THEN newest.at ELSE request.end
          IN request' = [kind |-> "series", equipment |-> request.equipment, end |-> end,
                         start |-> IF request.start = None THEN end - Window ELSE request.start]
  /\ stage' = "anchored"
  /\ UNCHANGED <<stored, answer>>

\* A series of equipment without telemetry is empty.
AnchorMissing ==
  /\ stage = "asked" /\ request.kind = "series"
  /\ request.start = None \/ request.end = None
  /\ ~ \E r \in stored : r.equipment \in request.equipment
  /\ stage' = "answered"
  /\ UNCHANGED <<stored, request, answer>>

Answer ==
  /\ \/ stage \in {"anchored", "late"}
     \/ stage = "asked" /\ request.start # None /\ request.end # None
  /\ stage' = "answered"
  /\ \E items \in Logs : answer' \in Ordered(items)
  /\ UNCHANGED <<stored, request>>

\* A row of the simulator arrives, after all of its equipment, between the
\* queries of a series; what came before the first of them is in the table.
Arrive ==
  /\ stage = "anchored"
  /\ \E e \in Equipment, at \in Time :
       /\ \A r \in stored : r.equipment = e => r.at + Interval <= at
       /\ stored' = stored \cup {[equipment |-> e, at |-> at]}
  /\ stage' = "late"   \* bound: one such row
  /\ UNCHANGED <<request, answer>>

Next == Anchor \/ AnchorMissing \/ Answer \/ Arrive

Spec == Init /\ [][Next]_vars

-----------------------------------------------------------------------------

\* Rows of an equipment are an interval apart or more.
Spaced(rows) ==
  \A r, s \in rows : r.equipment = s.equipment /\ r.at < s.at => r.at + Interval <= s.at

\* When the limit is two rows or more for each equipment, the answer keeps it,
\* is in order of time and shows rows of the range, alone or in the average of
\* a bucket; what it lacks is older than all of them.
\* Rows spaced by the sampling interval it shows all, up to one old row per
\* equipment: the estimate does not count the row at the start, so as many rows
\* as the limit allows plus one may be taken for raw ones (repository.py:155-183).
\* A series without an end reaches the newest row there was when it was asked for.
WholeRange ==
  (stage = "answered" /\ request.end # None /\ 2 * Count <= MaxRows) =>
    LET shown == UNION {answer[i].rows : i \in DOMAIN answer}
        missing == InRange \ shown
    IN /\ Len(answer) <= MaxRows
       /\ shown \subseteq InRange
       /\ Spaced(stored) => Cardinality(missing) <= Count
       /\ \A r \in missing, s \in shown : r.at <= s.at
       /\ InOrder(answer)

=============================================================================
