------------------------------ MODULE Evaluation ------------------------------
(***************************************************************************)
(* Scoring a detector on the evaluation set: for every threshold quantile  *)
(* the method is fitted and run anew (experiments/operating_point.py,      *)
(* run.py), its detections are scored against the events                   *)
(* (anomaly/evaluation.py), and the operating point within the false-alarm *)
(* budget is chosen.                                                       *)
(*                                                                         *)
(* One equipment; totals over several are sums.  A window is one tick      *)
(* long.  Which windows come out above 1.0 and which are masked is any for *)
(* every quantile: model, average and mask are those of its own fit.  The  *)
(* rate of false alarms is their number, as the observed days are fixed.   *)
(***************************************************************************)
EXTENDS Integers, FiniteSets, FiniteSetsExt, Sequences, SequencesExt

CONSTANTS
  Ticks,      \* number of ticks of the segment
  Confirm,    \* confirm_k
  Kind,
  Grace,      \* max_delay_ticks by kind; a kind without one has no entry
  Bucket,     \* bucket_ticks
  Settings,   \* number of QUANTILES
  Budget      \* BUDGET

EvaluationAssumption ==
  /\ Ticks \in Nat \ {0} /\ {Confirm, Bucket, Settings} \subseteq Nat \ {0}
  /\ IsFiniteSet(Kind) /\ DOMAIN Grace \subseteq Kind /\ \A k \in DOMAIN Grace : Grace[k] \in Nat
  /\ Budget \in Nat

VARIABLES
  events,     \* [kind, from, to]
  sweep,      \* metrics of the settings scored so far
  detections, \* history: the ticks of their detections
  chosen      \* the setting of the operating point, 0 before

vars == <<events, sweep, detections, chosen>>

Tick == 0..Ticks - 1
NoDelay == -1

\* _segment_events: one event for each kind of anomaly of the scenario.
segment_events(kinds, start) == {[kind |-> k, from |-> start, to |-> Ticks - 1] : k \in kinds}

Init ==
  /\ \E start \in Tick, kinds \in SUBSET Kind \ {{}} : events = segment_events(kinds, start)
  /\ sweep = <<>> /\ detections = <<>> /\ chosen = 0

\* sustained over 1.0, outside the mask.
Fired(over, mask) ==
  {t \in Tick \ mask : t >= Confirm - 1 /\ \A s \in t - Confirm + 1..t : s \in over}

-----------------------------------------------------------------------------
(* The metrics of one setting.                                             *)

Deadline(e) ==
  IF e.kind \in DOMAIN Grace /\ e.from + Grace[e.kind] < e.to
  THEN e.from + Grace[e.kind] ELSE e.to

Hits(e, ticks) == {t \in ticks : e.from <= t /\ t <= Deadline(e)}

Detected(ticks) == {e \in events : Hits(e, ticks) # {}}

\* Mutant: a detection counts once it follows a quiet time of a bucket's width.
bucket_dedup_quiet(ticks) == {t \in ticks : ~\E s \in ticks : t - Bucket < s /\ s < t}

\* Buckets are aligned with tick 0; the first detection of each is kept.
bucket_dedup(ticks) ==
  {t \in ticks : ~\E s \in ticks : s < t /\ s \div Bucket = t \div Bucket}

Outside(ticks) == {t \in ticks : \A e \in events : t < e.from \/ e.to < t}

\* Ten times the 90th percentile, by linear interpolation.
Percentile90(delays) ==
  LET n == Len(delays) - 1
      low == (9 * n) \div 10 + 1
      high == IF low <= n THEN low + 1 ELSE low
  IN 10 * delays[low] + ((9 * n) % 10) * (delays[high] - delays[low])

Delays(ticks) ==
  SortSeq(SetToSeq({<<e, Min(Hits(e, ticks)) - e.from>> : e \in Detected(ticks)}),
          LAMBDA a, b : a[2] < b[2])

summarize(ticks) ==
  [detected |-> Cardinality(Detected(ticks)),
   raw      |-> Cardinality(Outside(ticks)),
   dedup    |-> Cardinality(bucket_dedup(Outside(ticks))),
   delay    |-> IF Detected(ticks) = {} THEN NoDelay
                ELSE Percentile90([i \in DOMAIN Delays(ticks) |-> Delays(ticks)[i][2]])]

\* sweep_detector: the next quantile.
Score ==
  /\ Len(sweep) < Settings
  /\ \E ticks \in {Fired(over, mask) : over, mask \in SUBSET Tick} :
       /\ sweep' = Append(sweep, summarize(ticks))
       /\ detections' = Append(detections, ticks)
  /\ UNCHANGED <<events, chosen>>

-----------------------------------------------------------------------------
(* The operating point.                                                    *)

\* The pool's first with the best recall, then the shortest delay.
Preferred(i, j) ==
  \/ sweep[i].detected > sweep[j].detected
  \/ sweep[i].detected = sweep[j].detected /\ sweep[i].delay < sweep[j].delay

Eligible == {i \in DOMAIN sweep : sweep[i].dedup <= Budget}

Pool ==
  IF Eligible # {} THEN Eligible
  ELSE {i \in DOMAIN sweep : \A j \in DOMAIN sweep :
          /\ sweep[i].dedup <= sweep[j].dedup
          /\ j < i => sweep[i].dedup < sweep[j].dedup}

\* The first of the best.
operating_point ==
  {i \in Pool : \A j \in Pool : ~Preferred(j, i) /\ (j < i => Preferred(i, j))}

Choose ==
  /\ Len(sweep) = Settings /\ chosen = 0
  /\ chosen' \in operating_point
  /\ UNCHANGED <<events, sweep, detections>>

Next == Score \/ Choose

Spec == Init /\ [][Next]_vars

-----------------------------------------------------------------------------
\* The notifications these alarms come to when tick 0 is `offset` ticks into a
\* bucket of the clock (date_bin, notification/repository.py:69).
Notices(ticks, offset) == Cardinality({(t + offset) \div Bucket : t \in ticks})

\* The deduplicated false alarms stand for notifications: whenever the segment
\* began, their number is within a factor of two of the clock's buckets, as a
\* bucket of one kind meets at most two of the other.  So the chosen setting
\* comes to at most twice the budget in notifications when any setting keeps
\* it, and none that keeps it detects more events or as many sooner; when none
\* does, none has fewer false alarms (evaluation.py:77-90, 186-206).
BudgetBoundsNotices ==
  /\ \A i \in DOMAIN sweep : \A offset \in 0..Bucket - 1 :
       /\ Notices(Outside(detections[i]), offset) <= 2 * sweep[i].dedup
       /\ sweep[i].dedup <= 2 * Notices(Outside(detections[i]), offset)
  /\ chosen # 0 =>
       IF Eligible # {}
       THEN /\ \A offset \in 0..Bucket - 1 :
                 Notices(Outside(detections[chosen]), offset) <= 2 * Budget
            /\ \A i \in Eligible : ~Preferred(i, chosen)
       ELSE \A i \in DOMAIN sweep : sweep[chosen].dedup <= sweep[i].dedup

=============================================================================
