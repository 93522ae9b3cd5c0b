------------------------------- MODULE Detector -------------------------------
(***************************************************************************)
(* The verdict of the anomaly scorer on the newest window of a series      *)
(* (watcher/detector.py, anomaly/scoring.py, anomaly/windowing.py): raw    *)
(* scores of the windows, a mask over transitions, a running average that  *)
(* skips masked windows, and K windows in a row over the limit, on two     *)
(* paths joined by OR.  A raw score is a small number; averages, with      *)
(* alpha one half, are kept in parts of a score.                           *)
(***************************************************************************)
EXTENDS Integers, Sequences

CONSTANTS
  MaxScore,    \* bound: raw scores
  MaxWindows,  \* bound: windows
  Threshold,   \* transition_threshold; 0: nothing is masked
  Settle,      \* transition_settle
  Clip,        \* ewma_clip
  Limit,       \* ewma_limit, of both paths
  Confirm,     \* confirm_k
  Unit,        \* parts of a score that an average is rounded down to
  Window, Stride   \* ticks

DetectorAssumption ==
  /\ {MaxScore, MaxWindows, Threshold, Settle, Clip, Limit, Confirm} \subseteq Nat
  /\ {Unit, Window, Stride} \subseteq Nat \ {0}

VARIABLES
  ticks,    \* length of the series
  raw,      \* scores of the windows on the first path
  second,   \* on the second path, <<>> for a model without it
  fired     \* the verdict, None before

vars == <<ticks, raw, second, fired>>

None == "none"
Scores == 0..MaxScore

\* sliding_windows: whole windows only, what is left at the end is dropped.
Windows(t) == IF t < Window THEN 0 ELSE (t - Window) \div Stride + 1
StartOf(i) == (i - 1) * Stride

Init ==
  /\ ticks \in 0..Window + Stride * MaxWindows - 1
  /\ raw \in [1..Windows(ticks) -> Scores]
  /\ second \in [1..Windows(ticks) -> Scores] \cup {<<>>}
  /\ fired = None

\* transition_mask: scores at the threshold and Settle windows after the last.
Masked ==
  [i \in DOMAIN raw |-> Threshold > 0 /\ \E j \in 1..i : raw[j] >= Threshold /\ i - j <= Settle]

Clipped(v) == IF v < Clip THEN v ELSE Clip

\* ewma_masked over clipped scores: starts from the first window not masked.
AverageAll(scores) ==   \* mutant: masked windows are averaged too
  LET acc[i \in 0..Len(scores)] ==
        IF i = 0 THEN Clipped(scores[1]) * Unit ELSE (Clipped(scores[i]) * Unit + acc[i - 1]) \div 2
  IN acc
Average(scores) ==
  LET open == {i \in DOMAIN scores : ~Masked[i]}
      first == CHOOSE i \in open : \A j \in open : i <= j
      acc[i \in 0..Len(scores)] ==
        IF i = 0 THEN IF open = {} THEN 0 ELSE Clipped(scores[first]) * Unit
        ELSE IF Masked[i] THEN acc[i - 1]
        ELSE (Clipped(scores[i]) * Unit + acc[i - 1]) \div 2
  IN acc

\* sustained: the last Confirm windows are over the limit; one at least.
Sustained(scores) ==
  LET last == Len(scores)
      needed == IF Confirm > 1 THEN Confirm ELSE 1
  IN needed <= last /\ \A i \in (last - needed + 1)..last : Average(scores)[i] > Limit * Unit

FiresOn(scores) == scores # <<>> /\ Sustained(scores) /\ ~Masked[Len(scores)]

\* score_latest: nothing to say without a whole window.
Score ==
  /\ fired = None
  /\ fired' = IF raw = <<>> THEN "skipped"
              ELSE IF FiresOn(raw) \/ FiresOn(second) THEN "fired" ELSE "quiet"
  /\ UNCHANGED <<ticks, raw, second>>

Next == Score

Spec == Init /\ [][Next]_vars

-----------------------------------------------------------------------------
\* A transition never fires by itself: when no window outside the mask, on
\* either path, is over the limit, the verdict is quiet, whatever the values of
\* the transition are (scoring.py:56-94); and a verdict rests on a window that
\* ends within a stride of the newest tick (windowing.py:11-31).
TransitionQuiet ==
  fired # None =>
    LET open == {i \in DOMAIN raw : ~Masked[i]}
        seen == {Clipped(raw[i]) : i \in open}
          \cup {Clipped(second[i]) : i \in open \cap DOMAIN second}
    IN /\ fired = "fired" => /\ \E v \in seen : v > Limit
                             /\ ~Masked[Len(raw)]
                             /\ Len(raw) >= Confirm
       /\ fired = "skipped" <=> ticks < Window
       /\ raw # <<>> =>
            /\ StartOf(Len(raw)) + Window <= ticks
            /\ ticks < StartOf(Len(raw)) + Window + Stride

=============================================================================
