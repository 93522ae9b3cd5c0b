----------------------------- MODULE MCServices -----------------------------
(***************************************************************************)
(* One instance of Services for TLC: the values that a .cfg cannot write.  *)
(***************************************************************************)
EXTENDS Services, TLC

\* Telemetry of two units: one with gaps at the ends of the series, one with
\* no row, with two, or with one at every interval.
Samples(e, times) == {[equipment |-> e, at |-> t] : t \in times}
MCTables ==
  {Samples("e1", S) \cup Samples("e2", U) :
     S \in SUBSET {0, 2, 8, 10}, U \in {{}, 0..5, {0, 2, 4, 6, 8, 10}}}

MCGrace == [k \in {"acute"} |-> 1]

Symmetry == Permutations(Request)

=============================================================================
