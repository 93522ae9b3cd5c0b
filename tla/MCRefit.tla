------------------------------- MODULE MCRefit -------------------------------
(* Instance of Refit for TLC: all equipment of one process type.           *)
EXTENDS Refit, TLC

CONSTANTS e1, e2, demo, etching

OneType == [e \in {e1, e2, demo} |-> etching]

=============================================================================
