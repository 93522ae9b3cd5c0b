--------------------------- MODULE MCMaintenance ---------------------------
(* Instance of Maintenance for TLC.                                        *)
EXTENDS Maintenance
=============================================================================
