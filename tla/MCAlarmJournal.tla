--------------------------- MODULE MCAlarmJournal ---------------------------
(* Instances of AlarmJournal for TLC.                                      *)
EXTENDS AlarmJournal
=============================================================================
