--------------------------- MODULE NotificationLog ---------------------------
(***************************************************************************)
(* What the table notifications promises its readers (docstring of         *)
(* notification/repository.py and the unique constraint of models.py): a   *)
(* log in id order that only grows at its end, in which no alarm shows     *)
(* twice within one time bucket.  Readers with an id cursor rely on it.    *)
(***************************************************************************)
EXTENDS Naturals, Sequences

VARIABLE notes   \* sequence of [alarm, bucket, occurred]; the index is the id

Init == notes = <<>>

Distinct(log) ==
  \A i, j \in DOMAIN log :
    log[i].alarm = log[j].alarm /\ log[i].bucket = log[j].bucket => i = j

\* One transaction adds notifications at the end; none it finds changes.
Extend ==
  /\ Len(notes') > Len(notes)
  /\ SubSeq(notes', 1, Len(notes)) = notes
  /\ Distinct(notes')

Spec == Init /\ [][Extend]_notes

=============================================================================
