------------------------------ MODULE UserLines ------------------------------
(***************************************************************************)
(* Administration of lines and of the lines of one user: concurrent        *)
(* requests to create, change and delete a line and to replace the lines   *)
(* of the user (admin/router.py, service.py, repository.py, models.py).    *)
(*                                                                         *)
(* Each request is a transaction of the database at its default isolation, *)
(* where a statement sees what was committed when it began.  What a        *)
(* request has written stays its own until the commit; a statement that    *)
(* meets the uncommitted write of another waits, which is its guard here.  *)
(* A row of user_lines is told from a later one of the same line by the    *)
(* request that inserted it: each inserts once, with an id of its own.     *)
(***************************************************************************)
EXTENDS Integers, FiniteSets

CONSTANTS
  Request,
  Code,      \* codes of lines
  MaxLines   \* bound: lines ever created, numbered from 1

LinesAssumption == MaxLines \in Nat \ {0} /\ IsFiniteSet(Request) /\ "none" \notin Code \cup Request

VARIABLES
  lastId,     \* the identity given to a line last
  code,       \* lines: [id -> code], None without a row
  assigned,   \* user_lines of the user: [line, by], the request that inserted it
  job,        \* [Request -> what it was asked]
  pc,         \* [Request -> how far it is]
  seen,       \* [Request -> rows of user_lines its DELETE found]
  removed,    \* [Request -> rows of user_lines it deleted, uncommitted]
  inserted,   \* [Request -> lines of the rows it inserted, uncommitted]
  beside,     \* history: [Request -> lines others assigned since its DELETE began]
  newest,     \* history: lines asked for by the assignment committed last
  overlap     \* history: beside of that assignment

vars == <<lastId, code, assigned, job, pc, seen, removed, inserted, beside, newest, overlap>>

Id == 1..MaxLines
None == "none"
Nothing == [kind |-> None, line |-> 0, code |-> None, wanted |-> {}]

Job == [kind : {"create"}, line : {0}, code : Code, wanted : {{}}]
  \cup [kind : {"update"}, line : Id, code : Code, wanted : {{}}]
  \cup [kind : {"delete"}, line : Id, code : {None}, wanted : {{}}]
  \cup [kind : {"assign"}, line : {0}, code : {None}, wanted : SUBSET Id]

Existing == {l \in Id : code[l] # None}
Codes(lines) == {code[l] : l \in lines} \ {None}
Row(l, r) == [line |-> l, by |-> r]
LinesOf(rows) == {row.line : row \in rows}

Init ==
  /\ lastId \in {0, MaxLines - 1}
  /\ code \in {c \in [Id -> Code \cup {None}] :
                 \A l, m \in Id : /\ c[l] # None => l <= lastId
                                  /\ l # m /\ c[l] = c[m] => c[l] = None}
  /\ newest \in SUBSET Existing /\ assigned = {Row(l, None) : l \in newest}
  /\ job = [r \in Request |-> Nothing] /\ pc = [r \in Request |-> "idle"]
  /\ seen = [r \in Request |-> {}] /\ removed = [r \in Request |-> {}]
  /\ inserted = [r \in Request |-> {}] /\ beside = [r \in Request |-> {}]
  /\ overlap = {}

-----------------------------------------------------------------------------
(* What the uncommitted writes of others hold.                             *)

Writing(r) == pc[r] = "written"
Open(r) == pc[r] \notin {"idle", "done", "refused", "failed"}

\* Lines created, changed or deleted, and the codes claimed for them.
Locked(r) == {job[q].line : q \in {q \in Request \ {r} : Writing(q) /\ job[q].kind # "assign"}}
Claimed(r) == {job[q].code : q \in {q \in Request \ {r} : Writing(q)}}
\* A row of user_lines keeps its line from being deleted or getting a new code.
Referenced(r) == UNION {inserted[q] : q \in Request \ {r}}
\* With its rows, on delete cascade (models.py:93-98).
Cascaded(r) == {row \in assigned : \E q \in Request \ {r} :
  Writing(q) /\ job[q].kind = "delete" /\ job[q].line = row.line}
RemovedByOthers(r) == Cascaded(r) \cup UNION {removed[q] : q \in Request \ {r}}

Move(r, to) == pc' = [pc EXCEPT ![r] = to]
Keep == UNCHANGED <<lastId, code, assigned, newest, overlap>>
KeepRows == UNCHANGED <<seen, removed, inserted, beside>>

Start(r) ==
  /\ pc[r] = "idle"
  /\ \E j \in Job : job' = [job EXCEPT ![r] = j]
  /\ Move(r, IF job'[r].kind = "create" THEN "check" ELSE "read")
  /\ Keep /\ KeepRows

-----------------------------------------------------------------------------
(* Lines: create_line, update_line, delete_line.                           *)

\* get_line: nothing to do for a line that is missing; an unchanged code is
\* not checked.
ReadLine(r) ==
  /\ pc[r] = "read" /\ job[r].kind \in {"update", "delete"}
  /\ Move(r, IF job[r].line \notin Existing THEN "refused"
             ELSE IF job[r].code \in {None, code[job[r].line]} THEN "checked"
             ELSE "check")
  /\ Keep /\ KeepRows /\ UNCHANGED job

\* get_line_by_code: a code in use is a conflict.
CheckCode(r) ==
  /\ pc[r] = "check"
  /\ Move(r, IF job[r].code \in Codes(Id \ {job[r].line}) THEN "refused" ELSE "checked")
  /\ Keep /\ KeepRows /\ UNCHANGED job

\* flush of a new line; the unique constraint judges again.
WriteNew(r) ==
  /\ pc[r] = "checked" /\ job[r].kind = "create"
  /\ job[r].code \notin Claimed(r)
  /\ IF job[r].code \in Codes(Id)
     THEN Move(r, "failed") /\ UNCHANGED <<lastId, job>>
     ELSE /\ lastId < MaxLines /\ lastId' = lastId + 1
          /\ job' = [job EXCEPT ![r].line = lastId + 1]
          /\ Move(r, "written")
  /\ UNCHANGED <<code, assigned, newest, overlap>> /\ KeepRows

\* flush of a changed line: an UPDATE that finds no row fails.
WriteChange(r) ==
  /\ pc[r] = "checked" /\ job[r].kind = "update"
  /\ job[r].line \notin Locked(r) \cup Referenced(r) /\ job[r].code \notin Claimed(r)
  /\ Move(r, IF job[r].line \notin Existing \/ job[r].code \in Codes(Id \ {job[r].line})
             THEN "failed" ELSE "written")
  /\ Keep /\ KeepRows /\ UNCHANGED job

\* flush of a deletion: a DELETE that finds no row only warns.
WriteDeletion(r) ==
  /\ pc[r] = "checked" /\ job[r].kind = "delete"
  /\ job[r].line \notin Locked(r) \cup Referenced(r) \cup LinesOf(RemovedByOthers(r))
  /\ Move(r, IF job[r].line \in Existing THEN "written" ELSE "done")
  /\ Keep /\ KeepRows /\ UNCHANGED job

CommitLine(r) ==
  /\ pc[r] = "written" /\ job[r].kind # "assign"
  /\ code' = [code EXCEPT ![job[r].line] = job[r].code]
  /\ assigned' = {row \in assigned : job[r].kind = "delete" => row.line # job[r].line}
  /\ Move(r, "done")
  /\ KeepRows /\ UNCHANGED <<lastId, job, newest, overlap>>

-----------------------------------------------------------------------------
(* assign_user_lines.                                                      *)

\* existing_line_ids: an unknown line refuses the whole request.
CheckLines(r) ==
  /\ pc[r] = "read" /\ job[r].kind = "assign"
  /\ Move(r, IF job[r].wanted \subseteq Existing THEN "checked" ELSE "refused")
  /\ Keep /\ KeepRows /\ UNCHANGED job

\* replace_user_lines: the DELETE finds the rows committed so far,
FindRows(r) ==
  /\ pc[r] = "checked" /\ job[r].kind = "assign"
  /\ seen' = [seen EXCEPT ![r] = assigned] /\ beside' = [beside EXCEPT ![r] = {}]
  /\ Move(r, "deleting")
  /\ Keep /\ UNCHANGED <<job, removed, inserted>>

\* Mutant: the old rows stay, only the new ones are added.
DeleteNone(r) ==
  /\ pc[r] = "deleting"
  /\ Move(r, "inserting")
  /\ Keep /\ KeepRows /\ UNCHANGED job

\* and removes those that are still there when nobody else is removing them: a
\* row another replaced in the meantime is not the one it found, and stays.
DeleteRows(r) ==
  /\ pc[r] = "deleting"
  /\ seen[r] \cap RemovedByOthers(r) = {}
  /\ removed' = [removed EXCEPT ![r] = seen[r] \cap assigned]
  /\ Move(r, "inserting")
  /\ Keep /\ UNCHANGED <<job, seen, inserted, beside>>

\* flush: a pair that exists, or a line that is gone, fails the transaction.
InsertRows(r) ==
  /\ pc[r] = "inserting"
  /\ job[r].wanted \cap
       (Locked(r) \cup Referenced(r) \cup LinesOf(RemovedByOthers(r))) = {}
  /\ IF /\ job[r].wanted \subseteq Existing
        /\ job[r].wanted \cap LinesOf(assigned \ removed[r]) = {}
     THEN /\ inserted' = [inserted EXCEPT ![r] = job[r].wanted]
          /\ Move(r, "written") /\ UNCHANGED removed
     ELSE /\ removed' = [removed EXCEPT ![r] = {}]
          /\ Move(r, "failed") /\ UNCHANGED inserted
  /\ Keep /\ UNCHANGED <<job, seen, beside>>

CommitLines(r) ==
  /\ pc[r] = "written" /\ job[r].kind = "assign"
  /\ assigned' = (assigned \ removed[r]) \cup {Row(l, r) : l \in inserted[r]}
  /\ removed' = [removed EXCEPT ![r] = {}] /\ inserted' = [inserted EXCEPT ![r] = {}]
  /\ newest' = job[r].wanted /\ overlap' = beside[r]
  /\ beside' = [q \in Request |-> beside[q] \cup job[r].wanted]
  /\ Move(r, "done")
  /\ UNCHANGED <<lastId, code, job, seen>>

\* Any statement may fail: its transaction is rolled back.
Fail(r) ==
  /\ Open(r)
  /\ removed' = [removed EXCEPT ![r] = {}] /\ inserted' = [inserted EXCEPT ![r] = {}]
  /\ Move(r, "failed")
  /\ Keep /\ UNCHANGED <<job, seen, beside>>

Next == \E r \in Request :
  \/ Start(r) \/ Fail(r)
  \/ ReadLine(r) \/ CheckCode(r) \/ WriteNew(r) \/ WriteChange(r) \/ WriteDeletion(r)
  \/ CommitLine(r)
  \/ CheckLines(r) \/ FindRows(r) \/ DeleteRows(r) \/ InsertRows(r) \/ CommitLines(r)

Spec == Init /\ [][Next]_vars

-----------------------------------------------------------------------------

\* The user has the lines of the assignment committed last that still exist,
\* and beyond these only lines that an assignment committed since its DELETE
\* began asked for.  Its DELETE does not find the rows of that one, not even
\* those that replace rows it found: when the two share a line its INSERT fails
\* on the unique pair, and else they add up to the union of both, which
\* replaces nothing; but no older line comes back (admin/repository.py:157-162).
\* No line is assigned that does not exist, and no two lines have one code,
\* whatever the checks read.
WholeAssignment ==
  /\ newest \cap Existing \subseteq LinesOf(assigned)
  /\ LinesOf(assigned) \subseteq (newest \cup overlap) \cap Existing
  /\ \A l, m \in Existing : code[l] = code[m] => l = m

=============================================================================
