------------------------------ MODULE EventPages ------------------------------
(***************************************************************************)
(* Paging backwards through events while new ones are written: the alarm   *)
(* events of an equipment (telemetry/service.py list_alarm_events) and the *)
(* repairs (admin/service.py list_repairs), which page in the same way;    *)
(* and the summary of the latest repairs, which counts such a page by code *)
(* (mcp_maintenance/server.py).                                            *)
(*                                                                         *)
(* A row is its time, its identity and its code.  Rows commit late and may *)
(* share a time: a tick whose commit was applied but reported as failed is *)
(* written twice.  The period of a request is left out: it filters as the  *)
(* code does.                                                              *)
(***************************************************************************)
EXTENDS Integers, FiniteSets, Functions, Sequences

CONSTANTS
  Code,      \* alarm codes
  NoCode,    \* a request without an alarm_code
  Window,    \* SUMMARY_WINDOW of the maintenance tool
  MaxPage,   \* MAX_ALARM_PAGE_SIZE, MAX_REPAIR_PAGE_SIZE
  MaxTime,   \* bound: times
  MaxRows    \* bound: rows

PagesAssumption ==
  /\ NoCode \notin Code
  /\ {Window, MaxPage} \subseteq Nat \ {0} /\ {MaxTime, MaxRows} \subseteq Nat

VARIABLES
  rows,        \* the table
  limit,       \* limit of the request
  wanted,      \* its alarm_code
  summary,     \* counts of the latest rows by code, Unread before
  before,      \* the cursor of the next page, None for the first
  expected,    \* history: rows the filter let through when the first page was read
  delivered,   \* items of all pages read, in order
  last         \* the page read last: its size and has_more

vars == <<rows, limit, wanted, summary, before, expected, delivered, last>>

None == [at |-> -1, id |-> 0]
Unread == [c \in Code |-> 0]

Init ==
  /\ rows = {} /\ limit \in 0..MaxPage + 1 /\ wanted \in Code \cup {NoCode}
  /\ summary = Unread
  /\ before = None /\ expected = {} /\ delivered = <<>>
  /\ last = [size |-> 0, more |-> TRUE]

\* A row gets the next identity; its time was taken before its commit.
Insert ==
  /\ Cardinality(rows) < MaxRows
  /\ \E at \in 0..MaxTime, code \in Code :
       rows' = rows \cup {[at |-> at, id |-> Cardinality(rows) + 1, code |-> code]}
  /\ UNCHANGED <<limit, wanted, summary, before, expected, delivered, last>>

-----------------------------------------------------------------------------
(* The pages.                                                              *)

Matching == {r \in rows : wanted \in {NoCode, r.code}}

\* Newest first; the row-value comparison with the cursor is its converse.
Newer(r, s) == r.at > s.at \/ (r.at = s.at /\ r.id > s.id)

\* Mutant: the cursor compares times alone.
BehindByTime(cursor) == {r \in Matching : cursor # None => cursor.at > r.at}
Behind(cursor) == {r \in Matching : cursor # None => Newer(cursor, r)}

PageSize == LET most == IF limit < MaxPage THEN limit ELSE MaxPage
            IN IF most > 1 THEN most ELSE 1

InOrder(s) == \A i, j \in DOMAIN s : i < j => Newer(s[i], s[j])

\* What a query answers that asks for at most n rows of a set, in order.
Answers(set, n) ==
  {s \in [1..(IF Cardinality(set) < n THEN Cardinality(set) ELSE n) -> set] :
     InOrder(s) /\ \A r \in set \ Range(s), i \in DOMAIN s : Newer(s[i], r)}

\* The query asks for one row more than the page shows, to know has_more.
Fetched == Answers(Behind(before), PageSize + 1)

Cursor(r) == [at |-> r.at, id |-> r.id]

\* A page shows all rows that were fetched, or all but the one too many.
Show(items, more) ==
  /\ delivered' = delivered \o items
  /\ last' = [size |-> Len(items), more |-> more]
  /\ before' = IF more THEN Cursor(items[Len(items)]) ELSE before

ReadPage ==
  /\ last.more
  /\ \E fetched \in Fetched :
       IF Len(fetched) > PageSize THEN Show(SubSeq(fetched, 1, PageSize), TRUE) ELSE Show(fetched, FALSE)
  /\ expected' = IF delivered = <<>> THEN Behind(None) ELSE expected
  /\ UNCHANGED <<rows, limit, wanted, summary>>

\* A page without a cursor or a code, of the window's size.
Latest == {r \in rows : Cardinality({s \in rows : Newer(s, r)}) < Window}

Counts(of) == [c \in Code |-> Cardinality({r \in of : r.code = c})]

Summarize ==
  /\ summary = Unread
  /\ summary' = Counts(Latest)
  /\ UNCHANGED <<rows, limit, wanted, before, expected, delivered, last>>

Next == Insert \/ Summarize \/ ReadPage

Spec == Init /\ [][Next]_vars

-----------------------------------------------------------------------------

\* The sum of a function of naturals: the cells below its graph.
Total(f) == Cardinality(UNION {{<<x, n>> : n \in 1..f[x]} : x \in DOMAIN f})

\* Whatever commits between the pages, with equal times and late: nothing is
\* shown twice or out of order; a page that says there is more is full and is
\* followed by at least one item; and at the end every row that was there at
\* the first page was shown.  A summary counts the latest rows alone: all of a
\* table that fits, and a full window of any other
\* (telemetry/service.py:248-258, mcp_maintenance/server.py:64-103).
PagesComplete ==
  /\ InOrder(delivered)
  /\ last.more /\ delivered # <<>> =>
       last.size = PageSize /\ Behind(before) # {}
  /\ ~last.more => expected \subseteq Range(delivered)
  /\ Total(summary) <= Window
  /\ \A c \in Code : summary[c] <= Counts(rows)[c]

=============================================================================
