----------------------------- MODULE TableFormat -----------------------------
(***************************************************************************)
(* The streaming normalizer of markdown tables (agent/supervisor/          *)
(* table_format.py): tokens arrive cut anywhere, lines leave reformatted   *)
(* or as they came.  A line is its kind, which is what the two predicates  *)
(* on its text say of it; an emitted line is its number, the form it got   *)
(* and, for a separator, the line whose columns it copies.                 *)
(***************************************************************************)
EXTENDS Integers, Sequences

CONSTANT MaxLines   \* bound: lines of an answer

TableAssumption == MaxLines \in Nat

VARIABLES
  text,     \* the answer: its lines' kinds, and whether the last one has a newline
  fed,      \* complete lines the normalizer was given
  begun,    \* _buf holds the beginning of the next line
  held,     \* _held: the number of the line held back, 0 for None
  inTable,  \* _in_table
  out,      \* what was emitted
  flushed

vars == <<text, fed, begun, held, inTable, out, flushed>>

\* "rule" is |--|--|, a row and a separator; "dash" is ---, a separator only.
Kind == {"row", "rule", "dash", "prose"}
IsRow(kind) == kind \in {"row", "rule"}
IsSeparator(kind) == kind \in {"rule", "dash"}

AsIs(i) == [line |-> i, form |-> "as is", columns |-> 0]
AsRow(i) == [line |-> i, form |-> "row", columns |-> 0]
AsRule(i, header) == [line |-> i, form |-> "rule", columns |-> header]

HasNewline(i) == i < Len(text.lines) \/ text.closed

Start(t) ==
  /\ text = t
  /\ fed = 0 /\ begun = FALSE /\ held = 0 /\ inTable = FALSE
  /\ out = <<>> /\ flushed = FALSE

Init == \E n \in 0..MaxLines, closed \in BOOLEAN : \E lines \in [1..n -> Kind] :
          Start([lines |-> lines, closed |-> closed \/ lines = <<>>])

-----------------------------------------------------------------------------
(* _consume, on the state [held, inTable, out].                            *)

\* A line after a header held back that turns out to be prose.
Judge(s, i) ==
  LET kind == text.lines[i]
      released == IF s.held # 0 THEN Append(s.out, AsIs(s.held)) ELSE s.out
  IN IF HasNewline(i) /\ IsRow(kind) /\ ~IsSeparator(kind)
     THEN [held |-> i, inTable |-> FALSE, out |-> released]
     ELSE [held |-> 0, inTable |-> FALSE, out |-> Append(released, AsIs(i))]

\* Mutant: a header held back is lost before a line that is no separator.
ConsumeDropsHeld(s, i) ==
  IF s.inTable /\ IsRow(text.lines[i])
  THEN [s EXCEPT !.out = Append(@, AsRow(i))]
  ELSE IF s.held # 0 /\ IsSeparator(text.lines[i])
  THEN [held |-> 0, inTable |-> TRUE, out |-> s.out \o <<AsRow(s.held), AsRule(i, s.held)>>]
  ELSE Judge([s EXCEPT !.held = 0], i)

Consume(s, i) ==
  LET kind == text.lines[i]
  IN IF s.inTable /\ IsRow(kind)
     THEN [held |-> s.held, inTable |-> TRUE, out |-> Append(s.out, AsRow(i))]
     ELSE IF s.held # 0 /\ IsSeparator(kind)
     THEN [held |-> 0, inTable |-> TRUE,
           out |-> s.out \o <<AsRow(s.held), AsRule(i, s.held)>>]
     ELSE Judge(s, i)

Consumed(from, to) ==
  LET after[i \in from..to] ==
        IF i = from THEN [held |-> held, inTable |-> inTable, out |-> out]
        ELSE Consume(after[i - 1], i)
  IN after[to]

Take(s) == /\ held' = s.held /\ out' = s.out

\* feed: a token ends behind any line, or within the one after it.
Feed ==
  /\ ~flushed
  /\ \E to \in fed..Len(text.lines) :
       /\ to = Len(text.lines) => text.closed
       /\ \/ begun' = FALSE /\ to > fed
          \/ begun' = TRUE /\ to < Len(text.lines) /\ (to = fed => ~begun)
       /\ fed' = to
       /\ Take(Consumed(fed, to))
       /\ inTable' = Consumed(fed, to).inTable
  /\ UNCHANGED <<text, flushed>>

\* flush, when the whole answer has arrived.
Flush ==
  /\ ~flushed
  /\ fed = Len(text.lines) \/ (fed = Len(text.lines) - 1 /\ ~text.closed /\ begun)
  /\ LET s == Consumed(fed, Len(text.lines))
     IN out' = IF s.held # 0 THEN Append(s.out, AsIs(s.held)) ELSE s.out
  /\ fed' = Len(text.lines) /\ begun' = FALSE
  /\ held' = 0 /\ inTable' = FALSE /\ flushed' = TRUE
  /\ UNCHANGED text

Next == Feed \/ Flush

Spec == Init /\ [][Next]_vars

-----------------------------------------------------------------------------
(* What the answer should look like, each line judged with its neighbours. *)

\* header: a row with a newline outside a table whose next line separates.
Role ==
  LET lines == text.lines
      role[i \in 0..Len(lines)] ==
        IF i = 0 THEN "prose"
        ELSE IF role[i - 1] = "header" THEN "rule"
        ELSE IF role[i - 1] \in {"rule", "body"} /\ IsRow(lines[i]) THEN "body"
        ELSE IF lines[i] = "row" /\ i < Len(lines) /\ IsSeparator(lines[i + 1]) THEN "header"
        ELSE "prose"
  IN role

Reference ==
  [i \in 1..Len(text.lines) |->
     IF Role[i] = "rule" THEN AsRule(i, i - 1)
     ELSE IF Role[i] \in {"header", "body"} THEN AsRow(i)
     ELSE AsIs(i)]

\* However the tokens are cut, what was emitted is a beginning of the answer
\* formatted as a whole, at most one complete line behind what has arrived, and
\* all of it once flush was called (table_format.py:62-109): no table changes
\* its form with the cut of the tokens and no line is lost or doubled.
TablesAsWhole ==
  /\ Len(out) <= Len(Reference) /\ out = SubSeq(Reference, 1, Len(out))
  /\ Len(out) >= fed - 1
  /\ flushed => out = Reference

=============================================================================
