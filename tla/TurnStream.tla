----------------------------- MODULE TurnStream -----------------------------
(***************************************************************************)
(* What a chat turn promises its client (docstring of common/events.py,    *)
(* docs/sse-events.md): the order of the server-sent events.  Thoughts,    *)
(* actions and observations come first, then the answer's pieces, then     *)
(* done; after an error comes done and nothing else.                       *)
(***************************************************************************)
EXTENDS Naturals, Sequences, FiniteSets, SequencesExt

VARIABLE events   \* sequence of [type, tool] sent so far

Count(type, evs) == Cardinality({i \in DOMAIN evs : evs[i].type = type})

Types(evs) == {evs[i].type : i \in DOMAIN evs}

\* Observations answer the actions in their order: the next one is of an action
\* that has as many actions before it as there are observations.
Answers(evs, tool) ==
  \E i \in DOMAIN evs : /\ evs[i].type = "action" /\ evs[i].tool = tool
                        /\ Count("action", SubSeq(evs, 1, i - 1)) = Count("observation", evs)

\* Every action is answered.
Answered(evs) == Count("observation", evs) = Count("action", evs)

\* What may follow a well-formed stream.
Follows(evs, ev) ==
  /\ "done" \notin Types(evs)
  /\ "error" \in Types(evs) => ev.type = "done"
  /\ ev.type \in {"thought", "action", "observation"} => "answer" \notin Types(evs)
  /\ ev.type = "observation" => Answers(evs, ev.tool)
  /\ ev.type \in {"answer", "thought"} \/ (ev.type = "done" /\ "error" \notin Types(evs)) =>
       Answered(evs)

WellFormed(evs) == \A n \in DOMAIN evs : Follows(SubSeq(evs, 1, n - 1), evs[n])

Init == events = <<>>

\* One step of the graph sends a piece of the stream.
Emit ==
  /\ IsStrictPrefix(events, events')
  /\ WellFormed(events')

Spec == Init /\ [][Emit]_events

=============================================================================
