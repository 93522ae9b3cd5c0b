---------------------------- MODULE Suggestions ----------------------------
(***************************************************************************)
(* Suggested questions and the data window they must stay in: the cache of *)
(* windows (agent/retention.py), the follow-up node (supervisor/suggest.py)*)
(* and the suggestions for an equipment (equipment_suggest.py).            *)
(*                                                                         *)
(* A window is its span.  A candidate of the model is the equipment it     *)
(* names first, whether it passes the checks that need no window (known    *)
(* identifiers, actionable), and the period it asks for, 0 for none and    *)
(* for maintenance history.                                                *)
(***************************************************************************)
EXTENDS Integers, FiniteSets

CONSTANTS
  Request,
  Equipment,
  Global,      \* key of the window over all equipment
  Ttl,         \* _CACHE_TTL_SECONDS
  MaxSpan,     \* bound: the span
  MaxTime,     \* bound: the clock
  MaxShown     \* MAX_SUGGESTIONS

SuggestAssumption ==
  /\ Global \notin Equipment
  /\ {Ttl, MaxShown, MaxTime} \subseteq Nat \ {0} /\ MaxSpan \in Nat

VARIABLES
  now,
  data,     \* [Equipment -> span of its telemetry, 0 without]
  cache,    \* [Key -> cached window and its end]
  call,     \* [Request -> what it does, and the window it holds]
  shown,    \* [Request -> how many candidates were kept]
  past      \* history: [Key -> [time -> spans it had, and Unknown on failure]]

vars == <<now, data, cache, call, shown, past>>

Key == Equipment \cup {Global}
Unknown == -1

Span(d, k) == IF k # Global THEN d[k]
              ELSE CHOOSE s \in {0} \cup {d[e] : e \in Equipment} :
                     \A e \in Equipment : d[e] <= s

NoWindow == [key |-> Global, span |-> 0, asked |-> 0]
Idle == [at |-> "idle", sent |-> 0, answer |-> {}, window |-> NoWindow,
         primary |-> NoWindow, period |-> 0]

Init ==
  /\ now = 1
  /\ data = [e \in Equipment |-> 0]
  /\ cache = [k \in Key |-> [span |-> 0, until |-> 0]]
  /\ call = [r \in Request |-> Idle] /\ shown = [r \in Request |-> 0]
  /\ past = [k \in Key |-> [t \in 1..MaxTime |-> IF t = 1 THEN {0} ELSE {}]]

Remember(d, t) == past' = [k \in Key |-> [past[k] EXCEPT ![t] = @ \cup {Span(d, k)}]]

Elapse ==
  /\ now < MaxTime /\ now' = now + 1
  /\ Remember(data, now + 1)
  /\ UNCHANGED <<data, cache, call, shown>>

\* Ticks widen every window that has begun; scripts/seed_data.py starts over.
Write ==
  /\ \/ \E begun \in SUBSET Equipment :
          data' = [e \in Equipment |-> IF (data[e] > 0 \/ e \in begun) /\ data[e] < MaxSpan
                                       THEN data[e] + 1 ELSE data[e]]
     \/ data' = [e \in Equipment |-> 0]
  /\ Remember(data', now)
  /\ UNCHANGED <<now, cache, call, shown>>

-----------------------------------------------------------------------------
(* get_data_window: the end of the cached window is counted from the time  *)
(* before the query.                                                       *)

Goto(r, at) == call' = [call EXCEPT ![r].at = at]

Hit(k) == cache[k].until > now

\* What the caller does with a window once it has it: the first is kept for
\* the whole request.
Use(c, span) ==
  LET window == [c.window EXCEPT !.span = span]
      next == [c EXCEPT !.sent = 0, !.answer = {}, !.window = window]
  IN IF c.at = "primary" THEN [next EXCEPT !.at = "asking", !.primary = window]
                         ELSE [next EXCEPT !.at = "judging"]

Lookup(r, c, k) ==
  LET begun == [c EXCEPT !.window = [key |-> k, span |-> 0, asked |-> now]]
  IN call' = [call EXCEPT ![r] = IF Hit(k) THEN Use(begun, cache[k].span)
                                 ELSE [begun EXCEPT !.sent = now]]

\* The query answers with the window of its moment, or fails; the answer is
\* stored some time later.
Query(r) ==
  /\ call[r].sent > 0 /\ call[r].answer = {}
  /\ LET k == call[r].window.key IN
       \/ call' = [call EXCEPT ![r].answer = {Span(data, k)}] /\ UNCHANGED past
       \/ /\ call' = [call EXCEPT ![r].answer = {Unknown}]
          /\ past' = [past EXCEPT ![k][now] = @ \cup {Unknown}]
  /\ UNCHANGED <<now, data, cache, shown>>

\* Mutant: the end is counted from the time of the answer.
UntilAnswered(r) == now + Ttl
Until(r) == call[r].sent + Ttl

Store(r) ==
  /\ \E span \in call[r].answer :
       /\ cache' = [cache EXCEPT ![call[r].window.key] = [span |-> span, until |-> Until(r)]]
       /\ call' = [call EXCEPT ![r] = Use(call[r], span)]
  /\ UNCHANGED <<now, data, shown, past>>

-----------------------------------------------------------------------------
(* The two callers.  The window the request begins with is that of the     *)
(* equipment the conversation is about, or of all.                         *)

Ask(r, k) ==
  /\ call[r].at = "idle"
  /\ Lookup(r, [Idle EXCEPT !.at = "primary"], k)
  /\ UNCHANGED <<now, data, cache, shown, past>>

Judged(c, p) == [c EXCEPT !.at = "judging", !.window = c.primary, !.period = p]
Named(c, p) == [c EXCEPT !.at = "named", !.period = p]

\* The next candidate of the model's answer that passes the other checks.  It
\* is judged by the window the request began with, or, in the follow-up node, by
\* that of the equipment it names.
Candidate(r, p) ==
  /\ call[r].at = "asking"
  /\ \/ call' = [call EXCEPT ![r] = Judged(call[r], p)]
     \/ \E e \in Equipment : Lookup(r, Named(call[r], p), e)
  /\ UNCHANGED <<now, data, cache, shown, past>>

within_data_window(p, window) == window = Unknown \/ p = 0 \/ (window > 0 /\ p <= window)

Judge(r) ==
  /\ call[r].at = "judging"
  /\ shown' = [shown EXCEPT ![r] = IF within_data_window(call[r].period, call[r].window.span)
                                   THEN @ + 1 ELSE @]
  /\ Goto(r, IF shown'[r] = MaxShown THEN "done" ELSE "asking")
  /\ UNCHANGED <<now, data, cache, past>>

\* The answer has no more candidates, or the model fails.
Finish(r) ==
  /\ call[r].at = "asking"
  /\ Goto(r, "done")
  /\ UNCHANGED <<now, data, cache, shown, past>>

Next ==
  \/ Elapse \/ Write
  \/ \E r \in Request :
       \/ Query(r) \/ Store(r) \/ Judge(r) \/ Finish(r)
       \/ \E k \in Key : Ask(r, k)
       \/ \E p \in 0..MaxSpan : Candidate(r, p)

Spec == Init /\ [][Next]_vars

-----------------------------------------------------------------------------

\* The window a question is judged by is one its equipment really had, or
\* could not be told, no longer before it was asked for than the cache may keep
\* it: queries that answer late do not make it older (retention.py:86-109).
WindowRecent ==
  \A r \in Request : call[r].at = "judging" =>
    LET w == call[r].window
    IN \E t \in 1..now : w.span \in past[w.key][t] /\ t > w.asked - Ttl

=============================================================================
