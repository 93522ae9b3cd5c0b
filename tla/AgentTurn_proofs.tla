-------------------------- MODULE AgentTurn_proofs --------------------------
(* Proofs about a chat turn, for any workers, calls and budgets.           *)
EXTENDS AgentTurn, FiniteSetTheorems, SequenceTheorems, TLAPS

-----------------------------------------------------------------------------
(* The budget of fetch rounds.                                             *)

\* In an orchestrated turn the nodes run so far are paid for by rounds, and
\* the rounds by the budget.
Paid ==
  /\ pc = "fast_router" => visits = 0 /\ stepCount = 0
  /\ pc = "planner"     => visits <= 2 * stepCount + 1 /\ stepCount <= RoundsMax
  /\ pc = "fetch"       => visits <= 2 * stepCount /\ stepCount <= RoundsMax
  /\ pc = "finalizer"   => visits <= 2 * RoundsMax + 2
  /\ pc = "grounding"   => visits <= 2 * RoundsMax + 3
  /\ pc = "suggest"     => visits <= 2 * RoundsMax + 4
  /\ visits <= 2 * RoundsMax + 5

Orchestrated ==
  {"fast_router", "planner", "fetch", "finalizer", "grounding", "suggest"} \cup Ending

\* Strengthening of WithinBudget.
BudgetInv ==
  /\ visits \in Nat /\ stepCount \in Nat
  /\ config.orchestrator => pc \in Orchestrated /\ Paid

LEMMA InitBudget == Init => BudgetInv
<1> SUFFICES ASSUME Init PROVE BudgetInv
  OBVIOUS
<1>1. config.orchestrator => pc \in {"fast_router", "planner"}
  BY DEF Init, Entry, DiagnosticEntry
<1>2. RoundsMax \in Nat
  BY AgentAssumption
<1>3. visits = 0 /\ stepCount = 0
  BY DEF Init
<1>4. CASE config.orchestrator
  <2>1. pc \in {"fast_router", "planner"}
    BY <1>1, <1>4
  <2>2. QED
    BY <2>1, <1>2, <1>3, <1>4 DEF BudgetInv, Orchestrated, Paid
<1>5. CASE ~config.orchestrator
  BY <1>3, <1>5 DEF BudgetInv
<1>6. QED
  BY <1>4, <1>5

\* The nodes of the orchestrated path.
LEMMA PathBudget ==
  ASSUME BudgetInv, FastRoute \/ Plan \/ PlanExhausted \/ Fetch
  PROVE  BudgetInv'
<1> USE AgentAssumption DEF BudgetInv, Orchestrated, Paid, Run
<1>1. CASE FastRoute
  BY <1>1 DEF FastRoute, DiagnosticEntry
<1>2. CASE Plan
  <2>1. /\ pc = "planner" /\ stepCount < RoundsMax
        /\ visits' = visits + 1 /\ stepCount' = stepCount + 1 /\ config' = config
        /\ pc' \in {"finalizer", "fetch"}
    BY <1>2 DEF Plan, PlannerMayAsk, AfterPlanner
  <2>2. QED
    BY <2>1
<1>3. CASE PlanExhausted
  <2>1. /\ pc = "planner"
        /\ visits' = visits + 1 /\ stepCount' = stepCount + 1 /\ config' = config
        /\ pc' = "finalizer"
    BY <1>3 DEF PlanExhausted, AfterPlanner
  <2>2. QED
    BY <2>1
<1>4. CASE Fetch
  <2>1. /\ pc = "fetch" /\ pc' = "planner"
        /\ visits' = visits + 1 /\ stepCount' = stepCount /\ config' = config
    BY <1>4 DEF Fetch, Observe
  <2>2. QED
    BY <2>1
<1>5. QED
  BY <1>1, <1>2, <1>3, <1>4

\* The nodes of the legacy path do not run in an orchestrated turn.
LEMMA LegacyBudget ==
  ASSUME BudgetInv, Supervise \/ Work \/ WorkTools
  PROVE  BudgetInv'
<1>1. /\ pc \in {"supervisor", "agent", "tools"} /\ config' = config
      /\ visits' = visits + 1 /\ stepCount' \in {stepCount, stepCount + 1}
  BY DEF Supervise, Work, WorkTools, Run, Observe
<1>2. QED
  BY <1>1 DEF BudgetInv, Orchestrated, Ending

\* The tail and the end of the stream.
LEMMA TailBudget ==
  ASSUME BudgetInv,
         \/ AnswerPiece \/ Finalize \/ Ground \/ Suggest \/ Finish
         \/ ModelFails \/ OutOfSteps \/ CloseFailed
  PROVE  BudgetInv'
<1> USE AgentAssumption DEF BudgetInv, Orchestrated, Paid, Run, Ending, graph
<1>1. CASE AnswerPiece
  BY <1>1 DEF AnswerPiece
<1>2. CASE Finalize
  BY <1>2 DEF Finalize, AfterFinalizer
<1>3. CASE Ground
  BY <1>3 DEF Ground, AfterGrounding
<1>4. CASE Suggest
  BY <1>4 DEF Suggest
<1>5. CASE Finish \/ ModelFails \/ OutOfSteps \/ CloseFailed
  <2>1. /\ visits' = visits /\ stepCount' = stepCount /\ config' = config
        /\ pc' \in Ending
    BY <1>5 DEF Finish, ModelFails, OutOfSteps, CloseFailed
  <2>2. QED
    BY <2>1
<1>6. QED
  BY <1>1, <1>2, <1>3, <1>4, <1>5

LEMMA NextBudget == BudgetInv /\ [Next]_vars => BudgetInv'
<1>1. ASSUME BudgetInv, UNCHANGED vars PROVE BudgetInv'
  BY <1>1 DEF BudgetInv, Orchestrated, Paid, vars, graph
<1>2. QED
  BY <1>1, PathBudget, LegacyBudget, TailBudget DEF Next

\* The budget of rounds keeps every orchestrated turn below a recursion limit
\* that leaves room for its longest path (WithinBudget of AgentTurn).
THEOREM RoundsBoundTurn == Spec => []WithinBudget
<1>1. BudgetInv => WithinBudget
  BY AgentAssumption DEF BudgetInv, Paid, WithinBudget
<1>2. QED
  BY <1>1, InitBudget, NextBudget, PTL DEF Spec

-----------------------------------------------------------------------------
(* The history of tool calls.                                              *)

\* Strengthening of OncePerRound: what ran is in the history.
HistoryInv ==
  /\ rounds \in [Sig -> Nat]
  /\ \A s \in Sig : rounds[s] <= 1 /\ (rounds[s] > 0 => s \in toolHistory)

\* A call that runs in a round was asked for and is new to the history.
LEMMA RunsAreNew ==
  ASSUME NEW s \in Sig, NEW calls, NEW w,
         FetchRuns(s, calls) > 0 \/ WorkerRuns(w, s, calls) > 0
  PROVE  s \in ToSet(calls) /\ s \notin toolHistory
<1>1. s \notin toolHistory /\ Times(s, calls) # 0
  BY DEF FetchRuns, WorkerRuns
<1>2. {i \in DOMAIN calls : calls[i] = s} # {}
  BY <1>1, FS_EmptySet DEF Times
<1>3. QED
  BY <1>1, <1>2 DEF ToSet

\* A tool node keeps the history ahead of what ran.
LEMMA ObserveHistory ==
  ASSUME HistoryInv, NEW runs, Observe(runs),
         \A s \in Sig : runs[s] > 0 => s \in ToSet(Last(messages).calls) /\ s \notin toolHistory
  PROVE  HistoryInv'
<1>1. /\ toolHistory' = toolHistory \cup ToSet(Last(messages).calls)
      /\ rounds' = [s \in Sig |-> rounds[s] + (IF runs[s] > 0 THEN 1 ELSE 0)]
  BY DEF Observe
<1>2. QED
  BY <1>1 DEF HistoryInv

LEMMA InitHistory == Init => HistoryInv
<1>1. Init => rounds = [s \in Sig |-> 0]
  BY DEF Init
<1>2. QED
  BY <1>1 DEF HistoryInv

LEMMA NextHistory == HistoryInv /\ [Next]_vars => HistoryInv'
<1> SUFFICES ASSUME HistoryInv, [Next]_vars PROVE HistoryInv'
  OBVIOUS
<1>1. CASE Fetch
  <2> DEFINE runs == [s \in Sig |-> FetchRuns(s, Last(messages).calls)]
  <2>1. Observe(runs)
    BY <1>1 DEF Fetch
  <2>2. \A s \in Sig : runs[s] > 0 => s \in ToSet(Last(messages).calls) /\ s \notin toolHistory
    BY RunsAreNew
  <2>3. QED
    BY <2>1, <2>2, ObserveHistory
<1>2. CASE WorkTools
  <2> DEFINE runs == [s \in Sig |-> WorkerRuns(next, s, Last(messages).calls)]
  <2>1. Observe(runs)
    BY <1>2 DEF WorkTools
  <2>2. \A s \in Sig : runs[s] > 0 => s \in ToSet(Last(messages).calls) /\ s \notin toolHistory
    BY RunsAreNew
  <2>3. QED
    BY <2>1, <2>2, ObserveHistory
<1>3. ASSUME UNCHANGED <<toolHistory, rounds>> PROVE HistoryInv'
  BY <1>3 DEF HistoryInv
<1>4. QED
  BY <1>1, <1>2, <1>3
     DEF Next, FastRoute, Plan, PlanExhausted, Supervise, Work, AnswerPiece, Finalize,
         Ground, Suggest, Finish, ModelFails, OutOfSteps, CloseFailed, vars, graph

\* No call is carried out in two rounds of a turn, on either path (OncePerRound
\* of AgentTurn).
THEOREM NoCallInTwoRounds == Spec => []OncePerRound
<1>1. HistoryInv => OncePerRound
  BY DEF HistoryInv, OncePerRound
<1>2. QED
  BY <1>1, InitHistory, NextHistory, PTL DEF Spec

-----------------------------------------------------------------------------
(* Replies to tool calls.                                                  *)

Message == [from : Worker \cup {"planner", "finalizer"}, calls : Seq(Sig), replies : Seq(Sig)]

Answered(i) == messages[i].replies = messages[i].calls

\* Strengthening of ToolReplies: only the last message may wait for replies,
\* and only before a tool node or after the nodes have stopped.
RepliesInv ==
  /\ messages \in Seq(Message)
  /\ \A i \in DOMAIN messages : i # Len(messages) => Answered(i)
  /\ pc \in {"fetch", "tools"} => messages # <<>>
  /\ pc \notin {"fetch", "tools", "failed", "closed"} =>
       \A i \in DOMAIN messages : Answered(i)
  /\ pc \in {"agent", "tools"} => next \in Worker

\* A tool node answers the last message.
LEMMA ObserveReplies ==
  ASSUME RepliesInv, messages # <<>>, NEW runs, Observe(runs)
  PROVE  /\ messages' \in Seq(Message)
         /\ \A i \in DOMAIN messages' : Answered(i)'
<1> DEFINE n == Len(messages)
           m == messages[n]
<1>1. messages \in Seq(Message) /\ n \in Nat /\ n > 0 /\ m \in Message /\ DOMAIN messages = 1..n
  BY DEF RepliesInv
<1>2. Last(messages) = m
  BY DEF Last
<1>3. messages' = [messages EXCEPT ![n] = [m EXCEPT !.replies = m.calls]]
  BY <1>2 DEF Observe, Replies
<1>4. [m EXCEPT !.replies = m.calls] \in Message
  BY <1>1 DEF Message
<1>5. messages' \in Seq(Message) /\ DOMAIN messages' = 1..n
  BY <1>1, <1>3, <1>4
<1>6. ASSUME NEW i \in 1..n PROVE Answered(i)'
  <2>1. CASE i = n
    <3>1. messages'[i] = [m EXCEPT !.replies = m.calls]
      BY <1>1, <1>3, <2>1
    <3>2. QED
      BY <1>1, <3>1 DEF Answered, Message
  <2>2. CASE i # n
    <3>1. messages'[i] = messages[i]
      BY <1>1, <1>3, <2>2
    <3>2. QED
      BY <1>1, <2>2, <3>1 DEF RepliesInv, Answered
  <2>3. QED
    BY <2>1, <2>2
<1>7. QED
  BY <1>5, <1>6

LEMMA CallsAreSigs ==
  ASSUME NEW tools, NEW calls \in Calls(tools)
  PROVE  calls \in Seq(Sig)
<1>1. CASE tools = {}
  BY <1>1 DEF Calls
<1>2. CASE tools # {}
  <2>1. PICK n \in 0..MaxCalls : calls \in [1..n -> Sig]
    BY <1>2 DEF Calls
  <2>2. QED
    BY <2>1, AgentAssumption
<1>3. QED
  BY <1>1, <1>2

\* A model's message is the only one that may wait for replies.
LEMMA SayReplies ==
  ASSUME RepliesInv, \A i \in DOMAIN messages : Answered(i),
         NEW from \in Worker \cup {"planner", "finalizer"}, NEW calls \in Seq(Sig),
         Say(from, calls)
  PROVE  /\ messages' \in Seq(Message) /\ messages' # <<>>
         /\ \A i \in DOMAIN messages' : i # Len(messages') => Answered(i)'
         /\ calls = <<>> => \A i \in DOMAIN messages' : Answered(i)'
<1> DEFINE n == Len(messages)
           new == [from |-> from, calls |-> calls, replies |-> <<>>]
<1>1. messages \in Seq(Message) /\ n \in Nat /\ DOMAIN messages = 1..n
  BY DEF RepliesInv
<1>2. new \in Message
  BY DEF Message
<1>3. messages' = Append(messages, new)
  BY DEF Say
<1>4. /\ messages' \in Seq(Message) /\ Len(messages') = n + 1 /\ DOMAIN messages' = 1..(n + 1)
      /\ messages'[n + 1] = new /\ \A i \in 1..n : messages'[i] = messages[i]
  BY <1>1, <1>2, <1>3
<1>5. \A i \in 1..n : Answered(i)'
  BY <1>1, <1>4 DEF Answered
<1>6. messages'[n + 1].calls = calls /\ messages'[n + 1].replies = <<>>
  BY <1>4
<1>7. /\ messages' # <<>>
      /\ \A i \in DOMAIN messages' : i # Len(messages') => Answered(i)'
  BY <1>1, <1>4, <1>5
<1>8. ASSUME calls = <<>> PROVE \A i \in DOMAIN messages' : Answered(i)'
  <2>1. \A i \in DOMAIN messages' : i \in 1..n \/ i = n + 1
    BY <1>1, <1>4
  <2>2. ASSUME NEW i, i = n + 1 PROVE Answered(i)'
    BY <1>6, <1>8, <2>2, Zenon DEF Answered
  <2>3. QED
    BY <1>5, <2>1, <2>2
<1>9. QED
  BY <1>4, <1>7, <1>8, Zenon

\* The nodes in which a model speaks.
LEMMA SpeakReplies ==
  ASSUME RepliesInv, Plan \/ PlanExhausted \/ Work \/ Finalize
  PROVE  RepliesInv'
<1> USE DEF Run
<1>1. pc \in {"planner", "agent", "finalizer"} /\ \A i \in DOMAIN messages : Answered(i)
  BY DEF RepliesInv, Plan, PlanExhausted, Work, Finalize
<1>2. CASE Plan
  <2>1. PICK calls \in Calls(AllRegistered) : Say("planner", calls) /\ pc' = AfterPlanner(calls)
    BY <1>2 DEF Plan
  <2>2. calls \in Seq(Sig)
    BY <2>1, CallsAreSigs
  <2>3. QED
    BY <1>1, <2>1, <2>2, SayReplies DEF RepliesInv, AfterPlanner
<1>3. CASE PlanExhausted
  <2>1. Say("planner", <<>>) /\ pc' = "finalizer"
    BY <1>3 DEF PlanExhausted, AfterPlanner
  <2>2. /\ messages' \in Seq(Message)
        /\ \A i \in DOMAIN messages' : Answered(i)'
    <3>1. <<>> \in Seq(Sig) /\ "planner" \in Worker \cup {"planner", "finalizer"}
      OBVIOUS
    <3>2. QED
      BY <1>1, <2>1, <3>1, SayReplies, Zenon
  <2>3. QED
    BY <2>1, <2>2 DEF RepliesInv
<1>4. CASE Work
  <2>1. PICK calls \in Calls(Registered(next)) :
          Say(next, calls) /\ pc' = IF calls = <<>> THEN "supervisor" ELSE "tools"
    BY <1>4 DEF Work
  <2>2. calls \in Seq(Sig) /\ next' = next /\ next \in Worker
    BY <1>4, <2>1, CallsAreSigs DEF Work, RepliesInv
  <2>3. QED
    BY <1>1, <2>1, <2>2, SayReplies DEF RepliesInv
<1>5. CASE Finalize
  <2>1. Say("finalizer", <<>>) /\ pc' \in {"grounding", "suggest", "end"}
    BY <1>5 DEF Finalize, AfterFinalizer
  <2>2. /\ messages' \in Seq(Message)
        /\ \A i \in DOMAIN messages' : Answered(i)'
    <3>1. <<>> \in Seq(Sig) /\ "finalizer" \in Worker \cup {"planner", "finalizer"}
      OBVIOUS
    <3>2. QED
      BY <1>1, <2>1, <3>1, SayReplies, Zenon
  <2>3. QED
    BY <2>1, <2>2 DEF RepliesInv
<1>6. QED
  BY <1>2, <1>3, <1>4, <1>5

\* The tool nodes.
LEMMA ToolNodeReplies ==
  ASSUME RepliesInv, Fetch \/ WorkTools
  PROVE  RepliesInv'
<1>1. messages # <<>>
  BY DEF RepliesInv, Fetch, WorkTools, Run
<1>2. /\ messages' \in Seq(Message)
      /\ \A i \in DOMAIN messages' : Answered(i)'
  BY <1>1, ObserveReplies DEF Fetch, WorkTools
<1>3. pc' = "planner" \/ (pc' = "agent" /\ next' = next /\ next \in Worker)
  BY DEF RepliesInv, Fetch, WorkTools, Run, Observe
<1>4. QED
  BY <1>2, <1>3 DEF RepliesInv

\* Everything else leaves the conversation alone.
LEMMA OtherReplies ==
  ASSUME RepliesInv,
         \/ FastRoute \/ Supervise \/ AnswerPiece \/ Ground \/ Suggest \/ Finish
         \/ ModelFails \/ OutOfSteps \/ CloseFailed
  PROVE  RepliesInv'
<1>1. messages' = messages
  BY DEF FastRoute, Supervise, AnswerPiece, Ground, Suggest, Finish, ModelFails, OutOfSteps,
         CloseFailed, graph
<1>2. \A i \in DOMAIN messages : Answered(i)' <=> Answered(i)
  BY <1>1 DEF Answered
<1>3. CASE FastRoute \/ Ground \/ Suggest \/ Finish
  <2>1. /\ pc \notin {"fetch", "tools", "failed", "closed"}
        /\ pc' \notin {"fetch", "tools", "agent"}
    BY <1>3 DEF FastRoute, Ground, Suggest, Finish, Run, DiagnosticEntry, AfterGrounding
  <2>2. QED
    BY <1>1, <1>2, <2>1 DEF RepliesInv
<1>4. CASE Supervise
  <2>1. /\ pc = "supervisor" /\ pc' \in {"finalizer", "agent"}
        /\ pc' = "agent" => next' \in Worker
    BY <1>4 DEF Supervise, Run, Routes
  <2>2. QED
    BY <1>1, <1>2, <2>1 DEF RepliesInv
<1>5. CASE AnswerPiece
  BY <1>1, <1>2, <1>5 DEF AnswerPiece, graph, RepliesInv
<1>6. CASE ModelFails \/ OutOfSteps \/ CloseFailed
  <2>1. pc' \in {"failed", "closed"}
    BY <1>6 DEF ModelFails, OutOfSteps, CloseFailed
  <2>2. QED
    BY <1>1, <1>2, <2>1 DEF RepliesInv
<1>7. QED
  BY <1>3, <1>4, <1>5, <1>6

LEMMA InitReplies == Init => RepliesInv
<1> SUFFICES ASSUME Init PROVE RepliesInv
  OBVIOUS
<1>1. messages = <<>> /\ pc = Entry(config)
  BY DEF Init
<1>2. pc \in {"fast_router", "planner", "supervisor"}
  BY <1>1 DEF Entry, DiagnosticEntry
<1>3. QED
  BY <1>1, <1>2 DEF RepliesInv

LEMMA NextReplies == RepliesInv /\ [Next]_vars => RepliesInv'
<1>1. ASSUME RepliesInv, UNCHANGED vars PROVE RepliesInv'
  BY <1>1 DEF RepliesInv, Answered, vars, graph
<1>2. QED
  BY <1>1, SpeakReplies, ToolNodeReplies, OtherReplies DEF Next

\* No model ever reads a conversation with a tool call that was not answered,
\* or answered out of order (ToolReplies of AgentTurn).
THEOREM EveryCallAnswered == Spec => []ToolReplies
<1>1. RepliesInv => ToolReplies
  BY DEF RepliesInv, ToolReplies, Answered
<1>2. QED
  BY <1>1, InitReplies, NextReplies, PTL DEF Spec

\* The three rules of a turn together: a model reads complete replies only, no
\* call runs in two rounds, and the budget of rounds is what ends the turn
\* (orchestrator.py:54-130, workers/base.py:60-110).
THEOREM TurnAlwaysSound == Spec => []TurnSound
<1>1. ToolReplies /\ OncePerRound /\ WithinBudget => TurnSound
  BY DEF TurnSound
<1>2. QED
  BY <1>1, EveryCallAnswered, NoCallInTwoRounds, RoundsBoundTurn, PTL

-----------------------------------------------------------------------------
(* Type correctness, and the wiring of the graph.                          *)

EventKind == {"thought", "action", "observation", "answer", "done", "error"}

Sent == [type : EventKind, tool : Sig \cup {NoTool}]

ShapeInv ==
  /\ config \in Config
  /\ pc \in Built(config) \cup Ending
  /\ next \in Worker \cup {FINISH, ""}
  /\ visits \in 0..RecursionLimit
  /\ toolHistory \subseteq Sig
  /\ events \in Seq(Sent)

LEMMA EachType ==
  ASSUME NEW type \in EventKind, NEW calls \in Seq(Sig)
  PROVE  Each(type, calls) \in Seq(Sent)
<1>1. Len(calls) \in Nat /\ DOMAIN calls = 1..Len(calls) /\ \A i \in 1..Len(calls) : calls[i] \in Sig
  OBVIOUS
<1>2. Each(type, calls) \in [1..Len(calls) -> Sent]
  BY <1>1 DEF Each, Event, Sent
<1> DEFINE n == Len(calls)
<1>3. n \in Nat /\ Each(type, calls) \in [1..n -> Sent]
  BY <1>1, <1>2
<1> HIDE DEF n
<1>4. QED
  BY <1>3

LEMMA EventType ==
  ASSUME NEW type \in EventKind
  PROVE  Event(type, NoTool) \in Sent /\ <<Event(type, NoTool)>> \in Seq(Sent)
<1>1. Event(type, NoTool) \in Sent
  BY DEF Event, Sent
<1>2. QED
  BY <1>1

\* What is sent stays well typed when more is sent.
LEMMA SendMore ==
  ASSUME ShapeInv, NEW more \in Seq(Sent)
  PROVE  events \o more \in Seq(Sent)
BY ConcatProperties DEF ShapeInv

LEMMA SendOne ==
  ASSUME ShapeInv, NEW type \in EventKind
  PROVE  Append(events, Event(type, NoTool)) \in Seq(Sent)
BY AppendProperties, EventType DEF ShapeInv

LEMMA ThoughtType == Thought \in Seq(Sent)
<1>1. "thought" \in EventKind
  BY DEF EventKind
<1>2. QED
  BY <1>1, EventType DEF Thought

LEMMA InitShape == Init => ShapeInv
<1> SUFFICES ASSUME Init PROVE ShapeInv
  OBVIOUS
<1>1. config \in Config
  BY AgentAssumption DEF Init
<1>2. 0 \in 0..RecursionLimit
  BY AgentAssumption
<1>3. Entry(config) \in Built(config)
  BY <1>1 DEF Entry, DiagnosticEntry, Built
<1>4. QED
  <2>1. visits = 0 /\ next = "" /\ toolHistory = {} /\ pc = Entry(config)
    BY DEF Init
  <2>2. events \in Seq(Sent)
    BY EmptySeq DEF Init
  <2>3. QED
    BY <1>1, <1>2, <1>3, <2>1, <2>2 DEF ShapeInv

\* A node that runs.
LEMMA RunShape ==
  ASSUME ShapeInv, NEW node, Run(node)
  PROVE  /\ visits' \in 0..RecursionLimit /\ config' = config /\ pc = node
         /\ node \in Built(config) \cup Ending
<1>1. pc = node /\ visits < RecursionLimit /\ visits' = visits + 1 /\ config' = config
  BY DEF Run
<1>2. visits \in 0..RecursionLimit /\ pc \in Built(config) \cup Ending
  BY DEF ShapeInv
<1>3. RecursionLimit \in Nat
  BY AgentAssumption
<1>4. visits' \in 0..RecursionLimit
  BY <1>1, <1>2, <1>3
<1>5. QED
  BY <1>1, <1>2, <1>4

\* A tool node.
LEMMA ObserveShape ==
  ASSUME ShapeInv, RepliesInv, messages # <<>>, NEW runs, Observe(runs)
  PROVE  toolHistory' \subseteq Sig /\ events' \in Seq(Sent) /\ next' = next
<1>1. Last(messages) \in Message
  BY DEF RepliesInv, Last
<1>2. Last(messages).calls \in Seq(Sig)
  BY <1>1 DEF Message
<1>3. ToSet(Last(messages).calls) \subseteq Sig
  BY <1>2 DEF ToSet
<1>4. Each("observation", Last(messages).calls) \in Seq(Sent)
  BY <1>2, EachType DEF EventKind
<1>5. events' = events \o Each("observation", Last(messages).calls)
  BY DEF Observe, Replies
<1>6. toolHistory' = toolHistory \cup ToSet(Last(messages).calls) /\ next' = next
  BY DEF Observe
<1>7. events' \in Seq(Sent)
  BY <1>4, <1>5, SendMore
<1>8. QED
  BY <1>3, <1>6, <1>7 DEF ShapeInv

LEMMA NextShape == ShapeInv /\ RepliesInv /\ [Next]_vars => ShapeInv'
<1> SUFFICES ASSUME ShapeInv, RepliesInv, [Next]_vars PROVE ShapeInv'
  OBVIOUS
<1>1. CASE FastRoute
  <2>1. DiagnosticEntry(config) \in Built(config) /\ "finalizer" \in Built(config)
    BY DEF DiagnosticEntry, Built
  <2>2. QED
    BY <1>1, <2>1, RunShape DEF FastRoute, ShapeInv
<1>2. CASE Plan
  <2>1. PICK calls \in Calls(AllRegistered), thought \in BOOLEAN :
          /\ pc' = AfterPlanner(calls)
          /\ events' = events \o (IF thought THEN Thought ELSE <<>>) \o Each("action", calls)
    BY <1>2 DEF Plan
  <2>2. calls \in Seq(Sig)
    BY CallsAreSigs
  <2>3. Each("action", calls) \in Seq(Sent)
    BY <2>2, EachType DEF EventKind
  <2> DEFINE said == IF thought THEN Thought ELSE <<>>
  <2>4. events' \in Seq(Sent)
    <3>1. said \in Seq(Sent)
      BY ThoughtType, EmptySeq
    <3>2. events \o said \in Seq(Sent)
      BY <3>1, SendMore
    <3>3. events' = (events \o said) \o Each("action", calls)
      BY <2>1
    <3> HIDE DEF said
    <3>4. QED
      BY <2>3, <3>2, <3>3, ConcatProperties
  <2>5. pc = "planner" /\ UNCHANGED <<config, next, toolHistory>>
    BY <1>2 DEF Plan, Run
  <2>6. pc' \in Built(config)
    BY <2>1, <2>5 DEF AfterPlanner, ShapeInv, Built, Ending
  <2>7. visits' \in 0..RecursionLimit
    BY <1>2, RunShape DEF Plan
  <2>8. QED
    BY <2>4, <2>5, <2>6, <2>7 DEF ShapeInv
<1>3. CASE PlanExhausted
  <2>1. events' \in Seq(Sent)
    BY <1>3, ThoughtType, SendMore DEF PlanExhausted
  <2>2. pc' \in Built(config)
    BY <1>3 DEF PlanExhausted, AfterPlanner, Built
  <2>3. QED
    BY <1>3, <2>1, <2>2, RunShape DEF PlanExhausted, ShapeInv
<1>4. CASE Fetch
  <2>1. PICK runs : Observe(runs)
    BY <1>4 DEF Fetch
  <2>2. pc = "fetch" /\ messages # <<>> /\ pc' = "planner"
    BY <1>4 DEF Fetch, Run, RepliesInv
  <2>3. toolHistory' \subseteq Sig /\ events' \in Seq(Sent) /\ next' = next
    BY <2>1, <2>2, ObserveShape
  <2>4. pc' \in Built(config)
    BY <2>2 DEF ShapeInv, Built, Ending
  <2>5. QED
    BY <1>4, <2>3, <2>4, RunShape DEF Fetch, ShapeInv
<1>5. CASE Supervise
  <2>1. pc = "supervisor" /\ pc' \in {"finalizer", "agent"} /\ UNCHANGED <<config, toolHistory>>
    BY <1>5 DEF Supervise, Run
  <2>2. pc' \in Built(config)
    BY <2>1 DEF ShapeInv, Built, Ending
  <2>3. next' \in Worker \cup {FINISH}
    BY <1>5 DEF Supervise, Routes
  <2>4. events' \in {events, events \o Thought}
    BY <1>5 DEF Supervise
  <2>5. events' \in Seq(Sent)
    BY <2>4, ThoughtType, SendMore DEF ShapeInv
  <2>6. visits' \in 0..RecursionLimit
    BY <1>5, RunShape DEF Supervise
  <2>7. QED
    BY <2>1, <2>2, <2>3, <2>5, <2>6 DEF ShapeInv
<1>6. CASE Work
  <2>1. PICK calls \in Calls(Registered(next)) :
          /\ pc' = IF calls = <<>> THEN "supervisor" ELSE "tools"
          /\ events' = events \o Each("action", calls)
    BY <1>6 DEF Work
  <2>2. calls \in Seq(Sig)
    BY CallsAreSigs
  <2>3. events' \in Seq(Sent)
    <3>1. Each("action", calls) \in Seq(Sent)
      BY <2>2, EachType DEF EventKind
    <3>2. QED
      BY <2>1, <3>1, SendMore
  <2>4. pc = "agent" /\ UNCHANGED <<config, next, toolHistory>>
    BY <1>6 DEF Work, Run
  <2>5. pc' \in Built(config)
    BY <2>1, <2>4 DEF ShapeInv, Built, Ending
  <2>6. visits' \in 0..RecursionLimit
    BY <1>6, RunShape DEF Work
  <2>7. QED
    BY <2>3, <2>4, <2>5, <2>6 DEF ShapeInv
<1>7. CASE WorkTools
  <2>1. PICK runs : Observe(runs)
    BY <1>7 DEF WorkTools
  <2>2. pc = "tools" /\ messages # <<>> /\ pc' = "agent"
    BY <1>7 DEF WorkTools, Run, RepliesInv
  <2>3. toolHistory' \subseteq Sig /\ events' \in Seq(Sent) /\ next' = next
    BY <2>1, <2>2, ObserveShape
  <2>4. pc' \in Built(config)
    BY <2>2 DEF ShapeInv, Built, Ending
  <2>5. QED
    BY <1>7, <2>3, <2>4, RunShape DEF WorkTools, ShapeInv
<1>8. CASE AnswerPiece
  <2>1. events' \in Seq(Sent)
    BY <1>8, SendOne DEF AnswerPiece, EventKind
  <2>2. QED
    BY <1>8, <2>1 DEF AnswerPiece, ShapeInv, graph
<1>9. CASE Finalize
  <2>1. AfterFinalizer \in Built(config) \cup Ending
    BY DEF AfterFinalizer, Built, Ending
  <2>2. QED
    BY <1>9, <2>1, RunShape DEF Finalize, ShapeInv
<1>10. CASE Ground
  <2>1. AfterGrounding \in Built(config) \cup Ending
    BY DEF AfterGrounding, Built, Ending
  <2>2. QED
    BY <1>10, <2>1, RunShape DEF Ground, ShapeInv
<1>11. CASE Suggest
  BY <1>11, RunShape DEF Suggest, ShapeInv, Ending
<1>12. CASE Finish
  <2>1. PICK tail \in {<<>>, <<Event("answer", NoTool)>>} :
          events' = events \o tail \o <<Event("done", NoTool)>>
    BY <1>12 DEF Finish
  <2>2. events \o tail \in Seq(Sent) /\ <<Event("done", NoTool)>> \in Seq(Sent)
    BY EventType, EmptySeq, SendMore DEF EventKind
  <2>3. events' \in Seq(Sent)
    BY <2>1, <2>2, ConcatProperties
  <2>4. QED
    BY <1>12, <2>3 DEF Finish, ShapeInv, graph, Ending
<1>13. CASE ModelFails \/ OutOfSteps \/ CloseFailed
  <2>1. events' \in Seq(Sent)
    BY <1>13, SendOne DEF ModelFails, OutOfSteps, CloseFailed, EventKind
  <2>2. QED
    BY <1>13, <2>1 DEF ModelFails, OutOfSteps, CloseFailed, ShapeInv, graph, Ending
<1>14. CASE UNCHANGED vars
  BY <1>14 DEF vars, graph, ShapeInv
<1>15. QED
  BY <1>1, <1>2, <1>3, <1>4, <1>5, <1>6, <1>7, <1>8, <1>9, <1>10, <1>11, <1>12, <1>13, <1>14
     DEF Next

\* Every variable of a turn keeps its type, and the graph never routes to a node
\* that was not built (agent/supervisor/graph.py).
THEOREM TurnTypes == Spec => []TypeOK
<1>1. ShapeInv /\ RepliesInv /\ HistoryInv /\ BudgetInv => TypeOK
  <2> SUFFICES ASSUME ShapeInv, RepliesInv, HistoryInv, BudgetInv PROVE TypeOK
    OBVIOUS
  <2>1. \A i \in DOMAIN messages : messages[i].calls \in Seq(Sig) /\ messages[i].replies \in Seq(Sig)
    <3>1. \A i \in DOMAIN messages : messages[i] \in Message
      BY ElementOfSeq, LenProperties DEF RepliesInv
    <3>2. QED
      BY <3>1 DEF Message
  <2>2. \A i \in DOMAIN events : events[i].tool \in Sig \cup {NoTool}
    <3>1. \A i \in DOMAIN events : events[i] \in Sent
      BY ElementOfSeq, LenProperties DEF ShapeInv
    <3>2. QED
      BY <3>1 DEF Sent
  <2>3. QED
    BY <2>1, <2>2 DEF TypeOK, ShapeInv, HistoryInv, BudgetInv
<1>2. QED
  BY <1>1, InitShape, InitReplies, InitHistory, InitBudget,
     NextShape, NextReplies, NextHistory, NextBudget, PTL DEF Spec

-----------------------------------------------------------------------------
(* The stream that the client is promised.                                 *)

\* The cardinality that TurnStream counts with is that of the library.
LEMMA StreamCardinality == ASSUME NEW S PROVE TS!Cardinality(S) = Cardinality(S)
BY DEF TS!Cardinality, Cardinality

\* How two pieces of a stream add up.
LEMMA ConcatCounts ==
  ASSUME NEW s \in Seq(Sent), NEW t \in Seq(Sent), NEW type
  PROVE  /\ TS!Count(type, s) \in Nat
         /\ TS!Count(type, s \o t) = TS!Count(type, s) + TS!Count(type, t)
<1> DEFINE m == Len(s)
           n == Len(t)
           A == {i \in 1..m : s[i].type = type}
           B == {i \in 1..n : t[i].type = type}
           C == {i \in (m + 1)..(m + n) : (s \o t)[i].type = type}
           U == {i \in 1..(m + n) : (s \o t)[i].type = type}
<1>1. m \in Nat /\ n \in Nat /\ DOMAIN s = 1..m /\ DOMAIN t = 1..n
      /\ DOMAIN (s \o t) = 1..(m + n)
  OBVIOUS
<1>2. \A i \in 1..m : (s \o t)[i] = s[i]
  OBVIOUS
<1>3. \A i \in 1..n : (s \o t)[m + i] = t[i]
  OBVIOUS
<1>4. TS!Count(type, s) = Cardinality(A) /\ TS!Count(type, t) = Cardinality(B)
      /\ TS!Count(type, s \o t) = Cardinality(U)
  BY <1>1, StreamCardinality DEF TS!Count
<1> HIDE DEF m, n
<1>5. IsFiniteSet(A) /\ IsFiniteSet(B) /\ IsFiniteSet(C)
  <2>1. IsFiniteSet(1..m) /\ IsFiniteSet(1..n) /\ IsFiniteSet((m + 1)..(m + n))
    BY <1>1, FS_Interval
  <2>2. A \subseteq 1..m /\ B \subseteq 1..n /\ C \subseteq (m + 1)..(m + n)
    OBVIOUS
  <2> HIDE DEF A, B, C
  <2> QED BY <2>1, <2>2, FS_Subset
<1>6. U = A \cup C /\ A \cap C = {}
  BY <1>1, <1>2
<1>7. Cardinality(C) = Cardinality(B)
  <2> DEFINE f == [i \in B |-> m + i]
  <2>1. f \in [B -> C]
    BY <1>1, <1>3
  <2>2. \A i, j \in B : f[i] = f[j] => i = j
    BY <1>1
  <2>3. \A j \in C : \E i \in B : f[i] = j
    <3> TAKE j \in C
    <3>1. j - m \in 1..n /\ m + (j - m) = j
      BY <1>1
    <3>2. t[j - m] = (s \o t)[j]
      BY <1>3, <3>1
    <3>3. j - m \in B
      BY <3>1, <3>2
    <3> QED BY <3>1, <3>3
  <2>4. f \in Bijection(B, C)
    BY <2>1, <2>2, <2>3 DEF Bijection, Injection, Surjection, IsInjective
  <2> QED BY <1>5, <2>4, FS_Bijection DEF ExistsBijection
<1>8. Cardinality(A \cap C) = 0
  BY <1>6, FS_EmptySet
<1>9. Cardinality(A) \in Nat /\ Cardinality(C) \in Nat
  BY <1>5, FS_CardinalityType
<1>10. Cardinality(U) = Cardinality(A) + Cardinality(C)
  <2> HIDE DEF A, B, C, U
  <2>1. Cardinality(U) = Cardinality(A) + Cardinality(C) - Cardinality(A \cap C)
    BY <1>5, <1>6, FS_Union
  <2> QED BY <1>8, <1>9, <2>1
<1> QED BY <1>4, <1>7, <1>9, <1>10

LEMMA ConcatTypes ==
  ASSUME NEW s \in Seq(Sent), NEW t \in Seq(Sent)
  PROVE  TS!Types(s \o t) = TS!Types(s) \cup TS!Types(t)
<1>1. /\ DOMAIN s = 1..Len(s) /\ DOMAIN t = 1..Len(t) /\ DOMAIN (s \o t) = 1..(Len(s) + Len(t))
      /\ Len(s) \in Nat /\ Len(t) \in Nat
  OBVIOUS
<1>2. \A i \in 1..Len(s) : (s \o t)[i] = s[i]
  OBVIOUS
<1>3. \A i \in 1..Len(t) : (s \o t)[Len(s) + i] = t[i] /\ Len(s) + i \in DOMAIN (s \o t)
  OBVIOUS
<1>4. \A i \in 1..(Len(s) + Len(t)) : i \in 1..Len(s) \/ i - Len(s) \in 1..Len(t)
  BY <1>1
<1>5. \A i \in (Len(s) + 1)..(Len(s) + Len(t)) : (s \o t)[i] = t[i - Len(s)]
  OBVIOUS
<1>6. ASSUME NEW i \in DOMAIN (s \o t) PROVE (s \o t)[i].type \in TS!Types(s) \cup TS!Types(t)
  <2>1. CASE i \in 1..Len(s)
    BY <1>1, <1>2, <2>1 DEF TS!Types
  <2>2. CASE i \notin 1..Len(s)
    <3>1. i \in (Len(s) + 1)..(Len(s) + Len(t)) /\ i - Len(s) \in 1..Len(t)
      BY <1>1, <1>4, <2>2
    <3> QED BY <1>1, <1>5, <3>1 DEF TS!Types
  <2> QED BY <2>1, <2>2
<1>7. ASSUME NEW i \in DOMAIN s PROVE s[i].type \in TS!Types(s \o t)
  <2>1. i \in DOMAIN (s \o t)
    BY <1>1
  <2> QED BY <1>1, <1>2, <2>1 DEF TS!Types
<1>8. ASSUME NEW i \in DOMAIN t PROVE t[i].type \in TS!Types(s \o t)
  BY <1>1, <1>3 DEF TS!Types
<1> QED BY <1>6, <1>7, <1>8 DEF TS!Types

\* The first events of two pieces that are put together.
LEMMA PrefixOfConcat ==
  ASSUME NEW s \in Seq(Sent), NEW t \in Seq(Sent), NEW j \in 0..Len(t)
  PROVE  SubSeq(s \o t, 1, Len(s) + j) = s \o SubSeq(t, 1, j)
<1> DEFINE u == s \o t
           v == SubSeq(t, 1, j)
<1>1. Len(s) \in Nat /\ Len(t) \in Nat /\ j \in Nat /\ j <= Len(t)
  OBVIOUS
<1>2. u \in Seq(Sent) /\ Len(u) = Len(s) + Len(t)
  OBVIOUS
<1>3. v \in Seq(Sent) /\ Len(v) = j /\ \A i \in 1..j : v[i] = t[i]
  BY <1>1
<1>4. /\ SubSeq(u, 1, Len(s) + j) \in Seq(Sent) /\ Len(SubSeq(u, 1, Len(s) + j)) = Len(s) + j
      /\ \A i \in 1..(Len(s) + j) : SubSeq(u, 1, Len(s) + j)[i] = u[i]
  <2> HIDE DEF u
  <2> QED BY <1>1, <1>2
<1>5. /\ \A i \in 1..Len(s) : u[i] = s[i]
      /\ \A i \in 1..Len(t) : u[Len(s) + i] = t[i]
  OBVIOUS
<1> HIDE DEF u, v
<1>6. /\ s \o v \in Seq(Sent) /\ Len(s \o v) = Len(s) + j
      /\ \A i \in 1..Len(s) : (s \o v)[i] = s[i]
      /\ \A i \in 1..j : (s \o v)[Len(s) + i] = v[i]
  BY <1>3
<1>7. ASSUME NEW i \in 1..(Len(s) + j) PROVE u[i] = (s \o v)[i]
  <2>1. CASE i \in 1..Len(s)
    BY <1>5, <1>6, <2>1
  <2>2. CASE i \notin 1..Len(s)
    <3>1. i - Len(s) \in 1..j /\ i = Len(s) + (i - Len(s)) /\ i - Len(s) \in 1..Len(t)
      BY <1>1, <2>2
    <3> QED BY <1>3, <1>5, <1>6, <3>1
  <2> QED BY <2>1, <2>2
<1> QED BY <1>1, <1>4, <1>6, <1>7, SeqEqual DEF v, u

\* A well-formed stream stays so while each event that is added may follow.
LEMMA WellFormedConcat ==
  ASSUME NEW s \in Seq(Sent), NEW t \in Seq(Sent), TS!WellFormed(s),
         \A k \in 1..Len(t) : TS!Follows(s \o SubSeq(t, 1, k - 1), t[k])
  PROVE  TS!WellFormed(s \o t)
<1> SUFFICES ASSUME NEW n \in DOMAIN (s \o t)
             PROVE  TS!Follows(SubSeq(s \o t, 1, n - 1), (s \o t)[n])
  BY DEF TS!WellFormed
<1>1. Len(s) \in Nat /\ Len(t) \in Nat /\ n \in 1..(Len(s) + Len(t)) /\ DOMAIN s = 1..Len(s)
  OBVIOUS
<1>2. CASE n \in 1..Len(s)
  <2>1. SubSeq(s \o t, 1, n - 1) = SubSeq(s, 1, n - 1) /\ (s \o t)[n] = s[n]
    BY <1>1, <1>2
  <2> QED BY <1>1, <1>2, <2>1 DEF TS!WellFormed
<1>3. CASE n \notin 1..Len(s)
  <2> DEFINE k == n - Len(s)
  <2>1. k \in 1..Len(t) /\ n = Len(s) + k
    BY <1>1, <1>3
  <2>2. (s \o t)[n] = t[k]
    BY <1>1, <2>1
  <2>3. SubSeq(s \o t, 1, n - 1) = s \o SubSeq(t, 1, k - 1)
    <3>1. k - 1 \in 0..Len(t) /\ n - 1 = Len(s) + (k - 1)
      BY <1>1, <2>1
    <3> QED BY <3>1, PrefixOfConcat
  <2> QED BY <2>1, <2>2, <2>3
<1> QED BY <1>2, <1>3

\* One more event.
LEMMA WellFormedAppend ==
  ASSUME NEW s \in Seq(Sent), NEW ev \in Sent, TS!WellFormed(s), TS!Follows(s, ev)
  PROVE  TS!WellFormed(s \o <<ev>>)
<1> DEFINE t == <<ev>>
<1>1. t \in Seq(Sent) /\ Len(t) = 1 /\ t[1] = ev /\ SubSeq(t, 1, 0) = <<>> /\ s \o <<>> = s
  OBVIOUS
<1> HIDE DEF t
<1>2. ASSUME NEW k \in 1..Len(t) PROVE TS!Follows(s \o SubSeq(t, 1, k - 1), t[k])
  <2>1. k = 1 /\ k - 1 = 0
    BY <1>1
  <2>2. TS!Follows(s \o SubSeq(t, 1, 0), t[1])
    BY <1>1
  <2> QED BY <2>1, <2>2
<1> QED BY <1>1, <1>2, WellFormedConcat DEF t

\* A piece whose events are all of one type.
LEMMA OneType ==
  ASSUME NEW s \in Seq(Sent), NEW type, \A i \in 1..Len(s) : s[i].type = type
  PROVE  TS!Count(type, s) = Len(s) /\ TS!Types(s) \subseteq {type}
<1>1. DOMAIN s = 1..Len(s) /\ Len(s) \in Nat
  OBVIOUS
<1>2. {i \in DOMAIN s : s[i].type = type} = 1..Len(s)
  BY <1>1
<1>3. Cardinality(1..Len(s)) = Len(s)
  <2> DEFINE n == Len(s)
  <2>1. n \in Nat
    BY <1>1
  <2> HIDE DEF n
  <2>2. Cardinality(1..n) = n
    BY <2>1, FS_Interval
  <2> QED BY <2>2 DEF n
<1>4. TS!Count(type, s) = Len(s)
  BY <1>2, <1>3, StreamCardinality DEF TS!Count
<1>5. TS!Types(s) \subseteq {type}
  BY <1>1 DEF TS!Types
<1> QED BY <1>4, <1>5

\* A piece with no event of a type.
LEMMA NoneOfType ==
  ASSUME NEW s \in Seq(Sent), NEW type, \A i \in 1..Len(s) : s[i].type # type
  PROVE  TS!Count(type, s) = 0
<1>1. {i \in DOMAIN s : s[i].type = type} = {}
  OBVIOUS
<1> QED BY <1>1, StreamCardinality, FS_EmptySet DEF TS!Count

\* The events of a node's calls.
LEMMA EachEvents ==
  ASSUME NEW type \in EventKind, NEW calls \in Seq(Sig)
  PROVE  /\ Each(type, calls) \in Seq(Sent) /\ Len(Each(type, calls)) = Len(calls)
         /\ \A i \in 1..Len(calls) : /\ Each(type, calls)[i].type = type
                                     /\ Each(type, calls)[i].tool = calls[i]
<1>1. DOMAIN calls = 1..Len(calls) /\ Len(calls) \in Nat
  OBVIOUS
<1>2. Each(type, calls) = [i \in 1..Len(calls) |-> Event(type, calls[i])]
  BY <1>1 DEF Each
<1>3. Each(type, calls) \in Seq(Sent) /\ DOMAIN Each(type, calls) = 1..Len(calls)
  BY <1>2, EachType
<1>4. Len(Each(type, calls)) = Len(calls)
  <2> DEFINE e == Each(type, calls)
  <2>1. e \in Seq(Sent) /\ DOMAIN e = 1..Len(calls)
    BY <1>3
  <2> HIDE DEF e
  <2>2. Len(e) = Len(calls)
    BY <1>1, <2>1
  <2> QED BY <2>2 DEF e
<1> QED BY <1>2, <1>3, <1>4 DEF Event

\* The first events of a piece.
LEMMA FirstEvents ==
  ASSUME NEW s \in Seq(Sent), NEW j \in 0..Len(s)
  PROVE  /\ SubSeq(s, 1, j) \in Seq(Sent) /\ Len(SubSeq(s, 1, j)) = j
         /\ \A i \in 1..j : SubSeq(s, 1, j)[i] = s[i]
OBVIOUS

\* What a turn sends before its answer.
Quiet == {"thought", "action", "observation"}

\* Actions may follow whatever came before the answer.
LEMMA ActionsFollow ==
  ASSUME NEW s \in Seq(Sent), TS!WellFormed(s), TS!Types(s) \subseteq Quiet,
         NEW calls \in Seq(Sig)
  PROVE  /\ TS!WellFormed(s \o Each("action", calls))
         /\ TS!Types(s \o Each("action", calls)) \subseteq Quiet
<1> DEFINE t == Each("action", calls)
<1>1. t \in Seq(Sent) /\ \A i \in 1..Len(t) : t[i].type = "action"
  BY EachEvents DEF EventKind
<1> HIDE DEF t
<1>2. ASSUME NEW j \in 0..Len(t) PROVE TS!Types(s \o SubSeq(t, 1, j)) \subseteq Quiet
  <2> DEFINE v == SubSeq(t, 1, j)
  <2>1. v \in Seq(Sent) /\ \A i \in 1..Len(v) : v[i].type = "action"
    BY <1>1, FirstEvents
  <2> HIDE DEF v
  <2>2. TS!Types(v) \subseteq {"action"} /\ TS!Types(s \o v) = TS!Types(s) \cup TS!Types(v)
    BY <2>1, OneType, ConcatTypes
  <2> QED BY <2>2 DEF Quiet, v
<1>3. ASSUME NEW k \in 1..Len(t) PROVE TS!Follows(s \o SubSeq(t, 1, k - 1), t[k])
  <2>1. k - 1 \in 0..Len(t)
    BY <1>1
  <2>2. TS!Types(s \o SubSeq(t, 1, k - 1)) \subseteq Quiet
    BY <1>2, <2>1
  <2>3. t[k].type = "action"
    BY <1>1
  <2> QED BY <2>2, <2>3 DEF TS!Follows, Quiet
<1>4. SubSeq(t, 1, Len(t)) = t /\ Len(t) \in 0..Len(t)
  BY <1>1
<1> QED BY <1>1, <1>2, <1>3, <1>4, WellFormedConcat DEF t

\* A piece of observations answers a piece of actions of the same tools.
LEMMA PiecesFollow ==
  ASSUME NEW old \in Seq(Sent), NEW a \in Seq(Sent), NEW t \in Seq(Sent), Len(t) = Len(a),
         \A i \in 1..Len(a) : a[i].type = "action" /\ t[i].type = "observation",
         \A i \in 1..Len(a) : a[i].tool = t[i].tool,
         TS!Answered(old), TS!WellFormed(old \o a), TS!Types(old \o a) \subseteq Quiet
  PROVE  /\ TS!WellFormed((old \o a) \o t)
         /\ TS!Types((old \o a) \o t) \subseteq Quiet
         /\ TS!Answered((old \o a) \o t)
<1> DEFINE s == old \o a
<1>1. \A i \in 1..Len(a) : a[i].type = "action"
  OBVIOUS
<1>2. \A i \in 1..Len(a) : t[i].type = "observation" /\ t[i].tool = a[i].tool
  OBVIOUS
<1>3. TS!WellFormed(s) /\ TS!Types(s) \subseteq Quiet
  OBVIOUS
<1>4. /\ s \in Seq(Sent) /\ Len(s) = Len(old) + Len(a) /\ Len(a) \in Nat /\ Len(old) \in Nat
      /\ \A i \in 1..Len(a) : s[Len(old) + i] = a[i]
  OBVIOUS
<1>5. ASSUME NEW j \in 0..Len(a)
      PROVE  TS!Count("action", old \o SubSeq(a, 1, j)) = TS!Count("action", old) + j
  <2> DEFINE v == SubSeq(a, 1, j)
  <2>1. v \in Seq(Sent) /\ Len(v) = j /\ \A i \in 1..Len(v) : v[i].type = "action"
    BY <1>1, FirstEvents
  <2> HIDE DEF v
  <2>2. TS!Count("action", v) = j
    BY <2>1, OneType
  <2>3. TS!Count("action", old \o v) = TS!Count("action", old) + TS!Count("action", v)
    BY <2>1, ConcatCounts
  <2> QED BY <2>2, <2>3 DEF v
<1>6. SubSeq(a, 1, Len(a)) = a /\ Len(a) \in 0..Len(a)
  BY <1>1
<1>7. TS!Count("action", s) = TS!Count("action", old) + Len(a)
  BY <1>5, <1>6
<1>8. TS!Count("observation", s) = TS!Count("observation", old)
  <2>1. \A i \in 1..Len(a) : a[i].type # "observation"
    BY <1>1
  <2>2. TS!Count("observation", a) = 0
    BY <1>1, <2>1, NoneOfType
  <2>3. /\ TS!Count("observation", old) \in Nat
        /\ TS!Count("observation", old \o a) = TS!Count("observation", old) + TS!Count("observation", a)
    BY <1>1, ConcatCounts
  <2> QED BY <2>2, <2>3
<1> HIDE DEF s
<1>9. ASSUME NEW j \in 0..Len(a)
      PROVE  /\ s \o SubSeq(t, 1, j) \in Seq(Sent)
             /\ TS!Count("observation", s \o SubSeq(t, 1, j)) = TS!Count("observation", old) + j
             /\ TS!Count("action", s \o SubSeq(t, 1, j)) = TS!Count("action", s)
             /\ TS!Types(s \o SubSeq(t, 1, j)) \subseteq Quiet
  <2> DEFINE v == SubSeq(t, 1, j)
  <2>1. v \in Seq(Sent) /\ Len(v) = j /\ \A i \in 1..Len(v) : v[i].type = "observation"
    BY <1>2, FirstEvents
  <2> HIDE DEF v
  <2>2. \A i \in 1..Len(v) : v[i].type # "action"
    BY <2>1
  <2>3. /\ TS!Count("observation", v) = j /\ TS!Count("action", v) = 0
        /\ TS!Types(v) \subseteq {"observation"}
    BY <2>1, <2>2, OneType, NoneOfType
  <2>4. s \o v \in Seq(Sent)
    BY <1>4, <2>1
  <2>5. TS!Count("observation", s \o v) = TS!Count("observation", old) + j
    <3>1. TS!Count("observation", s \o v) = TS!Count("observation", s) + TS!Count("observation", v)
      BY <1>4, <2>1, ConcatCounts
    <3> QED BY <1>8, <2>3, <3>1
  <2>6. TS!Count("action", s \o v) = TS!Count("action", s)
    <3>1. /\ TS!Count("action", s) \in Nat
          /\ TS!Count("action", s \o v) = TS!Count("action", s) + TS!Count("action", v)
      BY <1>4, <2>1, ConcatCounts
    <3> QED BY <2>3, <3>1
  <2>7. TS!Types(s \o v) \subseteq Quiet
    <3>1. TS!Types(s \o v) = TS!Types(s) \cup TS!Types(v)
      BY <1>4, <2>1, ConcatTypes
    <3>2. TS!Types(v) \subseteq Quiet
      BY <2>3 DEF Quiet
    <3> QED BY <1>3, <3>1, <3>2
  <2> QED BY <2>4, <2>5, <2>6, <2>7 DEF v
<1>10. ASSUME NEW k \in 1..Len(a) PROVE TS!Answers(s \o SubSeq(t, 1, k - 1), a[k].tool)
  <2> DEFINE j == k - 1
             v == SubSeq(t, 1, j)
             u == s \o v
             i == Len(old) + k
  <2>1. j \in 0..Len(a) /\ j \in 0..Len(t) /\ i = Len(old) + j + 1
    BY <1>2, <1>4
  <2>2. v \in Seq(Sent)
    BY <1>2, <2>1, FirstEvents
  <2>3. u \in Seq(Sent) /\ TS!Count("observation", u) = TS!Count("observation", old) + j
    BY <1>9, <2>1
  <2>4. i \in 1..Len(s) /\ s[i] = a[k]
    BY <1>4
  <2> HIDE DEF j, v
  <2>5. i \in DOMAIN u /\ u[i] = s[i]
    BY <1>4, <2>2, <2>4
  <2>6. SubSeq(u, 1, i - 1) = SubSeq(s, 1, Len(old) + j)
    <3> DEFINE m == Len(old) + j
    <3>1. m \in 0..Len(s) /\ i - 1 = m
      BY <1>4, <2>1
    <3> HIDE DEF m, i
    <3>2. SubSeq(s \o v, 1, m) = SubSeq(s, 1, m)
      BY <1>4, <2>2, <3>1
    <3> QED BY <3>1, <3>2 DEF m
  <2>7. SubSeq(s, 1, Len(old) + j) = old \o SubSeq(a, 1, j)
    BY <2>1, PrefixOfConcat DEF s
  <2>8. TS!Count("action", SubSeq(u, 1, i - 1)) = TS!Count("observation", u)
    <3>1. TS!Count("action", SubSeq(u, 1, i - 1)) = TS!Count("action", old) + j
      BY <1>5, <2>1, <2>6, <2>7
    <3>2. TS!Count("action", old) = TS!Count("observation", old)
      BY DEF TS!Answered
    <3> QED BY <2>3, <3>1, <3>2
  <2>9. u[i].type = "action" /\ u[i].tool = a[k].tool
    BY <1>1, <2>4, <2>5
  <2>10. TS!Answers(u, a[k].tool)
    <3> HIDE DEF u, i
    <3> QED BY <2>5, <2>8, <2>9 DEF TS!Answers
  <2> QED BY <2>10 DEF j, v
<1>11. ASSUME NEW k \in 1..Len(t) PROVE TS!Follows(s \o SubSeq(t, 1, k - 1), t[k])
  <2> DEFINE u == s \o SubSeq(t, 1, k - 1)
  <2>1. k \in 1..Len(a) /\ k - 1 \in 0..Len(a)
    BY <1>2, <1>4
  <2>2. TS!Answers(u, a[k].tool) /\ TS!Types(u) \subseteq Quiet
    BY <1>9, <1>10, <2>1
  <2>3. t[k].type = "observation" /\ t[k].tool = a[k].tool
    BY <1>2, <2>1
  <2> HIDE DEF u
  <2>4. TS!Follows(u, t[k])
    BY <2>2, <2>3 DEF TS!Follows, Quiet
  <2> QED BY <2>4 DEF u
<1>12. TS!WellFormed(s \o t)
  <2>1. TS!WellFormed(s) /\ s \in Seq(Sent) /\ t \in Seq(Sent)
    BY <1>3, <1>4
  <2> QED BY <1>11, <2>1, WellFormedConcat
<1>13. SubSeq(t, 1, Len(a)) = t
  BY <1>2
<1>14. TS!Types(s \o t) \subseteq Quiet /\ TS!Answered(s \o t)
  <2>1. /\ TS!Count("observation", s \o t) = TS!Count("observation", old) + Len(a)
        /\ TS!Count("action", s \o t) = TS!Count("action", old) + Len(a)
        /\ TS!Types(s \o t) \subseteq Quiet
    BY <1>6, <1>7, <1>9, <1>13
  <2> QED BY <2>1 DEF TS!Answered
<1> QED BY <1>12, <1>14 DEF s

\* The observations of a message's calls answer its actions.
LEMMA ObservationsFollow ==
  ASSUME NEW old \in Seq(Sent), NEW calls \in Seq(Sig), TS!Answered(old),
         TS!WellFormed(old \o Each("action", calls)),
         TS!Types(old \o Each("action", calls)) \subseteq Quiet
  PROVE  /\ TS!WellFormed((old \o Each("action", calls)) \o Each("observation", calls))
         /\ TS!Types((old \o Each("action", calls)) \o Each("observation", calls)) \subseteq Quiet
         /\ TS!Answered((old \o Each("action", calls)) \o Each("observation", calls))
<1> DEFINE a == Each("action", calls)
           t == Each("observation", calls)
<1>1. /\ a \in Seq(Sent) /\ Len(a) = Len(calls)
      /\ \A i \in 1..Len(calls) : a[i].type = "action" /\ a[i].tool = calls[i]
  BY EachEvents DEF EventKind
<1>2. /\ t \in Seq(Sent) /\ Len(t) = Len(calls)
      /\ \A i \in 1..Len(calls) : t[i].type = "observation" /\ t[i].tool = calls[i]
  BY EachEvents DEF EventKind
<1>3. TS!WellFormed(old \o a) /\ TS!Types(old \o a) \subseteq Quiet
  OBVIOUS
<1> HIDE DEF a, t
<1> QED BY <1>1, <1>2, <1>3, PiecesFollow DEF a, t

\* The nodes before the answer, the two that carry out calls, and those after.
Collecting == {"fast_router", "planner", "supervisor", "agent"}
CarryingOut == {"fetch", "tools"}
Answering == {"finalizer", "grounding", "suggest", "end"}

\* Strengthening of a well-formed stream: before a tool node it ends with the
\* actions of the message that waits for replies, and has no other open ones.
StreamInv ==
  /\ TS!WellFormed(events)
  /\ pc \in Collecting => TS!Types(events) \subseteq Quiet /\ TS!Answered(events)
  /\ pc \in CarryingOut =>
       /\ TS!Types(events) \subseteq Quiet
       /\ \E old \in Seq(Sent) : /\ events = old \o Each("action", Last(messages).calls)
                                 /\ TS!Answered(old)
  /\ pc \in Answering => TS!Types(events) \subseteq Quiet \cup {"answer"} /\ TS!Answered(events)
  /\ pc = "failed" => "error" \in TS!Types(events) /\ "done" \notin TS!Types(events)

\* A step of the graph keeps the invariant, and sends a piece if anything.
Grows(before, after) == \E piece \in Seq(Sent) : after = before \o piece

LEMMA GrowthIsPrefix ==
  ASSUME NEW before \in Seq(Sent), NEW after, Grows(before, after), after # before
  PROVE  TS!IsStrictPrefix(before, after)
<1>1. PICK piece \in Seq(Sent) : after = before \o piece
  BY DEF Grows
<1> DEFINE u == before \o piece
<1>2. /\ u \in Seq(Sent) /\ Len(u) = Len(before) + Len(piece)
      /\ \A i \in 1..Len(before) : u[i] = before[i]
      /\ Len(before) \in Nat /\ Len(piece) \in Nat
  OBVIOUS
<1> HIDE DEF u
<1>3. SubSeq(before, 1, Len(before)) = SubSeq(u, 1, Len(before)) /\ Len(before) <= Len(u)
  BY <1>2
<1> QED BY <1>1, <1>3 DEF u, TS!IsStrictPrefix, TS!IsPrefix

\* Pieces sent one after the other are one piece.
LEMMA ThreePieces ==
  ASSUME NEW r \in Seq(Sent), NEW s \in Seq(Sent), NEW t \in Seq(Sent)
  PROVE  (r \o s) \o t = r \o (s \o t) /\ s \o t \in Seq(Sent)
OBVIOUS

\* One event that is no action and no observation.
LEMMA PlainEvent ==
  ASSUME NEW s \in Seq(Sent), NEW type \in EventKind \ {"action", "observation"},
         TS!WellFormed(s), TS!Follows(s, Event(type, NoTool))
  PROVE  /\ s \o <<Event(type, NoTool)>> \in Seq(Sent)
         /\ TS!WellFormed(s \o <<Event(type, NoTool)>>)
         /\ TS!Types(s \o <<Event(type, NoTool)>>) = TS!Types(s) \cup {type}
         /\ TS!Answered(s) => TS!Answered(s \o <<Event(type, NoTool)>>)
<1> DEFINE ev == Event(type, NoTool)
           t == <<ev>>
<1>1. ev \in Sent /\ ev.type = type
  BY EventType DEF Event
<1>2. TS!Follows(s, ev)
  OBVIOUS
<1> HIDE DEF ev
<1>3. t \in Seq(Sent) /\ Len(t) = 1 /\ t[1] = ev /\ DOMAIN t = 1..1
  BY <1>1
<1>4. TS!WellFormed(s \o t)
  BY <1>1, <1>2, WellFormedAppend
<1> HIDE DEF t
<1>5. TS!Types(t) = {type}
  BY <1>1, <1>3 DEF TS!Types
<1>6. TS!Count("action", t) = 0 /\ TS!Count("observation", t) = 0
  <2>1. \A i \in 1..Len(t) : t[i].type # "action" /\ t[i].type # "observation"
    BY <1>1, <1>3
  <2> QED BY <1>3, <2>1, NoneOfType
<1>7. /\ TS!Count("action", s) \in Nat /\ TS!Count("observation", s) \in Nat
      /\ TS!Count("action", s \o t) = TS!Count("action", s) + TS!Count("action", t)
      /\ TS!Count("observation", s \o t) = TS!Count("observation", s) + TS!Count("observation", t)
  BY <1>3, ConcatCounts
<1>8. TS!Answered(s) => TS!Answered(s \o t)
  BY <1>6, <1>7 DEF TS!Answered
<1>9. s \o t \in Seq(Sent) /\ TS!Types(s \o t) = TS!Types(s) \cup {type}
  BY <1>3, <1>5, ConcatTypes
<1> QED BY <1>4, <1>8, <1>9 DEF t, ev

\* A thought while data is collected, and nothing said.
LEMMA ThoughtFollows ==
  ASSUME NEW s \in Seq(Sent), TS!WellFormed(s), TS!Types(s) \subseteq Quiet, TS!Answered(s),
         NEW said \in {<<>>, Thought}
  PROVE  /\ s \o said \in Seq(Sent) /\ TS!WellFormed(s \o said)
         /\ TS!Types(s \o said) \subseteq Quiet /\ TS!Answered(s \o said)
<1>1. CASE said = <<>>
  <2>1. s \o <<>> = s
    OBVIOUS
  <2> QED BY <1>1, <2>1
<1>2. CASE said = Thought
  <2>1. TS!Follows(s, Event("thought", NoTool))
    BY DEF TS!Follows, Event, Quiet
  <2>2. "thought" \in EventKind \ {"action", "observation"} /\ "thought" \in Quiet
    BY DEF EventKind, Quiet
  <2> QED BY <1>2, <2>1, <2>2, PlainEvent DEF Thought
<1> QED BY <1>1, <1>2

-----------------------------------------------------------------------------

LEMMA InitStream == Init => StreamInv
<1> SUFFICES ASSUME Init PROVE StreamInv
  OBVIOUS
<1>1. events = <<>> /\ pc \in {"fast_router", "planner", "supervisor"}
  BY DEF Init, Entry, DiagnosticEntry
<1>2. <<>> \in Seq(Sent) /\ Len(<<>>) = 0 /\ DOMAIN <<>> = {}
  OBVIOUS
<1>3. TS!WellFormed(<<>>) /\ TS!Types(<<>>) = {}
  BY <1>2 DEF TS!WellFormed, TS!Types
<1>4. TS!Count("action", <<>>) = 0 /\ TS!Count("observation", <<>>) = 0
  <2> DEFINE none == <<>>
  <2>1. none \in Seq(Sent) /\ \A type : \A i \in 1..Len(none) : none[i].type # type
    BY <1>2
  <2> HIDE DEF none
  <2>2. TS!Count("action", none) = 0 /\ TS!Count("observation", none) = 0
    BY <2>1, NoneOfType
  <2> QED BY <2>2 DEF none
<1>5. TS!Answered(<<>>)
  BY <1>4 DEF TS!Answered
<1> QED BY <1>1, <1>3, <1>5 DEF StreamInv, Collecting, CarryingOut, Answering

\* Nodes that speak before the answer: what they say, then the calls.
LEMMA AskStream ==
  ASSUME StreamInv, ShapeInv, pc \in Collecting, NEW said \in {<<>>, Thought},
         NEW from, NEW calls \in Seq(Sig), Say(from, calls), messages \in Seq(Message),
         events' = (events \o said) \o Each("action", calls),
         calls = <<>> => pc' \in Collecting \cup Answering,
         calls # <<>> => pc' \in CarryingOut
  PROVE  StreamInv' /\ Grows(events, events')
<1> DEFINE old == events \o said
<1>1. /\ old \in Seq(Sent) /\ TS!WellFormed(old)
      /\ TS!Types(old) \subseteq Quiet /\ TS!Answered(old)
  BY ThoughtFollows DEF StreamInv, ShapeInv
<1>2. Grows(events, events')
  <2>1. said \in Seq(Sent) /\ Each("action", calls) \in Seq(Sent)
    <3>1. said \in Seq(Sent)
      BY ThoughtType, EmptySeq
    <3>2. "action" \in EventKind
      BY DEF EventKind
    <3> QED BY <3>1, <3>2, EachEvents
  <2> DEFINE a == Each("action", calls)
  <2>2. events \in Seq(Sent) /\ a \in Seq(Sent) /\ events' = (events \o said) \o a
    BY <2>1 DEF ShapeInv
  <2> HIDE DEF a
  <2>3. (events \o said) \o a = events \o (said \o a) /\ said \o a \in Seq(Sent)
    BY <2>1, <2>2, ThreePieces
  <2> QED BY <2>2, <2>3 DEF Grows
<1> HIDE DEF old
<1>3. events' = old \o Each("action", calls)
  BY DEF old
<1>4. TS!WellFormed(events') /\ TS!Types(events') \subseteq Quiet
  BY <1>1, <1>3, ActionsFollow
<1>5. CASE calls = <<>>
  <2>1. Each("action", calls) = <<>>
    <3>1. "action" \in EventKind /\ Len(calls) = 0
      BY <1>5 DEF EventKind
    <3>2. Each("action", calls) \in Seq(Sent) /\ Len(Each("action", calls)) = 0
      BY <3>1, EachEvents
    <3> QED BY <3>2
  <2>2. events' = old
    BY <1>1, <1>3, <2>1
  <2>3. pc' \in Collecting \/ pc' \in Answering
    BY <1>5
  <2> QED BY <1>1, <1>2, <1>4, <2>2, <2>3 DEF StreamInv, Collecting, CarryingOut, Answering
<1>6. CASE calls # <<>>
  <2>1. Last(messages').calls = calls
    <3> DEFINE m == [from |-> from, calls |-> calls, replies |-> <<>>]
    <3>1. messages' = Append(messages, m) /\ Len(messages) \in Nat /\ m.calls = calls
      BY DEF Say
    <3> HIDE DEF m
    <3>2. Len(messages') = Len(messages) + 1 /\ messages'[Len(messages) + 1] = m
      BY <3>1
    <3> QED BY <3>1, <3>2 DEF Last
  <2>2. \E o \in Seq(Sent) : /\ events' = o \o Each("action", Last(messages').calls)
                             /\ TS!Answered(o)
    BY <1>1, <1>3, <2>1
  <2>3. pc' \in CarryingOut
    BY <1>6
  <2> QED BY <1>2, <1>4, <2>2, <2>3 DEF StreamInv, Collecting, CarryingOut, Answering
<1> QED BY <1>5, <1>6

\* The tool nodes.
LEMMA ToolNodeStream ==
  ASSUME StreamInv, ShapeInv, RepliesInv, Fetch \/ WorkTools
  PROVE  StreamInv' /\ Grows(events, events')
<1> DEFINE calls == Last(messages).calls
<1>1. pc \in CarryingOut /\ pc' \in Collecting /\ messages # <<>>
  BY DEF Fetch, WorkTools, Run, CarryingOut, Collecting, RepliesInv
<1>2. events' = events \o Each("observation", calls)
  BY DEF Fetch, WorkTools, Observe, Replies
<1>3. calls \in Seq(Sig)
  <2>1. Last(messages) \in Message
    BY <1>1 DEF RepliesInv, Last
  <2> QED BY <2>1 DEF Message
<1>4. PICK old \in Seq(Sent) : events = old \o Each("action", calls) /\ TS!Answered(old)
  BY <1>1 DEF StreamInv
<1>5. TS!WellFormed(events) /\ TS!Types(events) \subseteq Quiet
  BY <1>1 DEF StreamInv
<1> HIDE DEF calls
<1>6. /\ TS!WellFormed(events') /\ TS!Types(events') \subseteq Quiet /\ TS!Answered(events')
  <2>1. /\ TS!WellFormed(old \o Each("action", calls))
        /\ TS!Types(old \o Each("action", calls)) \subseteq Quiet
    BY <1>4, <1>5
  <2> QED BY <1>2, <1>3, <1>4, <2>1, ObservationsFollow
<1>7. Grows(events, events')
  BY <1>2, <1>3, EachEvents DEF Grows, EventKind
<1> QED BY <1>1, <1>6, <1>7 DEF StreamInv, Collecting, CarryingOut, Answering

\* The nodes that speak before the answer.
LEMMA SpeakStream ==
  ASSUME StreamInv, ShapeInv, RepliesInv, Plan \/ PlanExhausted \/ Supervise \/ Work
  PROVE  StreamInv' /\ Grows(events, events')
<1>1. events \in Seq(Sent) /\ messages \in Seq(Message)
  BY DEF ShapeInv, RepliesInv
<1>2. CASE Plan
  <2>1. PICK calls \in Calls(AllRegistered), thought \in BOOLEAN :
          /\ Say("planner", calls)
          /\ pc' = AfterPlanner(calls)
          /\ events' = events \o (IF thought THEN Thought ELSE <<>>) \o Each("action", calls)
    BY <1>2 DEF Plan
  <2> DEFINE said == IF thought THEN Thought ELSE <<>>
  <2>2. calls \in Seq(Sig) /\ said \in {<<>>, Thought} /\ pc \in Collecting
    BY <1>2, CallsAreSigs DEF Plan, Run, Collecting
  <2>3. /\ calls = <<>> => pc' \in Collecting \cup Answering
        /\ calls # <<>> => pc' \in CarryingOut
    BY <2>1 DEF AfterPlanner, Answering, CarryingOut
  <2>4. events' = (events \o said) \o Each("action", calls)
    BY <2>1
  <2> HIDE DEF said
  <2> QED BY <1>1, <2>1, <2>2, <2>3, <2>4, AskStream
<1>3. CASE PlanExhausted
  <2>1. pc \in Collecting /\ pc' \in Answering /\ events' = events \o Thought
    BY <1>3 DEF PlanExhausted, Run, AfterPlanner, Collecting, Answering
  <2>2. /\ TS!WellFormed(events') /\ TS!Types(events') \subseteq Quiet /\ TS!Answered(events')
    BY <1>1, <2>1, ThoughtFollows DEF StreamInv
  <2>3. Grows(events, events')
    BY <2>1, ThoughtType DEF Grows
  <2> QED BY <2>1, <2>2, <2>3 DEF StreamInv, Collecting, CarryingOut, Answering
<1>4. CASE Supervise
  <2>1. pc \in Collecting /\ pc' \in Answering \cup Collecting /\ events' \in {events \o Thought, events}
    BY <1>4 DEF Supervise, Run, Collecting, Answering
  <2>2. PICK said \in {<<>>, Thought} : events' = events \o said
    <3>1. events \o <<>> = events
      BY <1>1
    <3> QED BY <2>1, <3>1
  <2>3. /\ TS!WellFormed(events') /\ TS!Types(events') \subseteq Quiet /\ TS!Answered(events')
    BY <1>1, <2>1, <2>2, ThoughtFollows DEF StreamInv
  <2>4. Grows(events, events')
    BY <2>2, ThoughtType, EmptySeq DEF Grows
  <2> QED BY <2>1, <2>3, <2>4 DEF StreamInv, Collecting, CarryingOut, Answering
<1>5. CASE Work
  <2>1. PICK calls \in Calls(Registered(next)) :
          /\ Say(next, calls)
          /\ pc' = IF calls = <<>> THEN "supervisor" ELSE "tools"
          /\ events' = events \o Each("action", calls)
    BY <1>5 DEF Work
  <2>2. calls \in Seq(Sig) /\ pc \in Collecting
    BY <1>5, CallsAreSigs DEF Work, Run, Collecting
  <2>3. /\ calls = <<>> => pc' \in Collecting \cup Answering
        /\ calls # <<>> => pc' \in CarryingOut
    BY <2>1 DEF Collecting, CarryingOut
  <2>4. events' = (events \o <<>>) \o Each("action", calls)
    <3>1. events \o <<>> = events
      BY <1>1
    <3> QED BY <2>1, <3>1
  <2> QED BY <1>1, <2>1, <2>2, <2>3, <2>4, AskStream
<1> QED BY <1>2, <1>3, <1>4, <1>5

\* An answer's piece, the end of the stream, and a failure.
LEMMA EndStream ==
  ASSUME StreamInv, ShapeInv, AnswerPiece \/ Finish \/ ModelFails \/ OutOfSteps \/ CloseFailed
  PROVE  StreamInv' /\ Grows(events, events')
<1> USE DEF Collecting, CarryingOut, Answering
<1>1. events \in Seq(Sent) /\ TS!WellFormed(events)
  BY DEF ShapeInv, StreamInv
<1>2. \A ev \in Sent : Append(events, ev) = events \o <<ev>> /\ <<ev>> \in Seq(Sent)
  BY <1>1
<1>3. {"answer", "done", "error"} \subseteq EventKind \ {"action", "observation"}
  BY DEF EventKind
<1>4. CASE AnswerPiece
  <2>1. pc = "finalizer" /\ pc' = "finalizer" /\ events' = events \o <<Event("answer", NoTool)>>
    BY <1>2, <1>3, <1>4, EventType DEF AnswerPiece
  <2>2. TS!Types(events) \subseteq Quiet \cup {"answer"} /\ TS!Answered(events)
    BY <2>1 DEF StreamInv
  <2>3. TS!Follows(events, Event("answer", NoTool))
    BY <2>2 DEF TS!Follows, Event, Quiet
  <2>4. /\ TS!WellFormed(events') /\ TS!Types(events') \subseteq Quiet \cup {"answer"}
        /\ TS!Answered(events')
    BY <1>1, <1>3, <2>1, <2>2, <2>3, PlainEvent
  <2>5. Grows(events, events')
    BY <1>3, <2>1, EventType DEF Grows
  <2> QED BY <2>1, <2>4, <2>5 DEF StreamInv
<1>5. CASE Finish
  <2>1. PICK tail \in {<<>>, <<Event("answer", NoTool)>>} :
          events' = events \o tail \o <<Event("done", NoTool)>>
    BY <1>5 DEF Finish
  <2>2. TS!Types(events) \subseteq Quiet \cup {"answer"} /\ TS!Answered(events) /\ pc' = "closed"
    BY <1>5 DEF StreamInv, Finish
  <2>3. /\ events \o tail \in Seq(Sent) /\ TS!WellFormed(events \o tail)
        /\ TS!Types(events \o tail) \subseteq Quiet \cup {"answer"} /\ TS!Answered(events \o tail)
    <3>1. CASE tail = <<>>
      <4>1. events \o <<>> = events
        BY <1>1
      <4> QED BY <1>1, <2>2, <3>1, <4>1
    <3>2. CASE tail = <<Event("answer", NoTool)>>
      <4>1. TS!Follows(events, Event("answer", NoTool))
        BY <2>2 DEF TS!Follows, Event, Quiet
      <4> QED BY <1>1, <1>3, <2>2, <3>2, <4>1, PlainEvent
    <3> QED BY <3>1, <3>2
  <2>4. TS!Follows(events \o tail, Event("done", NoTool))
    BY <2>3 DEF TS!Follows, Event, Quiet
  <2>5. TS!WellFormed(events')
    BY <1>3, <2>1, <2>3, <2>4, PlainEvent
  <2>6. Grows(events, events')
    <3> DEFINE e == <<Event("done", NoTool)>>
    <3>1. tail \in Seq(Sent) /\ e \in Seq(Sent)
      BY <1>3, EventType, EmptySeq
    <3>2. events' = (events \o tail) \o e
      BY <2>1
    <3> HIDE DEF e
    <3>3. (events \o tail) \o e = events \o (tail \o e) /\ tail \o e \in Seq(Sent)
      BY <1>1, <3>1, ThreePieces
    <3> QED BY <3>2, <3>3 DEF Grows
  <2> QED BY <2>2, <2>5, <2>6 DEF StreamInv
<1>6. CASE ModelFails \/ OutOfSteps
  <2>1. pc' = "failed" /\ events' = events \o <<Event("error", NoTool)>>
    BY <1>2, <1>3, <1>6, EventType DEF ModelFails, OutOfSteps
  <2>2. pc \in Collecting \cup CarryingOut \cup Answering
    BY <1>6 DEF ModelFails, AsksModel, OutOfSteps, Built
  <2>3. TS!Types(events) \subseteq Quiet \cup {"answer"}
    BY <2>2 DEF StreamInv
  <2>4. TS!Follows(events, Event("error", NoTool))
    BY <2>3 DEF TS!Follows, Event, Quiet
  <2>5. TS!WellFormed(events') /\ TS!Types(events') = TS!Types(events) \cup {"error"}
    BY <1>1, <1>3, <2>1, <2>4, PlainEvent
  <2>6. "error" \in TS!Types(events') /\ "done" \notin TS!Types(events')
    BY <2>3, <2>5 DEF Quiet
  <2>7. Grows(events, events')
    BY <1>3, <2>1, EventType DEF Grows
  <2> QED BY <2>1, <2>5, <2>6, <2>7 DEF StreamInv
<1>7. CASE CloseFailed
  <2>1. pc = "failed" /\ pc' = "closed" /\ events' = events \o <<Event("done", NoTool)>>
    BY <1>2, <1>3, <1>7, EventType DEF CloseFailed
  <2>2. TS!Follows(events, Event("done", NoTool))
    BY <2>1 DEF TS!Follows, Event, StreamInv
  <2>3. TS!WellFormed(events')
    BY <1>1, <1>3, <2>1, <2>2, PlainEvent
  <2>4. Grows(events, events')
    BY <1>3, <2>1, EventType DEF Grows
  <2> QED BY <2>1, <2>3, <2>4 DEF StreamInv
<1> QED BY <1>4, <1>5, <1>6, <1>7

\* Everything else sends nothing and goes forward in the graph.
LEMMA QuietStream ==
  ASSUME StreamInv, FastRoute \/ Finalize \/ Ground \/ Suggest \/ UNCHANGED vars
  PROVE  StreamInv' /\ events' = events
<1> USE DEF Collecting, CarryingOut, Answering
<1>1. CASE FastRoute
  <2>1. pc = "fast_router" /\ pc' \in {"finalizer", "planner", "supervisor"} /\ events' = events
    BY <1>1 DEF FastRoute, Run, DiagnosticEntry
  <2> QED BY <2>1 DEF StreamInv
<1>2. CASE Finalize \/ Ground \/ Suggest
  <2>1. pc \in Answering /\ pc' \in Answering /\ events' = events
    BY <1>2 DEF Finalize, AfterFinalizer, Ground, AfterGrounding, Suggest, Run
  <2> QED BY <2>1 DEF StreamInv
<1>3. CASE UNCHANGED vars
  BY <1>3 DEF vars, graph, StreamInv
<1> QED BY <1>1, <1>2, <1>3

LEMMA NextStream ==
  ASSUME StreamInv, ShapeInv, RepliesInv, [Next]_vars
  PROVE  StreamInv' /\ (Grows(events, events') \/ events' = events)
BY ToolNodeStream, SpeakStream, EndStream, QuietStream DEF Next

\* Every turn sends its client a stream in the order that events.py and
\* docs/sse-events.md promise, whatever the model says and wherever it fails.
THEOREM StreamAlwaysAsPromised == Spec => ImplementsStream
<1>1. Init => TS!Init
  BY DEF Init, TS!Init
<1>2. StreamInv /\ ShapeInv /\ RepliesInv /\ [Next]_vars => StreamInv' /\ [TS!Emit]_events
  <2> SUFFICES ASSUME StreamInv, ShapeInv, RepliesInv, [Next]_vars
               PROVE  StreamInv' /\ [TS!Emit]_events
    OBVIOUS
  <2>1. StreamInv' /\ (Grows(events, events') \/ events' = events)
    BY NextStream
  <2>2. ASSUME events' # events PROVE TS!Emit
    BY <2>1, <2>2, GrowthIsPrefix DEF TS!Emit, StreamInv, ShapeInv
  <2> QED BY <2>1, <2>2
<1> QED BY <1>1, <1>2, InitStream, InitShape, InitReplies, NextShape, NextReplies, PTL
        DEF Spec, ImplementsStream, TS!Spec

=============================================================================
