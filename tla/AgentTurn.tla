------------------------------ MODULE AgentTurn ------------------------------
(***************************************************************************)
(* One chat turn: the agent graph (agent/supervisor/graph.py and its       *)
(* nodes) driven by stream_agent_events, which turns what the nodes        *)
(* produce into the client's event stream.                                 *)
(*                                                                         *)
(* The language model decides freely what it says, which tools it calls    *)
(* and where the supervisor routes.  Of a message only its author and its  *)
(* tool calls matter, of a call its signature (tool and arguments); of the *)
(* answer only that pieces of it are sent.  A node is one step: its result *)
(* reaches the state and the stream only when it returns.                  *)
(***************************************************************************)
EXTENDS Integers, Sequences, FiniteSets, SequencesExt

CONSTANTS
  Worker,          \* the workers of the registry, one per MCP server
  Sig,             \* tool-call signatures the model may produce
  Served,          \* [Worker -> SUBSET Sig]: the calls its server's tools take
  RoundsMax,       \* agent_fetch_rounds_max
  MaxSteps,        \* agent_max_steps
  RecursionLimit,  \* RECURSION_LIMIT
  Builds,          \* the configurations considered
  MaxCalls,        \* bound: tool calls in one message
  MaxPieces        \* bound: pieces of an answer

Config ==
  [orchestrator : BOOLEAN, fastRouter : BOOLEAN, grounding : BOOLEAN,
   suggestions : BOOLEAN, loaded : SUBSET Worker]

ASSUME AgentAssumption ==
  /\ Builds \subseteq Config
  /\ Served \in [Worker -> SUBSET Sig]
  /\ RoundsMax \in Nat /\ MaxSteps \in Nat /\ RecursionLimit \in Nat
  /\ MaxCalls \in Nat /\ MaxPieces \in Nat

VARIABLES
  config,       \* the settings the graph was built with and the tools it found
  pc,           \* the node to run next, or a state of the stream after the graph
  next,         \* state["next"]: the worker in charge, or FINISH
  visits,       \* nodes run so far (supersteps)
  messages,     \* messages of this turn: [from, calls, replies]
  stepCount,    \* step_count
  toolHistory,  \* signatures in tool_history
  rounds,       \* history: [Sig -> Nat], in how many nodes it ran
  events        \* events sent to the client

graph == <<next, visits, messages, stepCount, toolHistory, rounds>>
vars == <<config, pc, graph, events>>

\* The nodes of the compiled graph; "agent" and "tools" stand for the pair of
\* nodes of the worker in charge.
Built(c) ==
  {"finalizer"}
    \cup (IF c.fastRouter THEN {"fast_router"} ELSE {})
    \cup (IF c.orchestrator THEN {"planner", "fetch"} ELSE {"supervisor", "agent", "tools"})
    \cup (IF c.grounding THEN {"grounding"} ELSE {})
    \cup (IF c.suggestions THEN {"suggest"} ELSE {})

\* The nodes are through, the stream is failing, or it has ended.
Ending == {"end", "failed", "closed"}

FINISH == "FINISH"

Registered(w) == IF w \in config.loaded THEN Served[w] ELSE {}
AllRegistered == UNION {Registered(w) : w \in Worker}

DiagnosticEntry(c) == IF c.orchestrator THEN "planner" ELSE "supervisor"

\* build_agent_graph: entry point, and the tail after the finalizer.
Entry(c) == IF c.fastRouter THEN "fast_router" ELSE DiagnosticEntry(c)
AfterFinalizer ==
  IF config.grounding THEN "grounding" ELSE IF config.suggestions THEN "suggest" ELSE "end"

AfterGrounding == IF config.suggestions THEN "suggest" ELSE "end"

\* load_tools_by_server leaves out a server that was down when the graph was
\* built, for as long as the process keeps the graph.
Init ==
  /\ config \in Builds
  /\ pc = Entry(config) /\ next = ""
  /\ visits = 0 /\ messages = <<>> /\ stepCount = 0 /\ toolHistory = {}
  /\ rounds = [s \in Sig |-> 0]
  /\ events = <<>>

-----------------------------------------------------------------------------

Event(type, tool) == [type |-> type, tool |-> tool]
NoTool == "no tool"
Each(type, calls) == [i \in DOMAIN calls |-> Event(type, calls[i])]
Thought == <<Event("thought", NoTool)>>

\* A model calls tools, even ones that do not exist, only if it was given some.
Calls(tools) == IF tools = {} THEN {<<>>} ELSE UNION {[1..n -> Sig] : n \in 0..MaxCalls}

\* A node runs while the recursion limit allows another superstep.
Run(node) ==
  /\ pc = node
  /\ visits < RecursionLimit
  /\ visits' = visits + 1
  /\ UNCHANGED config

Say(from, calls) == messages' = Append(messages, [from |-> from, calls |-> calls, replies |-> <<>>])

\* Direct questions skip the collection of data.
FastRoute ==
  /\ Run("fast_router")
  /\ pc' \in {"finalizer", DiagnosticEntry(config)}
  /\ UNCHANGED <<next, messages, stepCount, toolHistory, rounds, events>>

\* Mutant of AfterPlanner: the budget is looked at before the calls.
AfterPlannerBudget(calls) ==
  IF stepCount + 1 >= RoundsMax THEN "finalizer" ELSE IF calls = <<>> THEN "finalizer" ELSE "fetch"

\* route_after_planner
AfterPlanner(calls) == IF calls = <<>> THEN "finalizer" ELSE "fetch"

PlannerMayAsk == stepCount < RoundsMax

\* planner_node asks the model; content without calls and calls without
\* content both occur.
Plan ==
  /\ Run("planner")
  /\ PlannerMayAsk
  /\ \E calls \in Calls(AllRegistered), thought \in BOOLEAN :
       /\ Say("planner", calls)
       /\ pc' = AfterPlanner(calls)
       /\ events' = events \o (IF thought THEN Thought ELSE <<>>) \o Each("action", calls)
  /\ stepCount' = stepCount + 1
  /\ UNCHANGED <<next, toolHistory, rounds>>

\* planner_node with its budget used up: no model, a message of its own.
PlanExhausted ==
  /\ Run("planner")
  /\ ~PlannerMayAsk
  /\ Say("planner", <<>>)
  /\ pc' = AfterPlanner(<<>>)
  /\ events' = events \o Thought
  /\ stepCount' = stepCount + 1
  /\ UNCHANGED <<next, toolHistory, rounds>>

Times(s, calls) == Cardinality({i \in DOMAIN calls : calls[i] = s})

\* _run_call: all calls of a round see the history of the rounds before.
FetchRuns(s, calls) ==
  IF s \in AllRegistered /\ s \notin toolHistory THEN Times(s, calls) ELSE 0

\* tool_node of a worker: a call repeated in the same message is blocked too.
WorkerRuns(w, s, calls) ==
  IF s \in Registered(w) /\ s \notin toolHistory /\ Times(s, calls) > 0 THEN 1 ELSE 0

\* Mutant of Replies: a blocked call gets no reply.
RepliesToNew(calls) == SelectSeq(calls, LAMBDA s : s \notin toolHistory)

\* Every call gets one tool message, whether it ran, failed, was blocked or
\* names no tool.
Replies(calls) == calls

\* What a tool node does with the calls of the last message; runs[s] is how
\* often it runs s.
Observe(runs) ==
  LET calls == Last(messages).calls IN
    /\ messages' = [messages EXCEPT ![Len(messages)].replies = Replies(calls)]
    /\ toolHistory' = toolHistory \cup ToSet(calls)
    /\ rounds' = [s \in Sig |-> rounds[s] + (IF runs[s] > 0 THEN 1 ELSE 0)]
    /\ events' = events \o Each("observation", Replies(calls))
    /\ UNCHANGED <<next, stepCount>>

Fetch ==
  /\ Run("fetch")
  /\ pc' = "planner"
  /\ Observe([s \in Sig |-> FetchRuns(s, Last(messages).calls)])

-----------------------------------------------------------------------------
(* The legacy path: a supervisor that delegates to workers.                *)

\* The model's route, or the fallback when it gives none; none is asked for
\* once the budget is used up.  Only the model can leave the reason empty.
Routes == IF stepCount >= MaxSteps THEN {FINISH} ELSE Worker \cup {FINISH}

Supervise ==
  /\ Run("supervisor")
  /\ next' \in Routes
  /\ pc' = IF next' = FINISH THEN "finalizer" ELSE "agent"
  /\ stepCount' = stepCount + 1
  /\ events' \in {events \o Thought} \cup (IF stepCount < MaxSteps THEN {events} ELSE {})
  /\ UNCHANGED <<messages, toolHistory, rounds>>

\* agent_node and route_after_agent of the worker in charge
Work ==
  /\ Run("agent")
  /\ \E calls \in Calls(Registered(next)) :
       /\ Say(next, calls)
       /\ pc' = IF calls = <<>> THEN "supervisor" ELSE "tools"
       /\ events' = events \o Each("action", calls)
  /\ UNCHANGED <<next, stepCount, toolHistory, rounds>>

WorkTools ==
  /\ Run("tools")
  /\ pc' = "agent"
  /\ Observe([s \in Sig |-> WorkerRuns(next, s, Last(messages).calls)])

-----------------------------------------------------------------------------
(* The common tail, and how the stream ends.                               *)

Pieces == Cardinality({i \in DOMAIN events : events[i].type = "answer"})

\* A piece of the answer leaves while the finalizer is still running.
AnswerPiece ==
  /\ pc = "finalizer" /\ visits < RecursionLimit
  /\ Pieces < MaxPieces
  /\ events' = Append(events, Event("answer", NoTool))
  /\ UNCHANGED <<config, pc, graph>>

Finalize ==
  /\ Run("finalizer")
  /\ Say("finalizer", <<>>)
  /\ pc' = AfterFinalizer
  /\ UNCHANGED <<next, stepCount, toolHistory, rounds, events>>

\* Grounding and suggestions isolate their own failures and send nothing.
Ground ==
  /\ Run("grounding")
  /\ pc' = AfterGrounding
  /\ UNCHANGED <<next, messages, stepCount, toolHistory, rounds, events>>

Suggest ==
  /\ Run("suggest")
  /\ pc' = "end"
  /\ UNCHANGED <<next, messages, stepCount, toolHistory, rounds, events>>

\* The rest the table normalizer held back, then done.
Finish ==
  /\ pc = "end"
  /\ pc' = "closed"
  /\ \E tail \in {<<>>, <<Event("answer", NoTool)>>} :
       /\ Pieces + Len(tail) <= MaxPieces
       /\ events' = events \o tail \o <<Event("done", NoTool)>>
  /\ UNCHANGED <<config, graph>>

\* Nodes whose model call is not caught; the planner asks within its budget.
AsksModel == pc \in {"planner", "agent", "finalizer"} /\ (pc = "planner" => PlannerMayAsk)

ModelFails ==
  /\ AsksModel /\ visits < RecursionLimit
  /\ pc' = "failed"
  /\ events' = Append(events, Event("error", NoTool))
  /\ UNCHANGED <<config, graph>>

\* GraphRecursionError.  Whether the library counts the step that finds
\* nothing left to run is left open.
OutOfSteps ==
  /\ pc \in Built(config) \cup {"end"} /\ visits = RecursionLimit
  /\ pc' = "failed"
  /\ events' = Append(events, Event("error", NoTool))
  /\ UNCHANGED <<config, graph>>

\* Mutant of CloseFailed: done is sent inside the try only.
CloseFailedNever == FALSE /\ UNCHANGED vars

CloseFailed ==
  /\ pc = "failed"
  /\ pc' = "closed"
  /\ events' = Append(events, Event("done", NoTool))
  /\ UNCHANGED <<config, graph>>

-----------------------------------------------------------------------------

Next ==
  \/ FastRoute \/ Plan \/ PlanExhausted \/ Fetch
  \/ Supervise \/ Work \/ WorkTools
  \/ AnswerPiece \/ Finalize \/ Ground \/ Suggest \/ Finish
  \/ ModelFails \/ OutOfSteps \/ CloseFailed

Spec == Init /\ [][Next]_vars

\* Every model and tool call the turn awaits returns or fails, and the client
\* stays: one that leaves closes the generator where it stands.
FairSpec == Spec /\ WF_vars(Next)

-----------------------------------------------------------------------------

\* Types, and the wiring of the graph: the next node is one that was built.
TypeOK ==
  /\ config \in Config
  /\ pc \in Built(config) \cup Ending
  /\ next \in Worker \cup {FINISH, ""}
  /\ visits \in 0..RecursionLimit /\ stepCount \in Nat
  /\ toolHistory \subseteq Sig
  /\ rounds \in [Sig -> Nat]
  /\ \A i \in DOMAIN messages :
       messages[i].calls \in Seq(Sig) /\ messages[i].replies \in Seq(Sig)
  /\ \A i \in DOMAIN events : events[i].tool \in Sig \cup {NoTool}

\* Whenever a model is about to read the conversation, every tool call in it
\* has been answered, one reply per call in the order of the calls; the model's
\* API refuses the conversation otherwise (fetch_node, tool_node, the routes).
ToolReplies ==
  pc \in {"planner", "supervisor", "agent", "finalizer", "suggest"} =>
    \A i \in DOMAIN messages : messages[i].replies = messages[i].calls

\* The same call is not carried out in two rounds, however often the model
\* asks again and whichever worker it asks from (tool_history).
OncePerRound == \A s \in Sig : rounds[s] <= 1

\* The budget of fetch rounds alone ends an orchestrated turn: with a recursion
\* limit above the nodes of the longest one, the limit is never reached.
WithinBudget ==
  config.orchestrator /\ RecursionLimit > 2 * RoundsMax + 5 => visits < RecursionLimit

\* A turn stays within its rules whatever the model answers: complete replies,
\* no call in two rounds, and an end by its budget (orchestrator.py:54-130,
\* workers/base.py:60-110).
TurnSound == ToolReplies /\ OncePerRound /\ WithinBudget

TS == INSTANCE TurnStream WITH events <- events

\* The client sees a well-formed stream at every moment (events.py: thought,
\* action, observation, repeated, then answer, then done; error, then done).
ImplementsStream == TS!Spec

\* Every turn ends its stream with done, failures included.
Terminates == <>(pc = "closed" /\ Last(events).type = "done")

=============================================================================
