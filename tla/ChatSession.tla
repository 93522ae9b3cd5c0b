----------------------------- MODULE ChatSession -----------------------------
(***************************************************************************)
(* Chat sessions (chat/service.py): stream_chat from the question to the   *)
(* stored answer, run concurrently for several turns of one session, with  *)
(* the locked build of the agent graph (agent/runner.py), soft deletion    *)
(* and the history queries.  run_query consumes the same stream.           *)
(*                                                                         *)
(* Each step is one statement or commit of a turn.  created_at is the      *)
(* start of a row's transaction (func.now()): `clock' counts transaction   *)
(* starts, and no two turns start one in the same microsecond.  What the   *)
(* graph streams is AgentTurn; here a stream ends with or without an error.*)
(* A turn that is cut off anywhere (client gone, task cancelled, failed    *)
(* statement) is Abort.                                                    *)
(***************************************************************************)
EXTENDS Integers, FiniteSets

CONSTANTS
  Session,   \* session ids the clients choose
  User,
  Turn,      \* requests of /chat/stream and /chat/query
  session,   \* [Turn -> Session], a parameter of the request
  user,      \* [Turn -> User], who is logged in
  N          \* agent_history_max_messages

NoUser == "no user"
NoTurn == "no turn"

ASSUME ChatAssumption ==
  /\ session \in [Turn -> Session] /\ user \in [Turn -> User]
  /\ N \in Nat \ {0} /\ NoUser \notin User /\ NoTurn \notin Turn

VARIABLES
  owner,     \* chat_session: [Session -> User \cup {NoUser}], user_sub
  deleted,   \* sessions with deleted_at
  messages,  \* chat_message: the committed rows
  clock,     \* transactions started so far
  pc,        \* [Turn -> what stream_chat does next]
  began,     \* [Turn -> start of its current transaction]
  history,   \* [Turn -> the messages its model is given]
  known,     \* history: [Turn -> the messages stored when it was asked]
  builder,   \* the turn that holds _lock while it builds the graph
  builds     \* graphs built since the process started

store == <<owner, deleted, messages>>
turn == <<pc, began, history, known>>
graph == <<builder, builds>>
vars == <<store, clock, turn, graph>>

Message == [turn : Turn, session : Session, role : {"user", "assistant"}, at : Nat]

Running == {"creating", "reloading", "loading", "asking", "graph", "building",
            "streaming", "committing"}

Init ==
  /\ owner = [s \in Session |-> NoUser] /\ deleted = {} /\ messages = {}
  /\ clock = 0
  /\ pc = [t \in Turn |-> "idle"]
  /\ began = [t \in Turn |-> 0]
  /\ history = [t \in Turn |-> {}] /\ known = [t \in Turn |-> {}]
  /\ builder = NoTurn /\ builds = 0

Of(s) == {m \in messages : m.session = s}

Goto(t, from, to) == pc[t] = from /\ pc' = [pc EXCEPT ![t] = to]

\* Turns end; what they had read goes with them.
End(ts) ==
  /\ pc' = [t \in Turn |-> IF t \in ts THEN "ended" ELSE pc[t]]
  /\ began' = [t \in Turn |-> IF t \in ts THEN 0 ELSE began[t]]
  /\ history' = [t \in Turn |-> IF t \in ts THEN {} ELSE history[t]]
  /\ known' = [t \in Turn |-> IF t \in ts THEN {} ELSE known[t]]

BeginTransaction(t) ==
  clock' = clock + 1 /\ began' = [began EXCEPT ![t] = clock + 1]

-----------------------------------------------------------------------------
(* The question.                                                           *)

\* _ensure_session looks the session up, whoever owns it.
Check(t) ==
  /\ pc[t] = "idle"
  /\ pc' = [pc EXCEPT ![t] = IF owner[session[t]] = NoUser THEN "creating" ELSE "loading"]
  /\ BeginTransaction(t)
  /\ known' = [known EXCEPT ![t] = Of(session[t])]
  /\ UNCHANGED <<store, history, graph>>

\* Mutant of Create: the insert overwrites a session that appeared meanwhile.
CreateOver(t) ==
  /\ Goto(t, "creating", "reloading")
  /\ owner' = [owner EXCEPT ![session[t]] = user[t]]
  /\ UNCHANGED <<deleted, messages, clock, began, history, known, graph>>

\* It inserts what it did not find, and commits; the primary key refuses a
\* session another turn inserted meanwhile, and the request fails.
Create(t) ==
  \/ /\ owner[session[t]] = NoUser
     /\ Goto(t, "creating", "reloading")
     /\ owner' = [owner EXCEPT ![session[t]] = user[t]]
     /\ UNCHANGED <<deleted, messages, clock, began, history, known, graph>>
  \/ /\ owner[session[t]] # NoUser /\ pc[t] = "creating"
     /\ End({t})
     /\ UNCHANGED <<store, clock, graph>>

\* Mutant of Newest: ordered by created_at ascending.
Oldest(ms) == {m \in ms : Cardinality({k \in ms : k.at < m.at}) < N}

Newest(ms) == {m \in ms : Cardinality({k \in ms : k.at > m.at}) < N}

\* _load_history, in the transaction of the look-up if the session existed.
LoadHistory(t) ==
  /\ \/ Goto(t, "loading", "asking") /\ UNCHANGED <<clock, began>>
     \/ Goto(t, "reloading", "asking") /\ BeginTransaction(t)
  /\ history' = [history EXCEPT ![t] = Newest(Of(session[t]))]
  /\ UNCHANGED <<store, known, graph>>

Said(t, role) == [turn |-> t, session |-> session[t], role |-> role, at |-> began[t]]

StoreQuestion(t) ==
  /\ Goto(t, "asking", "graph")
  /\ messages' = messages \cup {Said(t, "user")}
  /\ UNCHANGED <<owner, deleted, clock, began, history, known, graph>>

-----------------------------------------------------------------------------
(* get_graph: built by the first turn that gets the lock, then shared.     *)

LockGraph(t) ==
  /\ builder = NoTurn
  /\ Goto(t, "graph", IF builds > 0 THEN "streaming" ELSE "building")
  /\ builder' = IF builds > 0 THEN NoTurn ELSE t
  /\ UNCHANGED <<store, clock, began, history, known, builds>>

BuildGraph(t) ==
  /\ Goto(t, "building", "streaming")
  /\ builds' = builds + 1 /\ builder' = NoTurn
  /\ UNCHANGED <<store, clock, began, history, known>>

-----------------------------------------------------------------------------
(* The answer.                                                             *)

\* After an error event nothing is stored.
StreamError(t) ==
  /\ pc[t] = "streaming" /\ End({t})
  /\ UNCHANGED <<store, clock, graph>>

\* All events were taken, and a second transaction begins.
StreamDone(t) ==
  /\ Goto(t, "streaming", "committing")
  /\ BeginTransaction(t)
  /\ UNCHANGED <<store, history, known, graph>>

StoreAnswer(t) ==
  /\ pc[t] = "committing" /\ End({t})
  /\ messages' = messages \cup {Said(t, "assistant")}
  /\ UNCHANGED <<owner, deleted, clock, graph>>

\* Mutant of Unlocked: a turn that is cut off while it builds keeps the lock.
UnlockedNever(ts) == builder

\* Leaving `async with _lock' releases it, also by an exception.
Unlocked(ts) == IF builder \in ts THEN NoTurn ELSE builder

Abort(t) ==
  /\ pc[t] \in Running /\ End({t})
  /\ builder' = Unlocked({t})
  /\ UNCHANGED <<store, clock, builds>>

\* The API process restarts; its graph is gone.
Crash ==
  LET running == {t \in Turn : pc[t] \in Running}
  IN /\ builds > 0 \/ running # {}
     /\ End(running)
     /\ builder' = NoTurn /\ builds' = 0
     /\ UNCHANGED <<store, clock>>

-----------------------------------------------------------------------------
(* The conversation history of a user.                                     *)

Visible(s, u) == owner[s] = u /\ s \notin deleted

\* delete_session: a soft delete; turns in flight go on.
Delete(s, u) ==
  /\ Visible(s, u)
  /\ deleted' = deleted \cup {s}
  /\ UNCHANGED <<owner, messages, clock, turn, graph>>

\* get_session_detail: 404 or the messages in the order of their times.
Detail(s, u) == IF Visible(s, u) THEN Of(s) ELSE {}

First(ms) == {m \in ms : m.role = "user" /\ \A k \in ms : k.role = "user" => m.at <= k.at}

\* list_sessions below HISTORY_LIST_LIMIT: the number of messages, and the
\* question its title is made of (DEFAULT_TITLE if none).
Listed(u) ==
  {[session |-> s, count |-> Cardinality(Of(s)), title |-> First(Of(s))] :
     s \in {r \in Session : Visible(r, u)}}

-----------------------------------------------------------------------------
Next ==
  \/ \E t \in Turn :
       \/ Check(t) \/ Create(t) \/ LoadHistory(t) \/ StoreQuestion(t)
       \/ LockGraph(t) \/ BuildGraph(t)
       \/ StreamError(t) \/ StreamDone(t) \/ StoreAnswer(t)
       \/ Abort(t)
  \/ \E s \in Session, u \in User : Delete(s, u)
  \/ Crash

Spec == Init /\ [][Next]_vars

\* The event loop runs every turn on, every build and every stream ends
\* (AgentTurn.Terminates), and asyncio.Lock admits its waiters.
Fairness ==
  \A t \in Turn :
    /\ WF_vars(Create(t)) /\ WF_vars(LoadHistory(t)) /\ WF_vars(StoreQuestion(t))
    /\ WF_vars(LockGraph(t)) /\ WF_vars(BuildGraph(t))
    /\ WF_vars(StreamDone(t) \/ StreamError(t)) /\ WF_vars(StoreAnswer(t))

FairSpec == Spec /\ Fairness

-----------------------------------------------------------------------------
TypeOK ==
  /\ owner \in [Session -> User \cup {NoUser}]
  /\ deleted \subseteq Session
  /\ messages \subseteq Message
  /\ clock \in Nat
  /\ pc \in [Turn -> {"idle", "ended"} \cup Running]
  /\ began \in [Turn -> Nat]
  /\ history \in [Turn -> SUBSET Message] /\ known \in [Turn -> SUBSET Message]
  /\ builder \in Turn \cup {NoTurn}
  /\ builds \in Nat

Stored(role) ==
  {[turn |-> m.turn, session |-> m.session, at |-> m.at] :
     m \in {k \in messages : k.role = role}}

C == INSTANCE Conversation
       WITH asked <- Stored("user"), answered <- Stored("assistant")

\* Over every race of first questions, every disconnect, crash and deletion
\* the tables hold a conversation: sessions keep the owner who came first,
\* and every answer belongs to one stored question (stream_chat, ChatMessage).
ImplementsConversation == C!Spec

\* A model is given what stood in the conversation when its question was
\* asked, unless N newer messages took its place (_load_history).
FollowUpSeesAnswer ==
  \A t \in Turn :
    pc[t] \in {"asking", "graph", "building", "streaming", "committing"} =>
      \A m \in known[t] \ history[t] :
        Cardinality({k \in history[t] : k.at > m.at}) >= N

\* The graph is built at most once per process, however many first questions
\* arrive together and however many of them are cut off (get_graph).
BuiltOnce == builds <= 1

\* The list shows exactly the sessions that open, and for each the number of
\* messages and the first question the detail shows.
ListMatchesDetail ==
  \A u \in User, s \in Session :
    IF Visible(s, u)
    THEN [session |-> s, count |-> Cardinality(Detail(s, u)), title |-> First(Detail(s, u))]
           \in Listed(u)
    ELSE \A l \in Listed(u) : l.session # s

\* What a user finds in a session and what the process keeps for it fit
\* together, however turns of one session overlap and are cut off.
ChatSound == FollowUpSeesAnswer /\ BuiltOnce /\ ListMatchesDetail

\* A stored question is answered, or its turn ended with an error or was cut
\* off: no turn hangs, in particular not on the lock of the graph.
TurnSettles ==
  \A t \in Turn : pc[t] \in Running ~> pc[t] = "ended"

=============================================================================
