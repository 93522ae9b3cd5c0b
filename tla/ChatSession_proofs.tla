------------------------- MODULE ChatSession_proofs -------------------------
(* Proofs about chat sessions, for every set of sessions, users and turns, *)
(* every assignment of requests to sessions, and every window N.           *)
EXTENDS ChatSession, FiniteSetTheorems, WellFoundedInduction, TLAPS

-----------------------------------------------------------------------------
(* Type correctness.                                                       *)

EndTypes ==
  /\ pc' \in [Turn -> {"idle", "ended"} \cup Running]
  /\ began' \in [Turn -> Nat]
  /\ history' \in [Turn -> SUBSET Message] /\ known' \in [Turn -> SUBSET Message]

LEMMA EndType == ASSUME TypeOK, NEW ts, End(ts) PROVE EndTypes
BY DEF TypeOK, End, EndTypes

LEMMA SaidType ==
  ASSUME TypeOK, NEW t \in Turn, NEW role \in {"user", "assistant"}
  PROVE  Said(t, role) \in Message
BY ChatAssumption DEF TypeOK, Said, Message

LEMMA InitTypes == Init => TypeOK
BY ChatAssumption DEF Init, TypeOK

LEMMA NextTypes == TypeOK /\ [Next]_vars => TypeOK'
<1> SUFFICES ASSUME TypeOK, [Next]_vars PROVE TypeOK'
  OBVIOUS
<1> USE ChatAssumption
<1>1. ASSUME NEW t \in Turn, Check(t) PROVE TypeOK'
  <2>1. Of(session[t]) \in SUBSET Message
    BY DEF Of, TypeOK
  <2>2. QED
    BY <1>1, <2>1 DEF Check, BeginTransaction, TypeOK, Running, store, graph
<1>2. ASSUME NEW t \in Turn, Create(t) PROVE TypeOK'
  <2>1. CASE End({t}) /\ UNCHANGED <<store, clock, graph>>
    BY <2>1, EndType DEF EndTypes, TypeOK, store, graph
  <2>2. CASE Goto(t, "creating", "reloading") /\ owner' = [owner EXCEPT ![session[t]] = user[t]]
             /\ UNCHANGED <<deleted, messages, clock, began, history, known, graph>>
    BY <2>2 DEF Goto, TypeOK, Running, graph
  <2>3. QED
    BY <1>2, <2>1, <2>2 DEF Create
<1>3. ASSUME NEW t \in Turn, LoadHistory(t) PROVE TypeOK'
  <2>1. Newest(Of(session[t])) \in SUBSET Message
    BY DEF Of, Newest, TypeOK
  <2>2. QED
    BY <1>3, <2>1 DEF LoadHistory, Goto, BeginTransaction, TypeOK, Running, store, graph
<1>4. ASSUME NEW t \in Turn, StoreQuestion(t) PROVE TypeOK'
  BY <1>4, SaidType DEF StoreQuestion, Goto, TypeOK, Running, graph
<1>5. ASSUME NEW t \in Turn, LockGraph(t) PROVE TypeOK'
  BY <1>5 DEF LockGraph, Goto, TypeOK, Running, store
<1>6. ASSUME NEW t \in Turn, BuildGraph(t) PROVE TypeOK'
  BY <1>6 DEF BuildGraph, Goto, TypeOK, Running, store
<1>7. ASSUME NEW t \in Turn, StreamError(t) PROVE TypeOK'
  BY <1>7, EndType DEF StreamError, EndTypes, TypeOK, store, graph
<1>8. ASSUME NEW t \in Turn, StreamDone(t) PROVE TypeOK'
  BY <1>8 DEF StreamDone, Goto, BeginTransaction, TypeOK, Running, store, graph
<1>9. ASSUME NEW t \in Turn, StoreAnswer(t) PROVE TypeOK'
  BY <1>9, EndType, SaidType DEF StoreAnswer, EndTypes, TypeOK, graph
<1>10. ASSUME NEW t \in Turn, Abort(t) PROVE TypeOK'
  BY <1>10, EndType DEF Abort, Unlocked, EndTypes, TypeOK, store
<1>11. ASSUME NEW s \in Session, NEW u \in User, Delete(s, u) PROVE TypeOK'
  BY <1>11 DEF Delete, TypeOK, turn, graph
<1>12. CASE Crash
  BY <1>12, EndType DEF Crash, EndTypes, TypeOK, store
<1>13. CASE UNCHANGED vars
  BY <1>13 DEF vars, store, turn, graph, TypeOK
<1>14. QED
  BY <1>1, <1>2, <1>3, <1>4, <1>5, <1>6, <1>7, <1>8, <1>9, <1>10, <1>11, <1>12, <1>13 DEF Next

\* Every variable of the chat module keeps its type (chat/service.py).
THEOREM ChatTypes == Spec => []TypeOK
BY InitTypes, NextTypes, PTL DEF Spec

-----------------------------------------------------------------------------
(* The graph.                                                              *)

\* The lock is held by the one turn that builds, and there is no graph then.
LockInv ==
  /\ builds <= 1
  /\ builder # NoTurn => builds = 0
  /\ \A t \in Turn : pc[t] = "building" => builder = t

LEMMA NextLock == TypeOK /\ LockInv /\ [Next]_vars => LockInv'
<1> SUFFICES ASSUME TypeOK, LockInv, [Next]_vars PROVE LockInv'
  OBVIOUS
<1> USE ChatAssumption
<1>1. ASSUME UNCHANGED graph, \A t \in Turn : pc'[t] = "building" => pc[t] = "building"
      PROVE  LockInv'
  BY <1>1 DEF LockInv, graph
<1>2. ASSUME NEW t \in Turn, \/ Check(t) \/ Create(t) \/ LoadHistory(t) \/ StoreQuestion(t)
                             \/ StreamError(t) \/ StreamDone(t) \/ StoreAnswer(t)
      PROVE  LockInv'
  <2>1. UNCHANGED graph
    BY <1>2 DEF Check, Create, LoadHistory, StoreQuestion, StreamError, StreamDone, StoreAnswer
  <2>2. \A r \in Turn : pc'[r] = "building" => pc[r] = "building"
    BY <1>2 DEF Check, Create, LoadHistory, StoreQuestion, StreamError, StreamDone, StoreAnswer,
                Goto, End, TypeOK
  <2>3. QED
    BY <1>1, <2>1, <2>2
<1>3. ASSUME NEW t \in Turn, LockGraph(t) PROVE LockInv'
  BY <1>3 DEF LockGraph, Goto, LockInv, TypeOK
<1>4. ASSUME NEW t \in Turn, BuildGraph(t) PROVE LockInv'
  <2>1. builder = t /\ builds = 0
    BY <1>4 DEF BuildGraph, Goto, LockInv
  <2>2. \A r \in Turn : pc'[r] # "building"
    BY <1>4, <2>1 DEF BuildGraph, Goto, LockInv, TypeOK
  <2>3. QED
    BY <1>4, <2>1, <2>2 DEF BuildGraph, LockInv
<1>5. ASSUME NEW t \in Turn, Abort(t) PROVE LockInv'
  BY <1>5 DEF Abort, End, Unlocked, LockInv
<1>6. ASSUME NEW s \in Session, NEW u \in User, Delete(s, u) PROVE LockInv'
  BY <1>1, <1>6 DEF Delete, turn
<1>7. CASE Crash
  BY <1>7 DEF Crash, End, Running, LockInv
<1>8. CASE UNCHANGED vars
  BY <1>1, <1>8 DEF vars, turn
<1>9. QED
  BY <1>2, <1>3, <1>4, <1>5, <1>6, <1>7, <1>8 DEF Next

-----------------------------------------------------------------------------
(* What the model of a turn is given.                                      *)

LEMMA LeastNatural ==
  ASSUME NEW T \in SUBSET Nat, T # {}
  PROVE  \E m \in T : \A t \in T : m <= t
<1>1. PICK m \in T : \A t \in T : <<t, m>> \notin OpToRel(<, Nat)
  BY NatLessThanWellFounded, WFMin
<1>2. \A t \in T : ~(t < m)
  BY <1>1 DEF OpToRel
<1>3. QED
  BY <1>2

\* The youngest of some messages.
LEMMA Youngest ==
  ASSUME NEW ms \in SUBSET Message, ms # {}, NEW c \in Nat, \A m \in ms : m.at <= c
  PROVE  \E x \in ms : \A m \in ms : m.at <= x.at
<1> DEFINE T == {c - m.at : m \in ms}
<1>1. \A m \in ms : m.at \in Nat
  BY DEF Message
<1>2. T \in SUBSET Nat /\ T # {}
  BY <1>1
<1>3. PICK n \in T : \A t \in T : n <= t
  BY <1>2, LeastNatural
<1>4. PICK x \in ms : n = c - x.at
  BY <1>3
<1>5. \A m \in ms : c - x.at <= c - m.at
  BY <1>3, <1>4
<1>6. QED
  BY <1>1, <1>4, <1>5

\* What the window leaves out is older than at least N that it holds.
LEMMA NewestCovers ==
  ASSUME NEW ms \in SUBSET Message, IsFiniteSet(ms),
         NEW c \in Nat, \A m \in ms : m.at <= c,
         NEW m \in ms \ Newest(ms)
  PROVE  Cardinality({k \in Newest(ms) : k.at > m.at}) >= N
<1> DEFINE Out == ms \ Newest(ms)
<1>1. \A k \in ms : k.at \in Nat
  BY DEF Message
<1>2. Out \in SUBSET Message /\ Out # {} /\ \A k \in Out : k.at <= c
  OBVIOUS
<1>3. PICK x \in Out : \A k \in Out : k.at <= x.at
  <2> HIDE DEF Out
  <2> QED BY <1>2, Youngest
<1> DEFINE Above == {k \in ms : k.at > x.at}
           Given == {k \in Newest(ms) : k.at > m.at}
<1>4. Above \subseteq Given
  <2> SUFFICES ASSUME NEW k \in Above PROVE k \in Given
    OBVIOUS
  <2>1. k \in ms /\ k.at > x.at /\ x \in ms /\ m \in Out
    BY <1>3
  <2>2. k \notin Out
    BY <1>1, <1>3, <2>1
  <2>3. k.at > m.at
    BY <1>1, <1>3, <2>1
  <2>4. QED
    BY <2>1, <2>2, <2>3
<1>5. Above \subseteq ms /\ Given \subseteq ms
  BY DEF Newest
<1>6. IsFiniteSet(Above) /\ IsFiniteSet(Given)
  BY <1>5, FS_Subset
<1>7. Cardinality(Above) \in Nat /\ Cardinality(Given) \in Nat
  BY <1>6, FS_CardinalityType
<1>8. Cardinality(Above) <= Cardinality(Given)
  <2> HIDE DEF Above, Given
  <2> QED BY <1>4, <1>6, FS_Subset
<1>9. ~(Cardinality(Above) < N)
  BY <1>3 DEF Newest
<1>10. QED
  BY <1>7, <1>8, <1>9, ChatAssumption

Loading == {"creating", "reloading", "loading"}
Loaded == {"asking", "graph", "building", "streaming", "committing"}

\* Stored messages are finitely many, and neither they nor the turns are from
\* the future.
TimeInv ==
  /\ IsFiniteSet(messages)
  /\ \A m \in messages : m.at <= clock
  /\ \A t \in Turn : began[t] <= clock

LEMMA NextTime == TypeOK /\ TimeInv /\ [Next]_vars => TimeInv'
<1> SUFFICES ASSUME TypeOK, TimeInv, [Next]_vars PROVE TimeInv'
  OBVIOUS
<1> USE ChatAssumption
<1>1. ASSUME UNCHANGED <<messages, clock>>, \A t \in Turn : began'[t] \in {0, began[t]}
      PROVE  TimeInv'
  BY <1>1 DEF TimeInv, TypeOK
<1>2. ASSUME NEW t \in Turn, UNCHANGED messages, BeginTransaction(t)
      PROVE  TimeInv'
  <2>1. \A m \in messages : m.at \in Nat
    BY DEF TypeOK, Message
  <2>2. QED
    BY <1>2, <2>1 DEF BeginTransaction, TimeInv, TypeOK
<1>3. ASSUME NEW t \in Turn, NEW role, messages' = messages \cup {Said(t, role)},
             UNCHANGED clock, \A r \in Turn : began'[r] \in {0, began[r]}
      PROVE  TimeInv'
  <2>1. IsFiniteSet(messages')
    BY <1>3, FS_AddElement DEF TimeInv
  <2>2. Said(t, role).at = began[t]
    BY DEF Said
  <2>3. QED
    BY <1>3, <2>1, <2>2 DEF TimeInv, TypeOK
<1>4. ASSUME NEW t \in Turn, Check(t) \/ StreamDone(t) PROVE TimeInv'
  BY <1>2, <1>4 DEF Check, StreamDone, store
<1>5. ASSUME NEW t \in Turn, LoadHistory(t) PROVE TimeInv'
  BY <1>1, <1>2, <1>5 DEF LoadHistory, store
<1>6. ASSUME NEW t \in Turn, StoreQuestion(t) PROVE TimeInv'
  BY <1>3, <1>6 DEF StoreQuestion
<1>7. ASSUME NEW t \in Turn, StoreAnswer(t) PROVE TimeInv'
  BY <1>3, <1>7 DEF StoreAnswer, End
<1>8. ASSUME NEW t \in Turn, Create(t) PROVE TimeInv'
  BY <1>1, <1>8 DEF Create, End, store
<1>9. ASSUME NEW t \in Turn, LockGraph(t) \/ BuildGraph(t) PROVE TimeInv'
  BY <1>1, <1>9 DEF LockGraph, BuildGraph, store
<1>10. ASSUME NEW t \in Turn, StreamError(t) \/ Abort(t) PROVE TimeInv'
  BY <1>1, <1>10 DEF StreamError, Abort, End, store
<1>11. ASSUME NEW s \in Session, NEW u \in User, Delete(s, u) PROVE TimeInv'
  BY <1>1, <1>11 DEF Delete, turn
<1>12. CASE Crash
  BY <1>1, <1>12 DEF Crash, End, store
<1>13. CASE UNCHANGED vars
  BY <1>1, <1>13 DEF vars, store, turn
<1>14. QED
  BY <1>4, <1>5, <1>6, <1>7, <1>8, <1>9, <1>10, <1>11, <1>12, <1>13 DEF Next

\* What a turn knew when it was asked stays stored until it loads its history.
WindowInv ==
  /\ \A t \in Turn : pc[t] \in Loading => known[t] \subseteq Of(session[t])
  /\ FollowUpSeesAnswer

LEMMA NextWindow == TypeOK /\ TimeInv /\ WindowInv /\ [Next]_vars => WindowInv'
<1> SUFFICES ASSUME TypeOK, TimeInv, WindowInv, [Next]_vars PROVE WindowInv'
  OBVIOUS
<1> USE ChatAssumption
<1>1. messages \subseteq messages'
  BY DEF Next, Check, Create, LoadHistory, StoreQuestion, LockGraph, BuildGraph, StreamError,
         StreamDone, StoreAnswer, Abort, Delete, Crash, vars, store
<1>2. \A s : Of(s) \subseteq Of(s)'
  BY <1>1 DEF Of
<1> DEFINE Keeps(r) ==
      /\ pc'[r] \in Loading => pc[r] \in Loading
      /\ pc'[r] \in Loaded => pc[r] \in Loaded
      /\ known'[r] = known[r] /\ history'[r] = history[r]
    Sees(r) == pc[r] \in Loaded =>
      \A m \in known[r] \ history[r] : Cardinality({k \in history[r] : k.at > m.at}) >= N
<1>3. \A r \in Turn : Sees(r)
  BY DEF WindowInv, FollowUpSeesAnswer, Loaded
<1>4. (\A r \in Turn : Sees(r)') => FollowUpSeesAnswer'
  BY DEF FollowUpSeesAnswer, Loaded
<1>5. ASSUME NEW r \in Turn, Keeps(r)
      PROVE  Sees(r)' /\ (pc'[r] \in Loading => known'[r] \subseteq Of(session[r])')
  <2>1. Sees(r)'
    BY <1>3, <1>5
  <2>2. pc'[r] \in Loading => known'[r] \subseteq Of(session[r])'
    BY <1>2, <1>5 DEF WindowInv
  <2>3. QED
    BY <2>1, <2>2
<1>6. ASSUME NEW r \in Turn, pc'[r] \notin Loading \cup Loaded
      PROVE  Sees(r)' /\ (pc'[r] \in Loading => known'[r] \subseteq Of(session[r])')
  BY <1>6
<1>7. ASSUME \A r \in Turn : Keeps(r) \/ pc'[r] \notin Loading \cup Loaded
      PROVE  WindowInv'
  BY <1>4, <1>5, <1>6, <1>7 DEF WindowInv
<1>8. ASSUME NEW t \in Turn, Check(t) PROVE WindowInv'
  <2>1. \A r \in Turn \ {t} : Keeps(r)
    BY <1>8 DEF Check, TypeOK
  <2>2. pc'[t] \in Loading /\ pc'[t] \notin Loaded
    BY <1>8 DEF Check, TypeOK, Loading, Loaded
  <2>3. known'[t] = Of(session[t])
    BY <1>8 DEF Check, TypeOK
  <2>4. QED
    BY <1>2, <1>4, <1>5, <2>1, <2>2, <2>3 DEF WindowInv
<1>9. ASSUME NEW t \in Turn, LoadHistory(t) PROVE WindowInv'
  <2>1. \A r \in Turn \ {t} : Keeps(r)
    BY <1>9 DEF LoadHistory, Goto, TypeOK
  <2>2. pc[t] \in Loading /\ pc'[t] = "asking"
    BY <1>9 DEF LoadHistory, Goto, TypeOK, Loading
  <2>3. known'[t] = known[t] /\ history'[t] = Newest(Of(session[t]))
    BY <1>9 DEF LoadHistory, TypeOK
  <2>4. known[t] \subseteq Of(session[t])
    BY <2>2 DEF WindowInv
  <2>5. ASSUME NEW m \in Of(session[t]) \ Newest(Of(session[t]))
        PROVE  Cardinality({k \in Newest(Of(session[t])) : k.at > m.at}) >= N
    <3>1. Of(session[t]) \in SUBSET messages /\ messages \in SUBSET Message
      BY DEF Of, TypeOK
    <3>2. IsFiniteSet(Of(session[t]))
      BY <3>1, FS_Subset DEF TimeInv
    <3>3. \A k \in Of(session[t]) : k.at <= clock
      BY <3>1 DEF TimeInv
    <3>4. clock \in Nat
      BY DEF TypeOK
    <3>5. QED
      BY <2>5, <3>1, <3>2, <3>3, <3>4, NewestCovers
  <2>6. Sees(t)'
    BY <2>3, <2>4, <2>5
  <2>7. pc'[t] \notin Loading
    BY <2>2 DEF Loading
  <2>8. QED
    BY <1>4, <1>5, <2>1, <2>6, <2>7 DEF WindowInv
<1>10. ASSUME NEW t \in Turn, \/ StoreQuestion(t) \/ LockGraph(t) \/ BuildGraph(t)
                              \/ StreamDone(t) PROVE WindowInv'
  <2>1. \A r \in Turn : Keeps(r)
    BY <1>10 DEF StoreQuestion, LockGraph, BuildGraph, StreamDone, Goto, TypeOK, Loading, Loaded
  <2>2. QED
    BY <1>7, <2>1
<1>11. ASSUME NEW ts, End(ts) PROVE WindowInv'
  <2>1. \A r \in Turn : Keeps(r) \/ pc'[r] \notin Loading \cup Loaded
    BY <1>11 DEF End, Loading, Loaded
  <2>2. QED
    BY <1>7, <2>1
<1>12. ASSUME NEW t \in Turn, Create(t) PROVE WindowInv'
  <2>1. CASE Goto(t, "creating", "reloading") /\ UNCHANGED <<history, known>>
    <3>1. \A r \in Turn : Keeps(r)
      BY <2>1 DEF Goto, TypeOK, Loading, Loaded
    <3>2. QED
      BY <1>7, <3>1
  <2>2. QED
    BY <1>11, <1>12, <2>1 DEF Create
<1>13. ASSUME NEW t \in Turn, StreamError(t) \/ StoreAnswer(t) \/ Abort(t) PROVE WindowInv'
  BY <1>11, <1>13 DEF StreamError, StoreAnswer, Abort
<1>14. CASE Crash
  BY <1>11, <1>14 DEF Crash
<1>15. ASSUME UNCHANGED turn PROVE WindowInv'
  BY <1>7, <1>15 DEF turn
<1>16. ASSUME NEW s \in Session, NEW u \in User, Delete(s, u) PROVE WindowInv'
  BY <1>15, <1>16 DEF Delete
<1>17. CASE UNCHANGED vars
  BY <1>15, <1>17 DEF vars
<1>18. QED
  BY <1>8, <1>9, <1>10, <1>12, <1>13, <1>14, <1>16, <1>17 DEF Next

\* The list and the detail are made of the same rows.
LEMMA ListAndDetail == ListMatchesDetail
BY DEF ListMatchesDetail, Listed, Detail

\* A model is given what stood in the conversation up to the window, the graph
\* is built once per process, and the list shows what the detail shows, over
\* every overlap, disconnect and restart (chat/service.py:44-120,
\* agent/runner.py get_graph).
THEOREM ChatAlwaysSound == Spec => []ChatSound
<1>1. Init => TimeInv /\ WindowInv /\ LockInv
  <2>1. Init => TimeInv
    BY FS_EmptySet DEF Init, TimeInv
  <2>2. Init => WindowInv /\ LockInv
    BY DEF Init, WindowInv, FollowUpSeesAnswer, LockInv, Loading
  <2>3. QED
    BY <2>1, <2>2
<1>2. WindowInv /\ LockInv => ChatSound
  BY ListAndDetail DEF WindowInv, LockInv, ChatSound, BuiltOnce
<1>3. QED
  BY <1>1, <1>2, InitTypes, NextTypes, NextTime, NextWindow, NextLock, PTL DEF Spec

-----------------------------------------------------------------------------
(* The tables implement Conversation.                                      *)

Asker(q, t) == q.turn = t /\ q.session = session[t] /\ q.role = "user"

\* A turn has no message before it asks, and asks in an open session; then it
\* has a question, older than the transaction of the answer, and no answer.
TurnInv(t) ==
  /\ pc[t] \in {"idle", "asking"} \cup Loading => \A m \in messages : m.turn # t
  /\ pc[t] \in {"reloading", "loading", "asking"} => owner[session[t]] # NoUser
  /\ pc[t] \in Loaded \ {"asking"} =>
       /\ \A m \in messages : m.turn = t => m.role # "assistant"
       /\ \E q \in messages : Asker(q, t) /\ (pc[t] = "committing" => q.at < began[t])

ConvInv == \A t \in Turn : TurnInv(t)

LEMMA NextConv == TypeOK /\ TimeInv /\ ConvInv /\ [Next]_vars => ConvInv'
<1> SUFFICES ASSUME TypeOK, TimeInv, ConvInv, [Next]_vars PROVE ConvInv'
  OBVIOUS
<1> USE ChatAssumption
<1>1. \A s \in Session : owner[s] # NoUser => owner'[s] # NoUser
  BY DEF Next, Check, Create, LoadHistory, StoreQuestion, LockGraph, BuildGraph, StreamError,
         StreamDone, StoreAnswer, Abort, Delete, Crash, vars, store, TypeOK
<1>2. ASSUME NEW r \in Turn, pc'[r] = "ended" PROVE TurnInv(r)'
  BY <1>2 DEF TurnInv, Loading, Loaded
\* A turn that does not move, while others may store messages of their own.
<1>3. ASSUME NEW r \in Turn, UNCHANGED <<pc[r], began[r]>>,
             messages \subseteq messages', \A m \in messages' \ messages : m.turn # r
      PROVE  TurnInv(r)'
  <2>1. session[r] \in Session
    OBVIOUS
  <2>2. \A m \in messages' : m.turn = r => m \in messages
    BY <1>3
  <2>3. TurnInv(r)
    BY DEF ConvInv
  <2>4. QED
    BY <1>1, <1>3, <2>1, <2>2, <2>3 DEF TurnInv, Asker
<1>4. ASSUME NEW t \in Turn, Check(t) PROVE ConvInv'
  <2>1. \A r \in Turn \ {t} : TurnInv(r)'
    BY <1>3, <1>4 DEF Check, BeginTransaction, TypeOK, store
  <2>2. TurnInv(t)'
    BY <1>4 DEF Check, ConvInv, TurnInv, TypeOK, store, Loaded, Loading
  <2>3. QED
    BY <2>1, <2>2 DEF ConvInv
<1>5. ASSUME NEW t \in Turn, Create(t) PROVE ConvInv'
  <2>1. CASE End({t}) /\ UNCHANGED store
    BY <1>2, <1>3, <2>1 DEF End, store, ConvInv
  <2>2. CASE Goto(t, "creating", "reloading") /\ owner' = [owner EXCEPT ![session[t]] = user[t]]
             /\ UNCHANGED <<messages, began>>
    <3>1. \A r \in Turn \ {t} : TurnInv(r)'
      BY <1>3, <2>2 DEF Goto, TypeOK
    <3>2. owner'[session[t]] # NoUser
      BY <2>2 DEF TypeOK
    <3>3. TurnInv(t)'
      BY <2>2, <3>2 DEF Goto, ConvInv, TurnInv, TypeOK, Loaded, Loading
    <3>4. QED
      BY <3>1, <3>3 DEF ConvInv
  <2>3. QED
    BY <1>5, <2>1, <2>2 DEF Create
<1>6. ASSUME NEW t \in Turn, LoadHistory(t) PROVE ConvInv'
  <2>1. \A r \in Turn \ {t} : TurnInv(r)'
    BY <1>3, <1>6 DEF LoadHistory, Goto, BeginTransaction, TypeOK, store
  <2>2. TurnInv(t)'
    BY <1>6 DEF LoadHistory, Goto, ConvInv, TurnInv, TypeOK, store, Loaded, Loading
  <2>3. QED
    BY <2>1, <2>2 DEF ConvInv
<1>7. ASSUME NEW t \in Turn, StoreQuestion(t) PROVE ConvInv'
  <2>1. messages' = messages \cup {Said(t, "user")} /\ Said(t, "user").turn = t
    BY <1>7 DEF StoreQuestion, Said
  <2>2. \A r \in Turn \ {t} : TurnInv(r)'
    BY <1>3, <1>7, <2>1 DEF StoreQuestion, Goto, TypeOK
  <2>3. pc[t] = "asking" /\ pc'[t] = "graph" /\ \A m \in messages : m.turn # t
    BY <1>7 DEF StoreQuestion, Goto, TypeOK, ConvInv, TurnInv
  <2>4. Asker(Said(t, "user"), t)
    BY DEF Asker, Said
  <2>5. TurnInv(t)'
    BY <2>1, <2>3, <2>4 DEF TurnInv, Asker, Loaded, Loading
  <2>6. QED
    BY <2>2, <2>5 DEF ConvInv
<1>8. ASSUME NEW t \in Turn, LockGraph(t) \/ BuildGraph(t) PROVE ConvInv'
  <2>1. \A r \in Turn \ {t} : TurnInv(r)'
    BY <1>3, <1>8 DEF LockGraph, BuildGraph, Goto, TypeOK, store
  <2>2. /\ pc[t] \in {"graph", "building"} /\ pc'[t] \in {"building", "streaming"}
        /\ UNCHANGED messages
    BY <1>8 DEF LockGraph, BuildGraph, Goto, TypeOK, store
  <2>3. TurnInv(t)'
    BY <2>2 DEF ConvInv, TurnInv, Asker, Loaded, Loading
  <2>4. QED
    BY <2>1, <2>3 DEF ConvInv
<1>9. ASSUME NEW t \in Turn, StreamDone(t) PROVE ConvInv'
  <2>1. \A r \in Turn \ {t} : TurnInv(r)'
    BY <1>3, <1>9 DEF StreamDone, Goto, BeginTransaction, TypeOK, store
  <2>2. /\ pc[t] = "streaming" /\ pc'[t] = "committing" /\ began'[t] = clock + 1
        /\ UNCHANGED messages
    BY <1>9 DEF StreamDone, Goto, BeginTransaction, TypeOK, store
  <2>3. \A m \in messages : m.at \in Nat /\ m.at <= clock
    BY DEF TypeOK, Message, TimeInv
  <2>4. \A m \in messages : m.at < clock + 1
    BY <2>3 DEF TypeOK
  <2>5. TurnInv(t)'
    BY <2>2, <2>4 DEF ConvInv, TurnInv, Asker, Loaded, Loading
  <2>6. QED
    BY <2>1, <2>5 DEF ConvInv
<1>10. ASSUME NEW t \in Turn, StoreAnswer(t) PROVE ConvInv'
  <2>1. messages' = messages \cup {Said(t, "assistant")} /\ Said(t, "assistant").turn = t
    BY <1>10 DEF StoreAnswer, Said
  <2>2. QED
    BY <1>2, <1>3, <1>10, <2>1 DEF StoreAnswer, End, ConvInv
<1>11. ASSUME NEW ts, End(ts), UNCHANGED store PROVE ConvInv'
  BY <1>2, <1>3, <1>11 DEF End, store, ConvInv
<1>12. ASSUME NEW t \in Turn, StreamError(t) \/ Abort(t) PROVE ConvInv'
  BY <1>11, <1>12 DEF StreamError, Abort
<1>13. CASE Crash
  BY <1>11, <1>13 DEF Crash
<1>14. ASSUME UNCHANGED <<messages, turn>> PROVE ConvInv'
  BY <1>3, <1>14 DEF turn, ConvInv
<1>15. ASSUME NEW s \in Session, NEW u \in User, Delete(s, u) PROVE ConvInv'
  BY <1>14, <1>15 DEF Delete
<1>16. CASE UNCHANGED vars
  BY <1>14, <1>16 DEF vars, store
<1>17. QED
  BY <1>4, <1>5, <1>6, <1>7, <1>8, <1>9, <1>10, <1>12, <1>13, <1>15, <1>16 DEF Next

LEMMA NextConversation == TypeOK /\ ConvInv /\ [Next]_vars => [C!Next]_(C!vars)
<1> SUFFICES ASSUME TypeOK, ConvInv, [Next]_vars PROVE [C!Next]_(C!vars)
  OBVIOUS
<1> USE ChatAssumption
<1>1. ASSUME UNCHANGED <<owner, messages>> PROVE UNCHANGED C!vars
  BY <1>1 DEF C!vars, Stored
<1>2. ASSUME NEW t \in Turn, Create(t) PROVE [C!Next]_(C!vars)
  <2>1. CASE /\ owner[session[t]] = NoUser
             /\ owner' = [owner EXCEPT ![session[t]] = user[t]]
             /\ UNCHANGED messages
    <3>1. session[t] \in Session /\ user[t] \in User
      OBVIOUS
    <3>2. UNCHANGED <<Stored("user"), Stored("assistant")>>
      BY <2>1 DEF Stored
    <3>3. C!Open(session[t], user[t])
      BY <2>1, <3>2 DEF C!Open
    <3>4. QED
      BY <3>1, <3>3 DEF C!Next
  <2>2. QED
    BY <1>1, <1>2, <2>1 DEF Create, store
<1>3. ASSUME NEW t \in Turn, StoreQuestion(t) PROVE C!Next
  <2> DEFINE q == [turn |-> t, session |-> session[t], at |-> began[t]]
  <2>1. /\ owner[session[t]] # NoUser /\ session[t] \in Session
        /\ \A m \in messages : m.turn # t
    BY <1>3 DEF StoreQuestion, Goto, ConvInv, TurnInv
  <2>2. messages' = messages \cup {Said(t, "user")} /\ UNCHANGED owner
    BY <1>3 DEF StoreQuestion
  <2>3. \A p \in Stored("user") : p.turn # t
    BY <2>1 DEF Stored
  <2>4. /\ Said(t, "user").role = "user" /\ Said(t, "user").turn = t
        /\ Said(t, "user").session = session[t] /\ Said(t, "user").at = began[t]
    BY DEF Said
  <2>5. Stored("user")' = Stored("user") \cup {q}
    BY <2>2, <2>4 DEF Stored
  <2>6. UNCHANGED Stored("assistant")
    BY <2>2, <2>4 DEF Stored
  <2>7. C!Ask(t, session[t])
    BY <2>1, <2>2, <2>3, <2>5, <2>6 DEF C!Ask
  <2>8. QED
    BY <2>1, <2>7 DEF C!Next
<1>4. ASSUME NEW t \in Turn, StoreAnswer(t) PROVE C!Next
  <2> DEFINE a == [turn |-> t, session |-> session[t], at |-> began[t]]
  <2>1. \A m \in messages : m.turn = t => m.role # "assistant"
    BY <1>4 DEF StoreAnswer, ConvInv, TurnInv, Loaded
  <2>2. PICK m \in messages : Asker(m, t) /\ m.at < began[t]
    BY <1>4 DEF StoreAnswer, ConvInv, TurnInv, Loaded
  <2> DEFINE q == [turn |-> m.turn, session |-> m.session, at |-> m.at]
  <2>3. q \in Stored("user") /\ q.turn = t /\ q.at < a.at /\ a = [q EXCEPT !.at = a.at]
    BY <2>2 DEF Stored, Asker
  <2>4. messages' = messages \cup {Said(t, "assistant")} /\ UNCHANGED owner
    BY <1>4 DEF StoreAnswer
  <2>5. /\ Said(t, "assistant").role = "assistant" /\ Said(t, "assistant").turn = t
        /\ Said(t, "assistant").session = session[t] /\ Said(t, "assistant").at = began[t]
    BY DEF Said
  <2>6. Stored("assistant")' = Stored("assistant") \cup {a}
    BY <2>4, <2>5 DEF Stored
  <2>7. UNCHANGED Stored("user")
    BY <2>4, <2>5 DEF Stored
  <2>8. \A b \in Stored("assistant") : b.turn # t
    BY <2>1 DEF Stored
  <2>9. C!Answer(t)
    <3> HIDE DEF q, a
    <3>1. a \in Stored("assistant")'
      BY <2>6
    <3>2. QED
      BY <2>3, <2>4, <2>6, <2>7, <2>8, <3>1 DEF C!Answer
  <2>10. QED
    BY <2>9 DEF C!Next
<1>5. ASSUME NEW t \in Turn,
             \/ Check(t) \/ LoadHistory(t) \/ LockGraph(t) \/ BuildGraph(t) \/ StreamError(t)
             \/ StreamDone(t) \/ Abort(t)
      PROVE  UNCHANGED C!vars
  BY <1>1, <1>5 DEF Check, LoadHistory, LockGraph, BuildGraph, StreamError, StreamDone, Abort,
                    store
<1>6. ASSUME NEW s \in Session, NEW u \in User, Delete(s, u) PROVE UNCHANGED C!vars
  BY <1>1, <1>6 DEF Delete
<1>7. CASE Crash
  BY <1>1, <1>7 DEF Crash, store
<1>8. CASE UNCHANGED vars
  BY <1>1, <1>8 DEF vars, store
<1>9. QED
  BY <1>2, <1>3, <1>4, <1>5, <1>6, <1>7, <1>8 DEF Next

\* The tables hold a conversation: a session stays with the owner who came
\* first, and an answer belongs to one stored question of its turn
\* (chat/service.py:44-120).
THEOREM ChatIsAConversation == Spec => ImplementsConversation
<1>1. Init => C!Init
  BY DEF Init, C!Init, Stored
<1>2. Init => TimeInv
  BY FS_EmptySet DEF Init, TimeInv
<1>3. Init => ConvInv
  BY DEF Init, ConvInv, TurnInv, Loading, Loaded
<1>4. QED
  BY <1>1, <1>2, <1>3, InitTypes, NextTypes, NextTime, NextConv, NextConversation, PTL
     DEF Spec, ImplementsConversation, C!Spec

=============================================================================
