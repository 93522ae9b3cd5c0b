---------------------------- MODULE Services_proofs ----------------------------
(* Proofs about sign-in and the services of Services, for every number of   *)
(* requests, events, rows and versions and every length of the run.  A      *)
(* section per service: its inductive invariant, a lemma per step or kind   *)
(* of step, and the theorem about its property.                             *)
EXTENDS Services, Sequences, FiniteSetTheorems, WellFoundedInduction, TLAPS

-----------------------------------------------------------------------------
(* Type correctness.                                                       *)

\* The clock stays within its bound, so that a deadline lies before Forever.
Types == TypeOK /\ now <= MaxTime + 1

\* At the start every variable has its type.
LEMMA InitTypes == Init => Types
BY AuthAssumption DEF Init, Types, TypeOK, Forever, Absent, Working

\* The steps on Redis keys leave deadlines and expiry times natural numbers.
LEMMA KeyTypes ==
  ASSUME Types, NEW s \in Request
  PROVE  /\ Hset(s) => expires' \in [Request -> Nat] /\ dies' \in [Request -> Nat]
         /\ Expire(s) => dies' \in [Request -> Nat]
         /\ Delete(s) => expires' \in [Request -> Nat] /\ dies' \in [Request -> Nat]
BY AuthAssumption DEF Types, TypeOK, Hset, Expire, Delete, Forever, Absent

\* A handler that works on a session has one.
HasSession == {"rereading", "updating", "expiring", "discarding", "leaving"}
SidInv == \A r \in Request : pc[r] \in HasSession => sid[r] \in Request

\* At the start no handler works on a session.
LEMMA InitSid == Init => SidInv
BY DEF Init, SidInv, HasSession

\* Every step keeps the types and the session a handler works on.
LEMMA NextTypes == Types /\ SidInv /\ [Next]_vars => Types' /\ SidInv'
<1> SUFFICES ASSUME Types, SidInv, [Next]_vars PROVE Types' /\ SidInv'
  OBVIOUS
<1> USE AuthAssumption DEF Types, TypeOK, SidInv, HasSession, Working
<1>1. CASE Elapse
  BY <1>1 DEF Elapse, redis, ghosts
<1>2. CASE StoreState
  BY <1>2 DEF StoreState, StateStored, ghosts
<1>3. CASE ExpireState
  BY <1>3 DEF ExpireState, ghosts
<1>4. CASE Crash
  <2>1. cut' \subseteq Request \cup {NoSession}
    BY <1>4 DEF Crash
  <2>2. QED
    BY <1>4, <2>1 DEF Crash, redis
<1>5. ASSUME NEW r \in Request, PopRead(r) \/ PopDelete(r) \/ Vouch(r) \/ Provision(r)
      PROVE  Types' /\ SidInv'
  BY <1>5 DEF PopRead, PopDelete, Vouch, Provision, AfterVouching, Goto, redis, ghosts
<1>6. ASSUME NEW r \in Request, StoreSession(r)
      PROVE  Types' /\ SidInv'
  BY <1>6, KeyTypes DEF StoreSession, Goto, ghosts
<1>7. ASSUME NEW r \in Request, UpdateRead(r)
      PROVE  Types' /\ SidInv'
  BY <1>7 DEF UpdateRead, GetSession, redis, ghosts
<1>8. ASSUME NEW r \in Request, UpdateSession(r)
      PROVE  Types' /\ SidInv'
  BY <1>8, KeyTypes DEF UpdateSession, Goto, ghosts
<1>9. ASSUME NEW r \in Request, SetDeadline(r)
      PROVE  Types' /\ SidInv'
  BY <1>9, KeyTypes DEF SetDeadline, Issued, Goto, ghosts
<1>10. ASSUME NEW r \in Request, Discard(r)
       PROVE  Types' /\ SidInv'
  BY <1>10, KeyTypes DEF Discard, Goto, ghosts
<1>11. ASSUME NEW r \in Request, LogoutFail(r)
       PROVE  Types' /\ SidInv'
  BY <1>11 DEF LogoutFail, Goto, redis, ghosts
<1>12. ASSUME NEW r \in Request, Logout(r)
       PROVE  Types' /\ SidInv'
  BY <1>12, KeyTypes DEF Logout, Goto
<1>13. ASSUME NEW r \in Request, NEW s \in issued, RefreshRead(r, s) \/ Authenticate(r, s)
       PROVE  Types' /\ SidInv'
  BY <1>13 DEF RefreshRead, Authenticate, GetSession, redis, ghosts
<1>14. CASE UNCHANGED vars
  BY <1>14 DEF vars, redis, ghosts
<1>15. QED
  BY <1>1, <1>2, <1>3, <1>4, <1>5, <1>6, <1>7, <1>8, <1>9, <1>10, <1>11, <1>12, <1>13,
     <1>14 DEF Next

\* The keys, the cookies and the handlers have the shapes of TypeOK.
THEOREM AuthTypes == Spec => []TypeOK
<1>1. Types => TypeOK
  BY DEF Types
<1>2. QED
  BY <1>1, InitTypes, InitSid, NextTypes, PTL DEF Spec

-----------------------------------------------------------------------------
(* Deadlines.                                                              *)

\* Every step leaves a session its deadline, but for a writer that is cut off.
LEMMA NextDeadline ==
  Types /\ SidInv /\ KeyHasDeadline /\ [Next]_vars => KeyHasDeadline'
<1> SUFFICES ASSUME Types, SidInv, KeyHasDeadline, [Next]_vars,
                    NEW s \in Request, Live(s)', dies'[s] = Forever
             PROVE  s \in cut' \/ \E r \in Request : pc'[r] = "expiring" /\ sid'[r] = s
  BY AuthAssumption DEF KeyHasDeadline, Forever
<1> USE AuthAssumption DEF Types, TypeOK, KeyHasDeadline, Live, Forever
\* A step that leaves the keys alone, ends no writer and forgets none.
<1>1. ASSUME UNCHANGED <<expires, dies, sid>>, now' >= now, cut \subseteq cut',
             \A r \in Request : pc[r] = "expiring" => pc'[r] = "expiring"
      PROVE  s \in cut' \/ \E r \in Request : pc'[r] = "expiring" /\ sid'[r] = s
  BY <1>1
<1>2. CASE Elapse
  BY <1>1, <1>2 DEF Elapse, redis, ghosts
<1>3. CASE StoreState \/ ExpireState
  BY <1>1, <1>3 DEF StoreState, ExpireState, ghosts
<1>4. CASE Crash
  BY <1>4 DEF Crash, redis
<1>5. ASSUME NEW r \in Request, PopRead(r) \/ PopDelete(r) \/ Vouch(r) \/ Provision(r)
                                \/ LogoutFail(r)
      PROVE  s \in cut' \/ \E q \in Request : pc'[q] = "expiring" /\ sid'[q] = s
  BY <1>1, <1>5 DEF PopRead, PopDelete, Vouch, Provision, LogoutFail, Goto, redis, ghosts
<1>6. ASSUME NEW r \in Request, StoreSession(r) \/ UpdateSession(r)
      PROVE  s \in cut' \/ \E q \in Request : pc'[q] = "expiring" /\ sid'[q] = s
  <2>1. pc'[r] = "expiring" /\ sid'[r] \in Request /\ Hset(sid'[r])
    BY <1>6 DEF StoreSession, UpdateSession, Goto, SidInv, HasSession
  <2>2. CASE s = sid'[r]
    BY <2>1, <2>2
  <2>3. CASE s # sid'[r]
    <3>1. expires'[s] = expires[s] /\ dies'[s] = dies[s] /\ now' = now /\ cut' = cut
      BY <1>6, <2>1, <2>3 DEF StoreSession, UpdateSession, Hset, ghosts
    <3>2. \A q \in Request : pc[q] = "expiring" => pc'[q] = "expiring" /\ sid'[q] = sid[q]
      BY <1>6 DEF StoreSession, UpdateSession, Goto
    <3>3. QED
      BY <3>1, <3>2
  <2>4. QED
    BY <2>2, <2>3
<1>7. ASSUME NEW r \in Request, SetDeadline(r)
      PROVE  s \in cut' \/ \E q \in Request : pc'[q] = "expiring" /\ sid'[q] = s
  <2>1. sid[r] \in Request /\ Expire(sid[r]) /\ UNCHANGED <<now, expires, sid, cut>>
    BY <1>7 DEF SetDeadline, Goto, SidInv, HasSession, ghosts
  <2>2. s # sid[r]
    BY <2>1 DEF Expire
  <2>3. dies'[s] = dies[s]
    BY <2>1, <2>2 DEF Expire
  <2>4. \A q \in Request : pc[q] = "expiring" /\ sid[q] = s => pc'[q] = "expiring"
    BY <1>7, <2>2 DEF SetDeadline, Goto
  <2>5. QED
    BY <2>1, <2>3, <2>4
<1>8. ASSUME NEW r \in Request, Discard(r) \/ Logout(r)
      PROVE  s \in cut' \/ \E q \in Request : pc'[q] = "expiring" /\ sid'[q] = s
  <2>1. sid[r] \in Request /\ Delete(sid[r]) /\ UNCHANGED <<now, sid, cut>>
    BY <1>8 DEF Discard, Logout, Goto, SidInv, HasSession, ghosts
  <2>2. s # sid[r] /\ expires'[s] = expires[s] /\ dies'[s] = dies[s]
    BY <2>1 DEF Delete, Absent
  <2>3. \A q \in Request : pc[q] = "expiring" => pc'[q] = "expiring"
    BY <1>8 DEF Discard, Logout, Goto
  <2>4. QED
    BY <2>1, <2>2, <2>3
<1>9. ASSUME NEW r \in Request, \/ UpdateRead(r)
                                \/ \E i \in issued : RefreshRead(r, i) \/ Authenticate(r, i)
      PROVE  s \in cut' \/ \E q \in Request : pc'[q] = "expiring" /\ sid'[q] = s
  <2>1. UNCHANGED <<expires, dies, now, cut>>
    BY <1>9 DEF UpdateRead, RefreshRead, Authenticate, redis, ghosts
  <2>2. \A q \in Request : pc[q] = "expiring" => pc'[q] = "expiring" /\ sid'[q] = sid[q]
    BY <1>9 DEF UpdateRead, RefreshRead, Authenticate, GetSession
  <2>3. QED
    BY <2>1, <2>2
<1>10. CASE UNCHANGED vars
  BY <1>1, <1>10 DEF vars, redis, ghosts
<1>11. QED
  BY <1>2, <1>3, <1>4, <1>5, <1>6, <1>7, <1>8, <1>9, <1>10 DEF Next

-----------------------------------------------------------------------------
(* Logout.                                                                 *)

\* A callback that has written its session will not write it again.
Done == {"expiring", "ended"}

\* A session that a cookie, a handler or a logout knows was stored by a callback
\* that will not store it again.
Known ==
  /\ \A s \in issued \cup loggedOut : pc[s] \in Done
  /\ \A r \in Request : sid[r] # NoSession => pc[sid[r]] \in Done

\* Of a session that was logged out without a refresh about to write it, no key
\* is left, and nobody is about to write one.
Gone ==
  \A s \in loggedOut \ overlapped :
    expires[s] = Absent /\ \A r \in Request : ~(pc[r] = "updating" /\ sid[r] = s)

\* At the start no session is known, and none was logged out.
LEMMA InitKnown == Init => Known /\ Gone
BY DEF Init, Known, Gone

\* Every step keeps known sessions stored.
LEMMA NextKnown == Types /\ SidInv /\ Known /\ [Next]_vars => Known'
<1> SUFFICES ASSUME Types, SidInv, Known, [Next]_vars PROVE Known'
  OBVIOUS
<1> USE AuthAssumption DEF Types, TypeOK, Known, Done
\* A step that keeps what is known, and lets no finished handler begin again.
<1>1. ASSUME UNCHANGED <<issued, loggedOut, sid>>,
             \A r \in Request : pc[r] \in Done => pc'[r] \in Done
      PROVE  Known'
  BY <1>1
<1>2. CASE Elapse \/ StoreState \/ ExpireState
  BY <1>1, <1>2 DEF Elapse, StoreState, ExpireState, ghosts
<1>3. CASE Crash
  BY <1>1, <1>3 DEF Crash
<1>4. ASSUME NEW r \in Request, PopRead(r) \/ PopDelete(r) \/ Vouch(r) \/ Provision(r)
                                \/ LogoutFail(r) \/ Discard(r) \/ UpdateSession(r)
      PROVE  Known'
  BY <1>1, <1>4
     DEF PopRead, PopDelete, Vouch, Provision, LogoutFail, Discard, UpdateSession, Goto, ghosts
<1>5. ASSUME NEW r \in Request, StoreSession(r)
      PROVE  Known'
  BY <1>5 DEF StoreSession, Goto, ghosts
<1>6. ASSUME NEW r \in Request, SetDeadline(r)
      PROVE  Known'
  BY <1>6 DEF SetDeadline, Issued, Goto, SidInv, HasSession, ghosts
<1>7. ASSUME NEW r \in Request, Logout(r)
      PROVE  Known'
  BY <1>7 DEF Logout, Goto, SidInv, HasSession
<1>8. ASSUME NEW r \in Request, UpdateRead(r)
      PROVE  Known'
  <2>1. UNCHANGED <<issued, loggedOut, sid>>
    BY <1>8 DEF UpdateRead, GetSession, ghosts
  <2>2. QED
    BY <1>1, <1>8, <2>1 DEF UpdateRead, GetSession
<1>9. ASSUME NEW r \in Request, NEW s \in issued, RefreshRead(r, s) \/ Authenticate(r, s)
      PROVE  Known'
  <2>1. UNCHANGED <<issued, loggedOut>> /\ pc[r] = "idle" /\ sid' = [sid EXCEPT ![r] = s]
    BY <1>9 DEF RefreshRead, Authenticate, GetSession, ghosts
  <2>2. \A q \in Request : pc[q] \in Done => pc'[q] \in Done
    BY <1>9, <2>1 DEF RefreshRead, Authenticate, GetSession
  <2>3. QED
    BY <2>1, <2>2
<1>10. CASE UNCHANGED vars
  BY <1>1, <1>10 DEF vars, ghosts
<1>11. QED
  BY <1>2, <1>3, <1>4, <1>5, <1>6, <1>7, <1>8, <1>9, <1>10 DEF Next

\* Every step leaves a session that was logged out without a key and a writer.
LEMMA NextGone == Types /\ SidInv /\ Known /\ Gone /\ [Next]_vars => Gone'
<1> SUFFICES ASSUME Types, SidInv, Known, Gone, [Next]_vars PROVE Gone'
  OBVIOUS
<1> USE AuthAssumption DEF Types, TypeOK, Gone
\* A step that writes no key, logs nobody out and brings nobody to writing.
<1>1. ASSUME UNCHANGED <<expires, loggedOut, overlapped, sid>>,
             \A r \in Request : pc'[r] = "updating" => pc[r] = "updating"
      PROVE  Gone'
  BY <1>1
<1>2. CASE Elapse \/ StoreState \/ ExpireState
  BY <1>1, <1>2 DEF Elapse, StoreState, ExpireState, redis, ghosts
<1>3. CASE Crash
  BY <1>1, <1>3 DEF Crash, redis
<1>4. ASSUME NEW r \in Request, PopRead(r) \/ PopDelete(r) \/ Vouch(r) \/ Provision(r)
                                \/ LogoutFail(r) \/ SetDeadline(r)
      PROVE  Gone'
  BY <1>1, <1>4
     DEF PopRead, PopDelete, Vouch, Provision, LogoutFail, SetDeadline, Goto, AfterVouching,
         redis, ghosts
<1>5. ASSUME NEW r \in Request, StoreSession(r)
      PROVE  Gone'
  <2>1. r \notin loggedOut
    BY <1>5 DEF StoreSession, Goto, Known, Done
  <2>2. \A s \in loggedOut : expires'[s] = expires[s]
    BY <1>5, <2>1 DEF StoreSession, Hset
  <2>3. QED
    BY <1>5, <2>2 DEF StoreSession, Goto, ghosts
<1>6. ASSUME NEW r \in Request, UpdateSession(r)
      PROVE  Gone'
  <2>1. sid[r] \notin loggedOut \ overlapped
    BY <1>6 DEF UpdateSession, Goto
  <2>2. \A s \in loggedOut \ overlapped : expires'[s] = expires[s]
    BY <1>6, <2>1 DEF UpdateSession, Hset
  <2>3. QED
    BY <1>6, <2>2 DEF UpdateSession, Goto, ghosts
<1>7. ASSUME NEW r \in Request, Discard(r)
      PROVE  Gone'
  BY <1>7 DEF Discard, Delete, Goto, SidInv, HasSession, ghosts
<1>8. ASSUME NEW r \in Request, Logout(r)
      PROVE  Gone'
  <2>1. sid[r] \in Request /\ sid' = sid
    BY <1>8 DEF Logout, Goto, SidInv, HasSession
  <2>2. \A q \in Request : pc'[q] = "updating" => pc[q] = "updating"
    BY <1>8 DEF Logout, Goto
  <2>3. expires' = [expires EXCEPT ![sid[r]] = Absent]
    BY <1>8 DEF Logout, Delete
  <2>4. \/ sid[r] \in overlapped'
        \/ \A q \in Request : ~(pc[q] = "updating" /\ sid[q] = sid[r])
    BY <1>8 DEF Logout
  <2>5. loggedOut' = loggedOut \cup {sid[r]} /\ overlapped \subseteq overlapped'
    BY <1>8 DEF Logout
  <2>6. QED
    BY <2>1, <2>2, <2>3, <2>4, <2>5
<1>9. ASSUME NEW r \in Request, UpdateRead(r)
      PROVE  Gone'
  <2>1. UNCHANGED <<expires, loggedOut, overlapped, sid>>
    BY <1>9 DEF UpdateRead, GetSession, redis, ghosts
  <2>2. \A q \in Request : pc'[q] = "updating" => pc[q] = "updating" \/ (q = r /\ Accepts(sid[r]))
    BY <1>9 DEF UpdateRead, GetSession
  <2>3. \A s \in loggedOut \ overlapped : ~Accepts(s)
    BY DEF Accepts, Live
  <2>4. QED
    BY <2>1, <2>2, <2>3
<1>10. ASSUME NEW r \in Request, NEW s \in issued, RefreshRead(r, s) \/ Authenticate(r, s)
       PROVE  Gone'
  <2>1. UNCHANGED <<expires, loggedOut, overlapped>>
    BY <1>10 DEF RefreshRead, Authenticate, redis, ghosts
  <2>2. \A q \in Request : pc'[q] = "updating" => pc[q] = "updating" /\ sid'[q] = sid[q]
    BY <1>10 DEF RefreshRead, Authenticate, GetSession
  <2>3. QED
    BY <2>1, <2>2
<1>11. CASE UNCHANGED vars
  BY <1>1, <1>11 DEF vars, redis, ghosts
<1>12. QED
  BY <1>2, <1>3, <1>4, <1>5, <1>6, <1>7, <1>8, <1>9, <1>10, <1>11 DEF Next

\* A session ends by its logout and by its deadline, but for the two races the
\* code leaves open (redis_store.py:83-135).
THEOREM SessionsAlwaysEnd == Spec => []SessionEnds
<1> DEFINE Inv == Types /\ SidInv /\ KeyHasDeadline /\ Known /\ Gone
<1>1. Init => KeyHasDeadline
  BY DEF Init, KeyHasDeadline, Live, Absent
<1>2. Init => Inv
  BY <1>1, InitTypes, InitSid, InitKnown
<1>3. Inv /\ [Next]_vars => Inv'
  BY NextTypes, NextDeadline, NextKnown, NextGone
<1>4. Inv => SessionEnds
  BY DEF Gone, SessionEnds, RevivedOnlyByRefresh, Accepts, Live
<1>5. QED
  BY <1>2, <1>3, <1>4, PTL DEF Spec

-----------------------------------------------------------------------------
(* The login state.                                                        *)

\* Until a callback has deleted the login state, callbacks have at most read it.
StateUnused ==
  stateKey # "used" =>
    /\ issued = {}
    /\ \A r \in Request : expires[r] = Absent /\ pc[r] \in {"idle", "popping", "ended"}

\* Until the login state is used no callback stores a session.
LEMMA NextStateUnused == Types /\ StateUnused /\ [Next]_vars => StateUnused'
<1> SUFFICES ASSUME Types, StateUnused, [Next]_vars, stateKey' # "used"
             PROVE  /\ issued' = {}
                    /\ \A r \in Request : /\ expires'[r] = Absent
                                          /\ pc'[r] \in {"idle", "popping", "ended"}
  BY DEF StateUnused
<1> USE DEF Types, TypeOK, StateUnused
<1>1. CASE Elapse
  BY <1>1 DEF Elapse, redis
<1>2. CASE StoreState
  BY <1>2 DEF StoreState, StateStored
<1>3. CASE ExpireState
  BY <1>3 DEF ExpireState
<1>4. CASE Crash
  BY <1>4 DEF Crash, redis
<1>5. ASSUME NEW r \in Request, PopRead(r)
      PROVE  /\ issued' = {}
             /\ \A q \in Request : /\ expires'[q] = Absent
                                   /\ pc'[q] \in {"idle", "popping", "ended"}
  BY <1>5 DEF PopRead, Goto, redis
<1>6. ASSUME NEW r \in Request, PopDelete(r)
      PROVE  FALSE
  BY <1>6 DEF PopDelete
<1>7. ASSUME NEW r \in Request,
             \/ Vouch(r) \/ Provision(r) \/ StoreSession(r) \/ UpdateRead(r)
             \/ UpdateSession(r) \/ SetDeadline(r) \/ Discard(r) \/ LogoutFail(r) \/ Logout(r)
      PROVE  FALSE
  <2>1. stateKey' = stateKey
    BY <1>7 DEF Vouch, Provision, StoreSession, UpdateRead, UpdateSession, SetDeadline,
                Discard, LogoutFail, Logout, redis
  <2>2. pc[r] \notin {"idle", "popping", "ended"}
    BY <1>7 DEF Vouch, Provision, StoreSession, UpdateRead, UpdateSession, SetDeadline,
                Discard, LogoutFail, Logout, Goto
  <2>3. QED
    BY <2>1, <2>2
<1>8. ASSUME NEW r \in Request, NEW s \in issued, RefreshRead(r, s) \/ Authenticate(r, s)
      PROVE  FALSE
  BY <1>8 DEF RefreshRead, Authenticate, redis
<1>9. CASE UNCHANGED vars
  BY <1>9 DEF vars, redis
<1>10. QED
  BY <1>1, <1>2, <1>3, <1>4, <1>5, <1>6, <1>7, <1>8, <1>9 DEF Next

\* No callback begins with a login state another one has deleted
\* (pop_auth_state, redis_store.py:172-178).
THEOREM StateNeverUsedTwice == Spec => StateUsedOnce
<1> DEFINE A == \A r \in Request :
                  pc[r] = "idle" /\ pc'[r] = "popping" =>
                    \A q \in Request : pc[q] # "exchanging" /\ expires[q] = Absent
<1>1. Init => StateUnused
  BY DEF Init, StateUnused
<1>2. Types /\ StateUnused /\ [Next]_vars => [A]_vars
  <2> SUFFICES ASSUME Types, StateUnused, Next, NEW r \in Request,
                      pc[r] = "idle", pc'[r] = "popping"
               PROVE  stateKey # "used"
    BY DEF StateUnused
  <2> USE DEF Types, TypeOK
  <2>1. ASSUME NEW q \in Request, PopRead(q)
        PROVE  stateKey # "used"
    BY <2>1 DEF PopRead, Goto, StateLive
  <2>2. ASSUME NEW q \in Request,
               \/ PopDelete(q) \/ Vouch(q) \/ Provision(q) \/ StoreSession(q)
               \/ UpdateSession(q) \/ SetDeadline(q) \/ Discard(q) \/ LogoutFail(q)
               \/ Logout(q)
        PROVE  FALSE
    BY <2>2 DEF PopDelete, Vouch, Provision, StoreSession, UpdateSession, SetDeadline,
                Discard, LogoutFail, Logout, Goto, AfterVouching
  <2>3. ASSUME NEW q \in Request,
               UpdateRead(q) \/ \E s \in issued : RefreshRead(q, s) \/ Authenticate(q, s)
        PROVE  FALSE
    BY <2>3 DEF UpdateRead, RefreshRead, Authenticate, GetSession
  <2>4. ASSUME Elapse \/ StoreState \/ ExpireState \/ Crash
        PROVE  FALSE
    BY <2>4 DEF Elapse, StoreState, ExpireState, Crash
  <2>5. QED
    BY <2>1, <2>2, <2>3, <2>4 DEF Next
<1>3. QED
  BY <1>1, <1>2, InitTypes, InitSid, NextTypes, NextStateUnused, PTL DEF Spec, StateUsedOnce

-----------------------------------------------------------------------------
(* One service at a time.                                                  *)

\* Every step is a step of the subject, or leaves its variables as they are.
LEMMA SubjectStep ==
  ASSUME [ServicesNext]_servicesVars
  PROVE  /\ subject' = subject
         /\ subject = "status" => [Status!Next]_(Status!vars)
         /\ subject = "audit" => [Audit!Next]_(Audit!vars)
         /\ subject = "lines" => [Lines!Next]_(Lines!vars)
         /\ subject = "knowledge" => [Knowledge!Next]_(Knowledge!vars)
         /\ subject = "plan" => [Plan!Next]_(Plan!vars)
         /\ subject = "suggest" => [Suggest!Next]_(Suggest!vars)
         /\ subject = "schema" => [Schema!Next]_(Schema!vars)
         /\ subject = "keys" => [Keys!Next]_(Keys!vars)
         /\ subject = "table" => [Table!Next]_(Table!vars)
         /\ subject = "sensor" => [Sensor!Next]_(Sensor!vars)
         /\ subject = "pages" => [Pages!Next]_(Pages!vars)
         /\ subject = "fusion" => [Fusion!Next]_(Fusion!vars)
         /\ subject = "detector" => [Verdict!Next]_(Verdict!vars)
         /\ subject = "intervals" => [Intervals!Next]_(Intervals!vars)
         /\ subject = "evaluation" => [Sweep!Next]_(Sweep!vars)
<1>1. CASE ServicesNext
  BY <1>1 DEF ServicesNext, AuthNext, StatusNext, AuditNext, LinesNext, KnowledgeNext,
    PlanNext, SuggestNext, SchemaNext, KeysNext, TableNext, SensorNext, PagesNext,
    FusionNext, VerdictNext, IntervalsNext, SweepNext, Kept
<1>2. CASE UNCHANGED servicesVars
  BY <1>2 DEF servicesVars, auditKnowledgeVars, statusVars, auditVars,
    linesVars, knowledgeVars, planVars, suggestVars, schemaVars, keysVars, Status!vars,
    Audit!vars, Audit!clock, Audit!seqs, Audit!event, Audit!store, Lines!vars,
    Knowledge!vars, Plan!vars, Suggest!vars, Schema!vars, Keys!vars, Keys!provider,
    Keys!caches, Table!vars, Pages!vars, Fusion!vars, Verdict!vars, Intervals!vars,
    Sweep!vars, Sensor!vars, tableVars, pagesVars, fusionVars, detectorVars, intervalsVars,
    evaluationVars, sensorVars, statusLinesVars
<1> QED BY <1>1, <1>2

-----------------------------------------------------------------------------
(* The status of an equipment.                                             *)

\* What may stand at a moment: a code of the rules, and an anomaly or none.
Moments == [tick : AlarmCode \cup {NoCode}, anomaly : BOOLEAN]

\* What a request has read stood at a moment it has witnessed, and as long as it
\* runs it has witnessed the present one.
StatusInv ==
  /\ tick \in AlarmCode \cup {NoCode} /\ anomaly \in BOOLEAN
  /\ step \in [View -> {"idle", "meta", "tick", "anomaly", "done"}]
  /\ code \in [View -> AlarmCode \cup {NoCode, Anomaly}]
  /\ seen \in [View -> SUBSET Moments]
  /\ \A v \in View :
       /\ step[v] \in {"meta", "tick", "anomaly"} => Status!Moment(tick, anomaly) \in seen[v]
       /\ step[v] = "anomaly" => \E m \in seen[v] : m.tick = code[v]
  /\ Status!StatusHonest

\* The severity of what stands at a moment.
LEMMA SeverityOfCode ==
  /\ Status!Severity(NoCode) = 0
  /\ Status!Severity(Anomaly) = 1
  /\ \A c \in AlarmCode : Status!Severity(c) \in {1, 2}
<1>0. Critical \subseteq AlarmCode /\ NoCode \notin AlarmCode /\ Anomaly \notin AlarmCode
      /\ NoCode # Anomaly
  BY ServicesAssumption DEF Status!StatusAssumption
<1>1. Status!assess_status(NoCode) = "normal" /\ Status!assess_status(Anomaly) = "warning"
  BY <1>0 DEF Status!assess_status
<1>2. \A c \in AlarmCode : Status!assess_status(c) \in {"warning", "critical"}
  BY <1>0 DEF Status!assess_status
<1> QED BY <1>1, <1>2 DEF Status!Severity

\* No request has begun.
LEMMA StatusStarts == Status!Init => StatusInv
BY DEF Status!Init, StatusInv, Status!StatusHonest, Moments

\* Whatever the alarms do between the two reads of a request, what it has read
\* stood at a moment it has witnessed.
LEMMA StatusStep == StatusInv /\ [Status!Next]_(Status!vars) => StatusInv'
<1> SUFFICES ASSUME StatusInv, [Status!Next]_(Status!vars) PROVE StatusInv'
  OBVIOUS
<1> USE DEF StatusInv, Moments
<1>0. /\ Critical \subseteq AlarmCode /\ NoCode \notin AlarmCode /\ Anomaly \notin AlarmCode
      /\ NoCode # Anomaly
  BY ServicesAssumption DEF Status!StatusAssumption
<1>1. ASSUME NEW c \in AlarmCode \cup {NoCode}, Status!Tick(c) PROVE StatusInv'
  <2>1. Status!StatusHonest'
    BY <1>1 DEF Status!Tick, Status!Witnessed, Status!StatusHonest
  <2> QED BY <1>1, <2>1 DEF Status!Tick, Status!Witnessed, Status!Moment
<1>2. CASE Status!Score
  <2>1. Status!StatusHonest'
    BY <1>2 DEF Status!Score, Status!Witnessed, Status!StatusHonest
  <2>2. anomaly' \in BOOLEAN /\ Status!Moment(tick, anomaly') \in Moments
    BY <1>2 DEF Status!Score, Status!Moment
  <2>3. seen' = [v \in View |-> IF step[v] \in {"idle", "done"} THEN seen[v]
                               ELSE seen[v] \cup {Status!Moment(tick, anomaly')}]
    BY <1>2 DEF Status!Score, Status!Witnessed
  <2>4. seen' \in [View -> SUBSET Moments]
    BY <2>2, <2>3
  <2>5. UNCHANGED <<tick, step, code>>
    BY <1>2 DEF Status!Score
  <2> QED BY <2>1, <2>2, <2>3, <2>4, <2>5
<1>3. ASSUME NEW v \in View, NEW next \in {"tick", "meta"}, Status!Begin(v, next)
      PROVE StatusInv'
  <2>1. Status!StatusHonest'
    BY <1>3 DEF Status!Begin, Status!StatusHonest
  <2> QED BY <1>3, <2>1 DEF Status!Begin, Status!Moment
<1>4. ASSUME NEW v \in View, Status!Clear(v) PROVE StatusInv'
  <2>1. Status!StatusHonest'
    BY <1>4 DEF Status!Clear, Status!StatusHonest
  <2>2. anomaly' = FALSE /\ Status!Moment(tick, anomaly') \in Moments
    BY <1>4 DEF Status!Clear, Status!Moment
  <2>3. seen' = [w \in View |->
          IF w = v THEN {Status!Moment(tick, anomaly')}
          ELSE IF step[w] \in {"idle", "done"} THEN seen[w]
          ELSE seen[w] \cup {Status!Moment(tick, anomaly')}]
    BY <1>4 DEF Status!Clear
  <2>4. seen' \in [View -> SUBSET Moments]
    BY <2>2, <2>3
  <2>5. UNCHANGED <<tick, code>> /\ step' = [step EXCEPT ![v] = "meta"]
    BY <1>4 DEF Status!Clear
  <2> QED BY <2>1, <2>2, <2>3, <2>4, <2>5
<1>5. ASSUME NEW v \in View, Status!ReadMeta(v) PROVE StatusInv'
  BY <1>5 DEF Status!ReadMeta, Status!StatusHonest, Status!Moment
<1>6. ASSUME NEW v \in View, Status!ReadTick(v) PROVE StatusInv'
  <2>1. Status!StatusHonest'
    BY <1>6 DEF Status!ReadTick, Status!StatusHonest
  <2> QED BY <1>6, <2>1 DEF Status!ReadTick, Status!Moment
<1>7. ASSUME NEW v \in View, Status!ReadAnomaly(v) PROVE StatusInv'
  <2> DEFINE present == Status!Moment(tick, anomaly)
  <2>1. present \in seen[v] /\ present.tick = tick /\ present.anomaly = anomaly
    BY <1>7 DEF Status!ReadAnomaly, Status!Moment
  <2>2. PICK m \in seen[v] : m.tick = code[v]
    BY <1>7 DEF Status!ReadAnomaly
  <2> HIDE DEF present
  <2>3. \A n \in seen[v] : /\ n.tick \in AlarmCode \cup {NoCode}
                           /\ n.anomaly \in BOOLEAN
    BY <1>7
  <2>4. /\ step' = [step EXCEPT ![v] = "done"] /\ UNCHANGED <<tick, anomaly, seen>>
        /\ code' = [code EXCEPT ![v] = Status!Surface(v)]
    BY <1>7 DEF Status!ReadAnomaly
  <2>5. Status!StatusHonest!(v)'
    <3>1. CASE code[v] # NoCode
      <4>1. code'[v] = code[v] /\ Status!Standing(m) = code[v]
        BY <2>2, <2>4, <3>1 DEF Status!Surface, Status!Standing
      <4>2. Status!Severity(code[v]) \in Int
        BY <2>2, <2>3, <3>1, SeverityOfCode
      <4> QED BY <2>2, <2>4, <3>1, <4>1, <4>2
    <3>2. CASE code[v] = NoCode /\ anomaly
      <4>1. code'[v] = Anomaly
        BY <2>4, <3>2 DEF Status!Surface
      <4>2. Status!Severity(Status!Standing(present)) \in {1, 2}
        BY <2>1, <3>2, SeverityOfCode DEF Status!Standing
      <4>3. Status!Severity(Status!Standing(m)) \in {0, 1}
        BY <2>2, <3>2, SeverityOfCode DEF Status!Standing
      <4>4. /\ \E n \in seen'[v] : Status!Severity(Status!Standing(n)) >= 1
            /\ \E n \in seen'[v] : Status!Severity(Status!Standing(n)) <= 1
        BY <2>1, <2>2, <2>4, <4>2, <4>3
      <4>5. \E n \in seen'[v] : n.anomaly
        BY <2>1, <2>4, <3>2
      <4> QED BY <4>1, <4>4, <4>5, SeverityOfCode
    <3>3. CASE code[v] = NoCode /\ ~anomaly
      <4>1. code'[v] = NoCode
        BY <2>4, <3>3 DEF Status!Surface
      <4>2. Status!Severity(Status!Standing(present)) \in {0, 1, 2}
        BY <2>1, <3>3, SeverityOfCode DEF Status!Standing
      <4>3. CASE m.anomaly /\ tick # NoCode
        BY <2>1, <2>2, <2>4, <3>3, <4>1, <4>2, <4>3, SeverityOfCode
      <4>4. CASE m.anomaly /\ tick = NoCode
        <5>1. Status!Standing(present) = NoCode
          BY <2>1, <3>3, <4>4 DEF Status!Standing
        <5> QED BY <2>1, <2>4, <4>1, <5>1, SeverityOfCode
      <4>5. CASE ~m.anomaly
        <5>1. Status!Standing(m) = NoCode
          BY <2>2, <3>3, <4>5 DEF Status!Standing
        <5> QED BY <2>2, <2>4, <4>1, <5>1, SeverityOfCode
      <4> QED BY <4>3, <4>4, <4>5
    <3> QED BY <3>1, <3>2, <3>3
  <2>6. Status!StatusHonest'
    BY <2>4, <2>5 DEF Status!StatusHonest
  <2>7. Status!Surface(v) \in AlarmCode \cup {NoCode, Anomaly}
    BY DEF Status!Surface
  <2> QED BY <2>4, <2>6, <2>7
<1>8. CASE UNCHANGED Status!vars
  BY <1>8 DEF Status!vars, Status!StatusHonest
<1> QED
  BY <1>1, <1>2, <1>3, <1>4, <1>5, <1>6, <1>7, <1>8 DEF Status!Next, Status!List, Status!Detail

\* Whatever the alarms do between its two reads, a request shows a status that
\* is no better and no worse than all the moments it took, but for the turn of
\* the two alarms (get_equipment_status and _effective_tick, service.py:76-82,
\* 165-171).
THEOREM StatusAlwaysHonest == ServicesSpec => []StatusHonest
<1> DEFINE Inv == subject = "status" => StatusInv
<1>1. ServicesInit => Inv
  BY StatusStarts DEF ServicesInit
<1>2. Inv /\ [ServicesNext]_servicesVars => Inv'
  BY SubjectStep, StatusStep
<1>3. Inv => StatusHonest
  BY DEF StatusInv, StatusHonest
<1> QED BY <1>1, <1>2, <1>3, PTL DEF ServicesSpec

-----------------------------------------------------------------------------
(* The signing keys.                                                       *)

\* Whoever keeps keys, the cache or a request, has every key the provider still
\* has that it published before the time they are kept under; and the key of a
\* token that is being checked was published once, so once withdrawn it never
\* comes back.
KeysInv ==
  /\ time \in 0..KeyTime /\ published \subseteq SigningKey
  /\ publishedAt \in [SigningKey -> Nat]
  /\ phase \in [SignIn -> {"idle", "metadata", "keys", "answered", "refused"}]
  /\ token \in [SignIn -> SigningKey \cup {CHOOSE k \in SigningKey : TRUE}]
  /\ asked \in [SignIn -> Nat] /\ got \in [SignIn -> SUBSET SigningKey]
  /\ jwks \in [at : Int, keys : SUBSET SigningKey] /\ jwks.at <= time
  /\ \A k \in published : /\ publishedAt[k] # Keys!Unpublished
                          /\ publishedAt[k] < jwks.at => k \in jwks.keys
  /\ \A r \in SignIn :
       /\ asked[r] <= time
       /\ phase[r] \in {"metadata", "keys", "answered"} =>
            token[r] \in SigningKey /\ publishedAt[token[r]] # Keys!Unpublished
       /\ phase[r] = "answered" =>
            /\ token[r] \in published => token[r] \in got[r]
            /\ \A k \in published : publishedAt[k] < asked[r] => k \in got[r]

\* Nothing is cached and nobody signs in.
LEMMA KeysStarts == Keys!Init => KeysInv
BY ServicesAssumption DEF Keys!KeysAssumption, Keys!Init, Keys!Never, Keys!Unpublished, KeysInv

\* What is not refused for an unknown key: one of the cache, while the cache is
\* fresh.
LEMMA FreshKeysKnown ==
  ASSUME KeysInv, NEW k \in published, Keys!Fresh(jwks.at), k \notin jwks.keys
  PROVE  time - publishedAt[k] < KeyTtl
BY ServicesAssumption DEF Keys!KeysAssumption, Keys!Fresh, KeysInv

\* Whichever of two answers is stored last, the cache lacks no key that is
\* older than the time it is kept under; and a token refused for an unknown key
\* had one that was withdrawn, or younger than the cache may be.
LEMMA KeysStep ==
  ASSUME KeysInv, [Keys!Next]_(Keys!vars)
  PROVE  KeysInv' /\ Keys!RefusedInTime
<1> USE DEF KeysInv, Keys!RefusedInTime
<1>0. KeyTtl \in Nat /\ KeyTime \in Nat /\ Keys!Unpublished = KeyTime + 1
  BY ServicesAssumption DEF Keys!KeysAssumption, Keys!Unpublished
<1>1. CASE Keys!Elapse
  BY <1>0, <1>1 DEF Keys!Elapse, Keys!provider, Keys!caches
<1>2. ASSUME NEW k \in SigningKey, Keys!Publish(k) PROVE KeysInv' /\ Keys!RefusedInTime
  BY <1>0, <1>2 DEF Keys!Publish, Keys!provider, Keys!caches
<1>3. ASSUME NEW k \in SigningKey, Keys!Withdraw(k) PROVE KeysInv' /\ Keys!RefusedInTime
  BY <1>0, <1>3 DEF Keys!Withdraw, Keys!provider, Keys!caches
<1>4. ASSUME NEW r \in SignIn, NEW k \in SigningKey, Keys!verify_oidc_jwt(r, k)
      PROVE KeysInv' /\ Keys!RefusedInTime
  BY <1>0, <1>4, FreshKeysKnown DEF Keys!verify_oidc_jwt, Keys!GetKeys, Keys!Verify, Keys!provider, Keys!caches
<1>5. ASSUME NEW r \in SignIn, Keys!StoreMetadata(r)
      PROVE KeysInv' /\ Keys!RefusedInTime
  BY <1>0, <1>5, FreshKeysKnown DEF Keys!StoreMetadata, Keys!GetKeys, Keys!Verify, Keys!provider, Keys!caches
<1>6. ASSUME NEW r \in SignIn, Keys!Answer(r)
      PROVE KeysInv' /\ Keys!RefusedInTime
  BY <1>0, <1>6 DEF Keys!Answer, Keys!provider, Keys!caches
<1>7. ASSUME NEW r \in SignIn, Keys!StoreKeys(r)
      PROVE KeysInv' /\ Keys!RefusedInTime
  BY <1>0, <1>7 DEF Keys!StoreKeys, Keys!Stamp, Keys!Verify, Keys!provider, Keys!caches
<1>8. ASSUME NEW r \in SignIn, Keys!Fail(r)
      PROVE KeysInv' /\ Keys!RefusedInTime
  BY <1>0, <1>8 DEF Keys!Fail, Keys!provider, Keys!caches
<1>9. CASE UNCHANGED Keys!vars
  BY <1>9 DEF Keys!vars, Keys!provider, Keys!caches
<1> QED
  BY <1>1, <1>2, <1>3, <1>4, <1>5, <1>6, <1>7, <1>8, <1>9 DEF Keys!Next

\* No token is refused for an unknown key once the key has been published as
\* long as the cache lives (_get_metadata, _get_jwks and verify_token,
\* auth/middleware.py:64-124).
THEOREM KeysKnownAfterTtl == ServicesSpec => KnownAfterTtl
<1> DEFINE Inv == subject = "keys" => KeysInv
<1>1. ServicesInit => Inv
  BY KeysStarts DEF ServicesInit
<1>2. Inv /\ [ServicesNext]_servicesVars => Inv'
  BY SubjectStep, KeysStep
<1>3. Inv /\ [ServicesNext]_servicesVars => [subject = "keys" => Keys!RefusedInTime]_servicesVars
  BY SubjectStep, KeysStep
<1> QED BY <1>1, <1>2, <1>3, PTL DEF ServicesSpec, KnownAfterTtl

-----------------------------------------------------------------------------
(* The incident plan.                                                      *)

\* The warnings of a search that failed, and the stages that know the context.
SearchWarnings == {"search failed", "search late"}
ContextKnown == {"tool", "filtered", "unfiltered", "searched", "done"}

\* The warnings always say what is missing: from the baseline on, that of the
\* context; once the search is over, its failure only beside no manuals; and of
\* the draft nothing before there is one.
PlanInv ==
  /\ phase \in ContextKnown \cup {"start", "incident", "refused"}
  /\ manuals \in {"none", "some"} /\ plan \in {"none", "ai", "checklist"}
  /\ phase \in {"start", "incident"} => warnings = {} /\ manuals = "none"
  /\ phase \in ContextKnown =>
       /\ incident = Plan!None => "no sensors" \in warnings
       /\ incident # Plan!None => (baseline = {} <=> "no baseline" \in warnings)
       /\ \A r \in baseline : r.at < Occurred /\ ~r.alarm
  /\ phase # "done" => warnings \cap Plan!PlanWarnings = {}
  /\ phase \in {"tool", "filtered", "unfiltered"} =>
       manuals = "none" /\ warnings \cap SearchWarnings = {}
  /\ phase = "searched" => (manuals = "some" => warnings \cap SearchWarnings = {})
  /\ Plan!PlanExplained

\* Nothing is read and nothing is missing.
LEMMA PlanStarts == Plan!Init => PlanInv
BY DEF Plan!Init, PlanInv, Plan!PlanExplained, Plan!PlanWarnings, ContextKnown

\* The cardinality that IncidentPlan speaks of is that of the library.
LEMMA PlanCardinality == ASSUME NEW S PROVE Plan!Cardinality(S) = Cardinality(S)
BY DEF Plan!Cardinality, Cardinality

\* The draft adds one warning or none.
LEMMA OneReason ==
  ASSUME NEW W, NEW x, W \cap Plan!PlanWarnings = {}, x \in Plan!PlanWarnings
  PROVE  Plan!Cardinality((W \cup {x}) \cap Plan!PlanWarnings) = 1
<1>1. (W \cup {x}) \cap Plan!PlanWarnings = {x}
  OBVIOUS
<1> QED BY <1>1, FS_Singleton, PlanCardinality

\* A draft explains itself when its reason fits.
LEMMA DraftExplained ==
  ASSUME PlanInv, phase = "searched",
         NEW kind \in {"ai", "checklist"}, NEW why \in SUBSET Plan!PlanWarnings,
         Plan!Draft(kind, why),
         kind = "ai" => manuals = "some" /\ why = {},
         kind = "checklist" => \E x \in Plan!PlanWarnings : why = {x},
         manuals = "none" => why = {"no manuals"}
  PROVE  PlanInv'
<1>1. /\ plan' = kind /\ warnings' = warnings \cup why /\ phase' = "done"
      /\ UNCHANGED <<incident, baseline, manuals>>
  BY DEF Plan!Draft
<1>2. /\ warnings \cap Plan!PlanWarnings = {} /\ manuals \in {"none", "some"}
      /\ manuals = "some" => warnings \cap SearchWarnings = {}
      /\ incident = Plan!None => "no sensors" \in warnings
      /\ incident # Plan!None => (baseline = {} <=> "no baseline" \in warnings)
      /\ \A r \in baseline : r.at < Occurred /\ ~r.alarm
  BY DEF PlanInv, ContextKnown
<1>3. /\ "no baseline" \in warnings' <=> "no baseline" \in warnings
      /\ "no sensors" \in warnings' <=> "no sensors" \in warnings
      /\ warnings' \cap SearchWarnings = warnings \cap SearchWarnings
  BY <1>1 DEF Plan!PlanWarnings, SearchWarnings
<1>4. (plan' = "ai" => manuals' = "some"
        /\ warnings' \cap (Plan!PlanWarnings \cup {"search failed", "search late"}) = {})
  BY <1>1, <1>2, <1>3 DEF SearchWarnings
<1>5. plan' = "checklist" => Plan!Cardinality(warnings' \cap Plan!PlanWarnings) = 1
  BY <1>1, <1>2, OneReason
<1>6. warnings' \cap {"search failed", "search late"} # {} => "no manuals" \in warnings'
  BY <1>1, <1>2, <1>3 DEF SearchWarnings
<1>7. warnings' = {} => incident' # Plan!None /\ baseline' # {} /\ plan' = "ai"
  BY <1>1, <1>2
<1>8. Plan!HasDelta' => /\ \E r \in baseline' : r.at < Occurred /\ ~r.alarm
                        /\ "no baseline" \notin warnings'
  BY <1>1, <1>2, <1>3 DEF Plan!HasDelta, Plan!HasDeviation
<1>9. Plan!PlanExplained'
  <2>1. Plan!PlanWarnings' = Plan!PlanWarnings
    BY DEF Plan!PlanWarnings
  <2> QED BY <1>4, <1>5, <1>6, <1>7, <1>8, <2>1 DEF Plan!PlanExplained
<1> QED BY <1>1, <1>2, <1>3, <1>9 DEF PlanInv, ContextKnown

\* Every step keeps the warnings in line with what it found.
LEMMA PlanStep == PlanInv /\ [Plan!Next]_(Plan!vars) => PlanInv'
<1> SUFFICES ASSUME PlanInv, [Plan!Next]_(Plan!vars) PROVE PlanInv'
  OBVIOUS
<1> USE DEF PlanInv, ContextKnown, SearchWarnings
<1>1. CASE Plan!Telemetry
  BY <1>1 DEF Plan!Telemetry, Plan!PlanExplained
<1>2. CASE Plan!ReadIncident
  BY <1>2 DEF Plan!ReadIncident, Plan!PlanExplained
<1>3. CASE Plan!ReadBaseline
  <2>1. /\ warnings' = Plan!ContextWarnings(Plan!Normal) /\ baseline' = Plan!Normal
        /\ phase' = "tool" /\ phase = "incident" /\ UNCHANGED <<incident, manuals, plan>>
    BY <1>3 DEF Plan!ReadBaseline
  <2>2. /\ warnings' \subseteq {"no sensors", "no baseline"}
        /\ incident = Plan!None => warnings' = {"no sensors"}
        /\ incident # Plan!None => (baseline' = {} <=> "no baseline" \in warnings')
    BY <2>1 DEF Plan!ContextWarnings
  <2>3. \A r \in baseline' : r.at < Occurred /\ ~r.alarm
    BY <2>1 DEF Plan!Normal
  <2>4. warnings' \cap Plan!PlanWarnings = {} /\ warnings' \cap SearchWarnings = {}
    BY <2>2 DEF Plan!PlanWarnings
  <2>5. manuals = "none"
    BY <2>1
  <2> QED BY <2>1, <2>2, <2>3, <2>4, <2>5 DEF Plan!PlanExplained, Plan!None
<1>4. CASE Plan!LoadTool
  BY <1>4 DEF Plan!LoadTool, Plan!PlanExplained
<1>5. CASE Plan!SearchFiltered
  BY <1>5 DEF Plan!SearchFiltered, Plan!PlanExplained
<1>6. CASE Plan!SearchUnfiltered
  BY <1>6 DEF Plan!SearchUnfiltered, Plan!PlanExplained
<1>7. CASE Plan!SearchFailed \/ Plan!SearchLate
  BY <1>7 DEF Plan!SearchFailed, Plan!SearchLate, Plan!Searching, Plan!PlanExplained, Plan!PlanWarnings
<1>8. CASE Plan!DraftFromChecklist
  <2>1. CASE manuals = "none"
    BY <1>8, <2>1, DraftExplained DEF Plan!DraftFromChecklist, Plan!PlanWarnings
  <2>2. CASE manuals # "none"
    BY <1>8, <2>2, DraftExplained DEF Plan!DraftFromChecklist, Plan!PlanWarnings
  <2> QED BY <2>1, <2>2
<1>9. CASE Plan!DraftByModel
  BY <1>9, DraftExplained DEF Plan!DraftByModel
<1>10. CASE Plan!ModelFailed
  BY <1>10, DraftExplained DEF Plan!ModelFailed, Plan!PlanWarnings
<1>11. CASE UNCHANGED Plan!vars
  BY <1>11 DEF Plan!vars, Plan!PlanExplained, Plan!HasDelta, Plan!HasDeviation
<1> QED
  BY <1>1, <1>2, <1>3, <1>4, <1>5, <1>6, <1>7, <1>8, <1>9, <1>10, <1>11 DEF Plan!Next

\* The answer of a plan explains what it lacks, whatever rows arrived between
\* its reads (run_incident_plan, incident/service.py:258-305).
THEOREM PlanAlwaysExplained == ServicesSpec => []PlanExplained
<1> DEFINE Inv == subject = "plan" => PlanInv
<1>1. ServicesInit => Inv
  BY PlanStarts DEF ServicesInit
<1>2. Inv /\ [ServicesNext]_servicesVars => Inv'
  BY SubjectStep, PlanStep
<1>3. Inv => PlanExplained
  BY DEF PlanInv, PlanExplained
<1> QED BY <1>1, <1>2, <1>3, PTL DEF ServicesSpec

-----------------------------------------------------------------------------
(* The data window.                                                        *)

\* The window over `k` was `s` at some time from `from` to `n`, or could not be
\* told then.
Had(p, n, k, s, from) == \E t \in 1..n : s \in p[k][t] /\ t >= from

\* A window is old enough to be judged by.
Recent(w, p, n) == Had(p, n, w.key, w.span, w.asked - WindowTtl + 1)

\* A window by its fields.
IsWindow(w) ==
  /\ w = [key |-> w.key, span |-> w.span, asked |-> w.asked]
  /\ w.key \in Suggest!Key /\ w.asked \in Nat

\* What a request may be judged by at time `n`, given the past `p`.
CallInv(c, p, n) ==
  /\ c = [at |-> c.at, sent |-> c.sent, answer |-> c.answer, window |-> c.window,
          primary |-> c.primary, period |-> c.period]
  /\ c.sent \in Nat /\ c.sent <= n /\ IsWindow(c.window) /\ IsWindow(c.primary)
  /\ c.sent > 0 \/ c.answer # {} =>
       c.at \in {"primary", "named"} /\ c.sent = c.window.asked
  /\ \A s \in c.answer : Had(p, n, c.window.key, s, c.sent)
  /\ c.at \in {"asking", "named", "judging"} => Recent(c.primary, p, n)
  /\ c.at = "judging" => Recent(c.window, p, n)

\* The past knows the present.
PastInv ==
  /\ time \in 1..WindowTime
  /\ DOMAIN past = Suggest!Key
  /\ \A k \in Suggest!Key : /\ DOMAIN past[k] = 1..WindowTime
                            /\ Suggest!Span(data, k) \in past[k][time]

\* The cache keeps what was so when its life began.
CacheInv ==
  /\ cache = [k \in Suggest!Key |-> cache[k]]
  /\ \A k \in Suggest!Key :
       /\ cache[k].until \in Nat
       /\ cache[k].until > 0 =>
            Had(past, time, k, cache[k].span, cache[k].until - WindowTtl)

\* All requests.
CallsInv ==
  /\ call = [r \in Question |-> call[r]]
  /\ \A r \in Question : CallInv(call[r], past, time)

\* Every window that is kept, in the cache, in an answer on its way or in a
\* request, was there at a time not before the one it is kept under.
SuggestInv == PastInv /\ CacheInv /\ CallsInv

\* The past up to `n` only grows.
Grows(p, q, n) == \A k \in Suggest!Key, t \in 1..n : p[k][t] \subseteq q[k][t]

\* What was so once stays so.
LEMMA HadGrows ==
  ASSUME NEW p, NEW q, NEW n \in Nat, NEW m \in Nat, n <= m, Grows(p, q, n),
         NEW k \in Suggest!Key, NEW s, NEW from, Had(p, n, k, s, from)
  PROVE  Had(q, m, k, s, from)
BY DEF Had, Grows

\* So does what a request has.
LEMMA CallGrows ==
  ASSUME NEW p, NEW q, NEW n \in Nat, NEW m \in Nat, n <= m, NEW c,
         Grows(p, q, n), CallInv(c, p, n)
  PROVE  CallInv(c, q, m)
<1>1. /\ c.sent \in Nat /\ c.sent <= n /\ IsWindow(c.window) /\ IsWindow(c.primary)
      /\ \A s \in c.answer : Had(p, n, c.window.key, s, c.sent)
  BY DEF CallInv
<1>2. ASSUME NEW s \in c.answer PROVE Had(q, m, c.window.key, s, c.sent)
  BY <1>1, HadGrows DEF IsWindow
<1>3. ASSUME NEW w, IsWindow(w), Recent(w, p, n) PROVE Recent(w, q, m)
  BY <1>3, HadGrows DEF IsWindow, Recent
<1> QED BY <1>1, <1>2, <1>3 DEF CallInv

\* What a service is told of goes into the past of the present time.
LEMMA PastGrows ==
  ASSUME PastInv, time' \in 1..WindowTime, time <= time',
         past' = [k \in Suggest!Key |->
                    [past[k] EXCEPT ![time'] = @ \cup {Suggest!Span(data', k)}]]
  PROVE  PastInv' /\ Grows(past, past', time)
<1>0. Suggest!Key' = Suggest!Key
  BY DEF Suggest!Key
<1>1. ASSUME NEW k \in Suggest!Key
      PROVE  past'[k] = [t \in 1..WindowTime |-> IF t = time'
               THEN past[k][t] \cup {Suggest!Span(data', k)} ELSE past[k][t]]
  <2>1. DOMAIN past[k] = 1..WindowTime
    BY DEF PastInv
  <2>2. past'[k] = [past[k] EXCEPT ![time'] = @ \cup {Suggest!Span(data', k)}]
    OBVIOUS
  <2> QED BY <2>1, <2>2
<1>2. ASSUME NEW k \in Suggest!Key
      PROVE  /\ DOMAIN past'[k] = 1..WindowTime
             /\ Suggest!Span(data', k) \in past'[k][time']
             /\ \A t \in 1..time : past[k][t] \subseteq past'[k][t]
  <2>1. time \in 1..WindowTime /\ WindowTime \in Nat
    BY ServicesAssumption DEF Suggest!SuggestAssumption, PastInv
  <2>2. \A t \in 1..time : t \in 1..WindowTime
    BY <2>1
  <2> QED BY <1>1, <2>1, <2>2
<1>3. Grows(past, past', time)
  BY <1>2 DEF Grows
<1>4. DOMAIN past' = Suggest!Key
  OBVIOUS
<1> QED BY <1>0, <1>2, <1>3, <1>4 DEF PastInv

\* So do the cache and the requests.
LEMMA CacheGrows ==
  ASSUME PastInv, CacheInv, Grows(past, past', time), time' \in Nat, time <= time',
         UNCHANGED cache
  PROVE  CacheInv'
<1>0. time \in Nat /\ Suggest!Key' = Suggest!Key /\ cache' = cache
  BY DEF PastInv, Suggest!Key
<1>1. ASSUME NEW k \in Suggest!Key, cache[k].until > 0
      PROVE  Had(past', time', k, cache[k].span, cache[k].until - WindowTtl)
  <2>1. Had(past, time, k, cache[k].span, cache[k].until - WindowTtl)
    BY <1>1 DEF CacheInv
  <2> QED BY <1>0, <2>1, HadGrows
<1> QED BY <1>0, <1>1 DEF CacheInv

\* All requests keep what they have.
LEMMA CallsGrow ==
  ASSUME PastInv, CallsInv, Grows(past, past', time), time' \in Nat, time <= time',
         NEW r \in Question
  PROVE  CallInv(call[r], past', time')
<1>1. time \in Nat /\ CallInv(call[r], past, time)
  BY DEF PastInv, CallsInv
<1> QED BY <1>1, CallGrows

\* A request goes on with a window that was taken from the cache or the answer.
LEMMA UseKeeps ==
  ASSUME NEW c, NEW s, NEW p, NEW n \in Nat,
         c = [at |-> c.at, sent |-> c.sent, answer |-> c.answer, window |-> c.window,
              primary |-> c.primary, period |-> c.period],
         IsWindow(c.window), IsWindow(c.primary),
         c.at \in {"primary", "named"}, c.at = "named" => Recent(c.primary, p, n),
         Had(p, n, c.window.key, s, c.window.asked - WindowTtl + 1)
  PROVE  CallInv(Suggest!Use(c, s), p, n)
<1> DEFINE window == [key |-> c.window.key, span |-> s, asked |-> c.window.asked]
<1>1. IsWindow(window) /\ Recent(window, p, n) /\ [c.window EXCEPT !.span = s] = window
  BY DEF IsWindow, Recent
<1> HIDE DEF window
<1>2. CASE c.at = "primary"
  <2>1. Suggest!Use(c, s) = [at |-> "asking", sent |-> 0, answer |-> {}, window |-> window,
                             primary |-> window, period |-> c.period]
    BY <1>1, <1>2 DEF Suggest!Use
  <2> QED BY <1>1, <2>1 DEF CallInv
<1>3. CASE c.at = "named"
  <2>1. Suggest!Use(c, s) = [at |-> "judging", sent |-> 0, answer |-> {}, window |-> window,
                             primary |-> c.primary, period |-> c.period]
    BY <1>1, <1>3 DEF Suggest!Use
  <2> QED BY <1>1, <1>3, <2>1 DEF CallInv
<1> QED BY <1>2, <1>3

\* Nothing is cached and nobody asks.
LEMMA SuggestStarts == Suggest!Init => SuggestInv
<1> SUFFICES ASSUME Suggest!Init PROVE SuggestInv
  OBVIOUS
<1>0. WindowTtl \in Nat /\ WindowTime \in Nat \ {0}
  BY ServicesAssumption DEF Suggest!SuggestAssumption
<1>1. ASSUME NEW k \in Suggest!Key PROVE Suggest!Span(data, k) = 0
  <2>1. \A e \in Equipment : data[e] = 0
    BY DEF Suggest!Init
  <2>2. {0} \cup {data[e] : e \in Equipment} = {0}
    BY <2>1
  <2>3. (CHOOSE s \in {0} \cup {data[e] : e \in Equipment} : \A e \in Equipment : data[e] <= s) = 0
    BY <2>1, <2>2
  <2> QED BY <2>1, <2>3 DEF Suggest!Span, Suggest!Key
<1>2. CallInv(Suggest!Idle, past, time)
  BY DEF Suggest!Init, CallInv, IsWindow, Suggest!Idle, Suggest!NoWindow, Suggest!Key
<1>3. PastInv
  <2>1. time = 1 /\ past = [k \in Suggest!Key |->
                             [t \in 1..WindowTime |-> IF t = 1 THEN {0} ELSE {}]]
    BY DEF Suggest!Init
  <2>2. ASSUME NEW k \in Suggest!Key
        PROVE  DOMAIN past[k] = 1..WindowTime /\ past[k][1] = {0}
    <3>1. past[k] = [t \in 1..WindowTime |-> IF t = 1 THEN {0} ELSE {}]
      BY <2>1
    <3> QED BY <1>0, <3>1
  <2> QED BY <1>0, <1>1, <2>1, <2>2 DEF PastInv
<1>4. CacheInv
  BY DEF Suggest!Init, CacheInv
<1>5. CallsInv
  BY <1>2 DEF Suggest!Init, CallsInv
<1> QED BY <1>3, <1>4, <1>5 DEF SuggestInv

\* One request goes on to `c`, the others stay.
LEMMA OneCall ==
  ASSUME CallsInv, NEW r \in Question, NEW c, call' = [call EXCEPT ![r] = c],
         UNCHANGED <<past, time>>, CallInv(c, past, time)
  PROVE  CallsInv'
BY DEF CallsInv

\* A request looks a window up, in the cache or by a query.
LEMMA LookupKeeps ==
  ASSUME PastInv, CacheInv, CallsInv, NEW r \in Question, NEW k \in Suggest!Key, NEW c,
         c = [at |-> c.at, sent |-> 0, answer |-> {}, window |-> c.window,
              primary |-> c.primary, period |-> c.period],
         IsWindow(c.primary), c.at \in {"primary", "named"},
         c.at = "named" => Recent(c.primary, past, time),
         Suggest!Lookup(r, c, k), UNCHANGED <<past, time>>
  PROVE  CallsInv'
<1> DEFINE w == [key |-> k, span |-> 0, asked |-> time]
           asking == [at |-> c.at, sent |-> 0, answer |-> {}, window |-> w,
                     primary |-> c.primary, period |-> c.period]
<1>1. /\ [c EXCEPT !.window = w] = asking
      /\ [asking EXCEPT !.sent = time] =
           [at |-> c.at, sent |-> time, answer |-> {}, window |-> w,
            primary |-> c.primary, period |-> c.period]
  OBVIOUS
<1>2. WindowTtl \in Nat /\ time \in Nat /\ IsWindow(w)
  BY ServicesAssumption DEF Suggest!SuggestAssumption, PastInv, IsWindow
<1>3. CASE Suggest!Hit(k)
  <2>1. call' = [call EXCEPT ![r] = Suggest!Use(asking, cache[k].span)]
    BY <1>1, <1>3 DEF Suggest!Lookup
  <2>2. Had(past, time, k, cache[k].span, time - WindowTtl + 1)
    BY <1>2, <1>3 DEF CacheInv, Had, Suggest!Hit
  <2>3. CallInv(Suggest!Use(asking, cache[k].span), past, time)
    BY <1>2, <2>2, UseKeeps
  <2> QED BY <2>1, <2>3, OneCall
<1>4. CASE ~Suggest!Hit(k)
  <2>1. call' = [call EXCEPT ![r] = [asking EXCEPT !.sent = time]]
    BY <1>1, <1>4 DEF Suggest!Lookup
  <2>2. CallInv([asking EXCEPT !.sent = time], past, time)
    BY <1>1, <1>2 DEF CallInv
  <2> QED BY <2>1, <2>2, OneCall
<1> QED BY <1>3, <1>4

\* What a candidate changes of its request.
LEMMA CandidateForm ==
  ASSUME NEW c, NEW p, NEW at, NEW sent, NEW reply, NEW window, NEW primary, NEW period,
         c = [at |-> at, sent |-> sent, answer |-> reply, window |-> window,
              primary |-> primary, period |-> period]
  PROVE  /\ Suggest!Judged(c, p) =
              [at |-> "judging", sent |-> sent, answer |-> reply, window |-> primary,
               primary |-> primary, period |-> p]
         /\ Suggest!Named(c, p) =
              [at |-> "named", sent |-> sent, answer |-> reply, window |-> window,
               primary |-> primary, period |-> p]
<1> DEFINE judging == [c EXCEPT !.at = "judging"]
           windowed == [judging EXCEPT !.window = c.primary]
           named == [c EXCEPT !.at = "named"]
<1>1. /\ Suggest!Judged(c, p) = [windowed EXCEPT !.period = p]
      /\ Suggest!Named(c, p) = [named EXCEPT !.period = p]
  BY DEF Suggest!Judged, Suggest!Named
<1>2. /\ judging = [at |-> "judging", sent |-> sent, answer |-> reply, window |-> window,
                    primary |-> primary, period |-> period]
      /\ named = [at |-> "named", sent |-> sent, answer |-> reply, window |-> window,
                  primary |-> primary, period |-> period]
      /\ c.primary = primary
  OBVIOUS
<1> HIDE DEF judging, named
<1>3. windowed = [at |-> "judging", sent |-> sent, answer |-> reply, window |-> primary,
                  primary |-> primary, period |-> period]
  BY <1>2
<1> HIDE DEF windowed
<1>4. /\ [windowed EXCEPT !.period = p] =
           [at |-> "judging", sent |-> sent, answer |-> reply, window |-> primary,
            primary |-> primary, period |-> p]
      /\ [named EXCEPT !.period = p] =
           [at |-> "named", sent |-> sent, answer |-> reply, window |-> window,
            primary |-> primary, period |-> p]
  BY <1>2, <1>3
<1> QED BY <1>1, <1>4

\* Every query, reply and change of the data keeps the windows recent.
LEMMA SuggestStep == SuggestInv /\ [Suggest!Next]_(Suggest!vars) => SuggestInv'
<1> SUFFICES ASSUME SuggestInv, [Suggest!Next]_(Suggest!vars) PROVE SuggestInv'
  OBVIOUS
<1>0. /\ WindowTtl \in Nat \ {0} /\ WindowTime \in Nat /\ time \in 1..WindowTime
      /\ Suggest!Key' = Suggest!Key
      /\ PastInv /\ CacheInv /\ CallsInv
  BY ServicesAssumption DEF Suggest!SuggestAssumption, SuggestInv, PastInv, Suggest!Key
<1>1. CASE Suggest!Elapse
  <2>1. /\ time' \in 1..WindowTime /\ time <= time' /\ UNCHANGED <<data, cache, call>>
        /\ past' = [k \in Suggest!Key |->
             [past[k] EXCEPT ![time'] = @ \cup {Suggest!Span(data, k)}]]
    BY <1>0, <1>1 DEF Suggest!Elapse, Suggest!Remember
  <2>2. PastInv' /\ Grows(past, past', time)
    BY <1>0, <2>1, PastGrows
  <2> QED BY <1>0, <2>1, <2>2, CacheGrows, CallsGrow DEF SuggestInv, CallsInv
<1>2. CASE Suggest!Write
  <2>1. /\ UNCHANGED <<time, cache, call>>
        /\ past' = [k \in Suggest!Key |->
             [past[k] EXCEPT ![time] = @ \cup {Suggest!Span(data', k)}]]
    BY <1>0, <1>2 DEF Suggest!Write, Suggest!Remember
  <2>2. PastInv' /\ Grows(past, past', time)
    BY <1>0, <2>1, PastGrows
  <2> QED BY <1>0, <2>1, <2>2, CacheGrows, CallsGrow DEF SuggestInv, CallsInv
<1>3. ASSUME NEW r \in Question, Suggest!Query(r) PROVE SuggestInv'
  <2> DEFINE c == call[r]
             k == call[r].window.key
             answered(s) == [c EXCEPT !.answer = {s}]
  <2>1. /\ CallInv(c, past, time) /\ c.sent > 0 /\ c.answer = {} /\ k \in Suggest!Key
        /\ UNCHANGED <<time, data, cache>>
    BY <1>0, <1>3 DEF Suggest!Query, CallsInv, CallInv, IsWindow
  <2>2. ASSUME NEW s, NEW p, Had(p, time, k, s, c.sent), CallInv(c, p, time)
        PROVE  CallInv(answered(s), p, time)
    BY <2>1, <2>2 DEF CallInv, IsWindow, Recent
  <2>3. CASE call' = [call EXCEPT ![r].answer = {Suggest!Span(data, k)}] /\ UNCHANGED past
    <3>1. Had(past, time, k, Suggest!Span(data, k), c.sent)
      BY <1>0, <2>1 DEF Had, PastInv, CallInv
    <3>2. call' = [call EXCEPT ![r] = answered(Suggest!Span(data, k))]
      BY <2>3
    <3>3. CallsInv'
      BY <1>0, <2>1, <2>2, <2>3, <3>1, <3>2, OneCall
    <3> QED BY <1>0, <2>1, <2>3, <3>3 DEF SuggestInv, PastInv, CacheInv
  <2>4. CASE /\ call' = [call EXCEPT ![r].answer = {Suggest!Unknown}]
             /\ past' = [past EXCEPT ![k][time] = @ \cup {Suggest!Unknown}]
    <3>1. \A q \in Suggest!Key : past'[q] = IF q = k
            THEN [past[k] EXCEPT ![time] = @ \cup {Suggest!Unknown}] ELSE past[q]
      BY <1>0, <2>1, <2>4 DEF PastInv
    <3>2. PastInv' /\ Grows(past, past', time)
      BY <1>0, <2>1, <2>4, <3>1 DEF PastInv, Grows
    <3>3. CacheInv' /\ \A q \in Question : CallInv(call[q], past', time)
      BY <1>0, <2>1, <3>2, CacheGrows, CallsGrow
    <3>4. Had(past', time, k, Suggest!Unknown, c.sent)
      BY <1>0, <2>1, <3>1 DEF Had, PastInv, CallInv
    <3>5. CallInv(answered(Suggest!Unknown), past', time)
      BY <2>2, <3>3, <3>4
    <3>6. CallsInv'
      BY <1>0, <2>1, <2>4, <3>3, <3>5 DEF CallsInv
    <3> QED BY <3>2, <3>3, <3>6 DEF SuggestInv
  <2> QED BY <1>3, <2>3, <2>4 DEF Suggest!Query
<1>4. ASSUME NEW r \in Question, Suggest!Store(r) PROVE SuggestInv'
  <2> DEFINE c == call[r]
             k == call[r].window.key
  <2>1. PICK s \in c.answer :
          /\ cache' = [cache EXCEPT ![k] = [span |-> s, until |-> c.sent + WindowTtl]]
          /\ call' = [call EXCEPT ![r] = Suggest!Use(c, s)]
          /\ UNCHANGED <<time, data, past>>
    BY <1>4 DEF Suggest!Store, Suggest!Until
  <2>2. /\ CallInv(c, past, time) /\ k \in Suggest!Key /\ c.sent = c.window.asked
        /\ Had(past, time, k, s, c.sent)
    BY <1>0, <2>1 DEF CallsInv, CallInv, IsWindow
  <2>3. CacheInv'
    BY <1>0, <2>1, <2>2 DEF CacheInv, CallInv
  <2>4. Had(past, time, k, s, c.window.asked - WindowTtl + 1)
    BY <1>0, <2>2 DEF Had, CallInv
  <2>5. CallInv(Suggest!Use(c, s), past, time)
    <3>1. /\ c = [at |-> c.at, sent |-> c.sent, answer |-> c.answer, window |-> c.window,
                  primary |-> c.primary, period |-> c.period]
          /\ IsWindow(c.window) /\ IsWindow(c.primary) /\ c.at \in {"primary", "named"}
          /\ c.at = "named" => Recent(c.primary, past, time)
      BY <2>1, <2>2 DEF CallInv
    <3> QED BY <1>0, <2>4, <3>1, UseKeeps
  <2>6. CallsInv'
    BY <1>0, <2>1, <2>5, OneCall
  <2> QED BY <1>0, <2>1, <2>3, <2>6 DEF SuggestInv, PastInv
<1>5. ASSUME NEW r \in Question, NEW k \in Suggest!Key, Suggest!Ask(r, k) PROVE SuggestInv'
  <2> DEFINE c == [at |-> "primary", sent |-> 0, answer |-> {}, window |-> Suggest!NoWindow,
                   primary |-> Suggest!NoWindow, period |-> 0]
  <2>1. Suggest!Lookup(r, c, k) /\ UNCHANGED <<time, data, cache, past>>
    BY <1>5 DEF Suggest!Ask, Suggest!Idle
  <2>2. IsWindow(Suggest!NoWindow)
    BY DEF IsWindow, Suggest!NoWindow, Suggest!Key
  <2>3. CallsInv'
    BY <1>0, <2>1, <2>2, LookupKeeps
  <2> QED BY <1>0, <2>1, <2>3 DEF SuggestInv, PastInv, CacheInv
<1>6. ASSUME NEW r \in Question, NEW p \in 0..MaxSpan, Suggest!Candidate(r, p)
      PROVE SuggestInv'
  <2> DEFINE c == call[r]
             named == [at |-> "named", sent |-> 0, answer |-> {}, window |-> c.window,
                       primary |-> c.primary, period |-> p]
             judging == [at |-> "judging", sent |-> 0, answer |-> {}, window |-> c.primary,
                         primary |-> c.primary, period |-> p]
  <2>1. CallInv(c, past, time) /\ c.at = "asking" /\ UNCHANGED <<time, data, cache, past>>
    BY <1>0, <1>6 DEF Suggest!Candidate, CallsInv
  <2>2. c.sent = 0 /\ c.answer = {} /\ IsWindow(c.primary) /\ Recent(c.primary, past, time)
    BY <2>1 DEF CallInv
  <2>3. Suggest!Judged(c, p) = judging /\ Suggest!Named(c, p) = named
    <3>1. c = [at |-> "asking", sent |-> 0, answer |-> {}, window |-> c.window,
               primary |-> c.primary, period |-> c.period]
      BY <2>1, <2>2 DEF CallInv
    <3> HIDE DEF c
    <3> QED BY <3>1, CandidateForm
  <2>4. CASE call' = [call EXCEPT ![r] = Suggest!Judged(c, p)]
    <3>1. CallInv(judging, past, time)
      BY <1>0, <2>2 DEF CallInv
    <3> QED BY <1>0, <2>1, <2>3, <2>4, <3>1, OneCall DEF SuggestInv, PastInv, CacheInv
  <2>5. ASSUME NEW e \in Equipment, Suggest!Lookup(r, Suggest!Named(c, p), e)
        PROVE  SuggestInv'
    <3>1. Suggest!Lookup(r, named, e) /\ e \in Suggest!Key
      BY <2>3, <2>5 DEF Suggest!Key
    <3>2. CallsInv'
      BY <1>0, <2>1, <2>2, <3>1, LookupKeeps
    <3> QED BY <1>0, <2>1, <3>2 DEF SuggestInv, PastInv, CacheInv
  <2> QED BY <1>6, <2>4, <2>5 DEF Suggest!Candidate
<1>7. ASSUME NEW r \in Question, Suggest!Judge(r) \/ Suggest!Finish(r) PROVE SuggestInv'
  <2> DEFINE c == call[r]
  <2>1. PICK at \in {"done", "asking"} :
          /\ call' = [call EXCEPT ![r].at = at] /\ c.at \in {"judging", "asking"}
          /\ UNCHANGED <<time, data, cache, past>>
    BY <1>7 DEF Suggest!Judge, Suggest!Finish, Suggest!Goto
  <2>2. CallInv(c, past, time)
    BY <1>0 DEF CallsInv
  <2>3. call' = [call EXCEPT ![r] = [c EXCEPT !.at = at]] /\ CallInv([c EXCEPT !.at = at], past, time)
    BY <1>0, <2>1, <2>2 DEF CallInv
  <2> QED BY <1>0, <2>1, <2>3, OneCall DEF SuggestInv, PastInv, CacheInv
<1>8. CASE UNCHANGED Suggest!vars
  BY <1>0, <1>8 DEF Suggest!vars, SuggestInv, PastInv, CacheInv, CallsInv
<1> QED
  BY <1>1, <1>2, <1>3, <1>4, <1>5, <1>6, <1>7, <1>8 DEF Suggest!Next

\* A question is judged by a window its equipment had no longer ago than the
\* cache may keep it, however late the queries answer (retention.py:86-109).
THEOREM WindowAlwaysRecent == ServicesSpec => []WindowRecent
<1> DEFINE Inv == subject = "suggest" => SuggestInv
<1>1. ServicesInit => Inv
  BY SuggestStarts DEF ServicesInit
<1>2. Inv /\ [ServicesNext]_servicesVars => Inv'
  BY SubjectStep, SuggestStep
<1>3. Inv => WindowRecent
  <2> SUFFICES ASSUME SuggestInv, NEW r \in Question, call[r].at = "judging"
               PROVE  \E t \in 1..time :
                        /\ call[r].window.span \in past[call[r].window.key][t]
                        /\ t > call[r].window.asked - WindowTtl
    BY DEF WindowRecent, Suggest!WindowRecent
  <2>1. IsWindow(call[r].window) /\ Recent(call[r].window, past, time) /\ WindowTtl \in Nat
    BY ServicesAssumption DEF Suggest!SuggestAssumption, SuggestInv, CallsInv, CallInv
  <2> QED BY <2>1 DEF Recent, Had, IsWindow
<1> QED BY <1>1, <1>2, <1>3, PTL DEF ServicesSpec

-----------------------------------------------------------------------------
(* The manuals.                                                            *)

\* What the store holds of a manual.
Chunk == [doc : Doc, version : Int, part : 1..Chunks, load : Nat]

\* What the server holds was stored since it started.
KnowledgeInv ==
  /\ file \in [Doc -> Int] /\ loads \in Nat
  /\ stored \in SUBSET Chunk
  /\ stored \subseteq since /\ found \subseteq since
  /\ index = Knowledge!None \/ index \subseteq since
  /\ Knowledge!KnowledgeWhole

\* The cardinality that KnowledgeStore speaks of is that of the library.
LEMMA KnowledgeCardinality == ASSUME NEW S PROVE Knowledge!Cardinality(S) = Cardinality(S)
BY DEF Knowledge!Cardinality, Cardinality

\* Nothing is stored and nothing was found.
LEMMA KnowledgeStarts == Knowledge!Init => KnowledgeInv
<1>1. Knowledge!Cardinality({}) <= TopK
  BY KnowledgeCardinality, FS_EmptySet, ServicesAssumption DEF Knowledge!KnowledgeAssumption
<1> QED BY <1>1 DEF Knowledge!Init, KnowledgeInv, Knowledge!KnowledgeWhole

\* A manual stays whole when its chunks are replaced by those of one version.
LEMMA WholeUpsert ==
  ASSUME KnowledgeInv, NEW d \in Doc, NEW n \in Nat, stored' = Knowledge!Upsert(d, Knowledge!ChunksOf(d, n))
  PROVE  /\ stored' \in SUBSET Chunk
         /\ \A c \in stored' : \A part \in 1..Chunks :
              {x \in stored' : x.doc = c.doc /\ x.part = part} = {[c EXCEPT !.part = part]}
<1> DEFINE new == Knowledge!ChunksOf(d, n)
           At(i) == [doc |-> d, version |-> file[d], part |-> i, load |-> n]
<1>1. stored' = {c \in stored : c.doc # d} \cup new
  BY DEF Knowledge!Upsert
<1>2. new = {} \/ new = {At(i) : i \in 1..Chunks}
  BY DEF Knowledge!ChunksOf
<1>3. \A i \in 1..Chunks : /\ At(i) \in Chunk
                           /\ At(i).doc = d /\ At(i).part = i
  BY DEF Chunk, KnowledgeInv
<1>4. new \in SUBSET Chunk
  BY <1>2, <1>3
<1>5. ASSUME NEW c \in stored', NEW part \in 1..Chunks
      PROVE  {x \in stored' : x.doc = c.doc /\ x.part = part} = {[c EXCEPT !.part = part]}
  <2>1. CASE c \in new
    <3>1. PICK i \in 1..Chunks : c = At(i)
      BY <1>2, <2>1
    <3>2. [c EXCEPT !.part = part] = At(part)
      BY <3>1
    <3>3. \A x \in stored' : x.doc = d => x \in new
      BY <1>1
    <3>4. c.doc = d /\ new = {At(j) : j \in 1..Chunks}
      BY <1>2, <1>3, <2>1, <3>1
    <3>5. At(part) \in stored' /\ At(part).doc = d /\ At(part).part = part
      BY <1>1, <1>3, <3>4
    <3>6. ASSUME NEW x \in stored', x.doc = d, x.part = part PROVE x = At(part)
      <4>1. PICK j \in 1..Chunks : x = At(j)
        BY <3>3, <3>4, <3>6
      <4> QED BY <1>3, <3>6, <4>1
    <3> HIDE DEF new, At
    <3> QED BY <3>2, <3>4, <3>5, <3>6
  <2>2. CASE c \notin new
    <3>1. c \in stored /\ c.doc # d
      BY <1>1, <2>2
    <3>2. \A x : x \in stored' /\ x.doc = c.doc <=> x \in stored /\ x.doc = c.doc
      <4>1. \A x \in new : x.doc = d
        BY <1>2, <1>3
      <4> HIDE DEF new
      <4> QED BY <1>1, <3>1, <4>1
    <3>3. {x \in stored : x.doc = c.doc /\ x.part = part} = {[c EXCEPT !.part = part]}
      BY <3>1 DEF KnowledgeInv, Knowledge!KnowledgeWhole
    <3>4. {x \in stored' : x.doc = c.doc /\ x.part = part}
            = {x \in stored : x.doc = c.doc /\ x.part = part}
      BY <3>2
    <3> QED BY <3>3, <3>4
  <2> QED BY <2>1, <2>2
<1> HIDE DEF new
<1>6. stored' \in SUBSET Chunk
  BY <1>1, <1>4 DEF KnowledgeInv
<1> QED BY <1>5, <1>6

\* Commands that stop half way, reloads and searches leave manuals whole, and
\* find only what was stored.
LEMMA KnowledgeStep ==
  KnowledgeInv /\ [Knowledge!Next]_(Knowledge!vars) => KnowledgeInv'
<1> SUFFICES ASSUME KnowledgeInv, [Knowledge!Next]_(Knowledge!vars) PROVE KnowledgeInv'
  OBVIOUS
<1> USE DEF KnowledgeInv, Knowledge!searching, Knowledge!ingesting
<1>1. ASSUME NEW d \in Doc, Knowledge!Edit(d) PROVE KnowledgeInv'
  BY <1>1, ServicesAssumption
  DEF Knowledge!Edit, Knowledge!KnowledgeWhole, Knowledge!KnowledgeAssumption
<1>2. ASSUME NEW d \in Doc, Knowledge!Load(d) PROVE KnowledgeInv'
  <2> DEFINE chunks == Knowledge!ChunksOf(d, loads + 1)
  <2>1. CASE chunks = {}
    BY <1>2, <2>1 DEF Knowledge!Load, Knowledge!KnowledgeWhole
  <2>2. CASE chunks # {}
    <3>1. /\ stored' = Knowledge!Upsert(d, chunks) /\ since' = since \cup stored'
          /\ loads' = loads + 1 /\ loads + 1 \in Nat /\ command = "loading"
          /\ UNCHANGED <<file, command, manifest, runs, index, query, found, queries>>
      BY <1>2, <2>2 DEF Knowledge!Load, Knowledge!Store
    <3>2. /\ stored' \in SUBSET Chunk
          /\ \A c \in stored' : \A part \in 1..Chunks :
               {x \in stored' : x.doc = c.doc /\ x.part = part} = {[c EXCEPT !.part = part]}
      BY <3>1, WholeUpsert
    <3> HIDE DEF chunks
    <3> QED BY <3>1, <3>2 DEF Knowledge!KnowledgeWhole
  <2> QED BY <2>1, <2>2
<1>3. CASE Knowledge!ReadManifest
  BY <1>3 DEF Knowledge!ReadManifest, Knowledge!KnowledgeWhole
<1>4. CASE Knowledge!Purge
  <2>1. /\ stored' = IF manifest = {} THEN stored ELSE {c \in stored : c.doc \in manifest}
        /\ since' = since \cup stored'
        /\ UNCHANGED <<file, loads, todo, manifest, runs, index, query, found, queries>>
    BY <1>4 DEF Knowledge!Purge, Knowledge!Store
  <2>2. \A c \in stored' : \A part \in 1..Chunks :
          {x \in stored' : x.doc = c.doc /\ x.part = part}
            = {x \in stored : x.doc = c.doc /\ x.part = part}
    BY <2>1
  <2>3. stored' \subseteq stored /\ (manifest' # {} => \A c \in stored' : c.doc \in manifest')
    BY <2>1
  <2>4. Knowledge!KnowledgeWhole'
    BY <2>1, <2>2, <2>3 DEF Knowledge!KnowledgeWhole
  <2> QED BY <2>1, <2>3, <2>4
<1>5. CASE Knowledge!Abort
  BY <1>5 DEF Knowledge!Abort, Knowledge!KnowledgeWhole
<1>6. CASE Knowledge!Ask
  BY <1>6 DEF Knowledge!Ask, Knowledge!KnowledgeWhole
<1>7. CASE Knowledge!SearchFiltered
  BY <1>7 DEF Knowledge!SearchFiltered, Knowledge!Nearest, Knowledge!KnowledgeWhole
<1>8. CASE Knowledge!SearchUnfiltered
  BY <1>8 DEF Knowledge!SearchUnfiltered, Knowledge!Nearest, Knowledge!KnowledgeWhole
<1>9. CASE Knowledge!BuildIndex
  BY <1>9 DEF Knowledge!BuildIndex, Knowledge!KnowledgeWhole
<1>10. CASE Knowledge!FuseLexical
  BY <1>10 DEF Knowledge!FuseLexical, Knowledge!Nearest, Knowledge!Fused,
    Knowledge!KnowledgeWhole
<1>11. CASE Knowledge!DenseOnly
  BY <1>11 DEF Knowledge!DenseOnly, Knowledge!KnowledgeWhole
<1>12. ASSUME Knowledge!Answer \/ Knowledge!Restart PROVE KnowledgeInv'
  <2>1. Knowledge!Cardinality({}) <= TopK
    BY KnowledgeCardinality, FS_EmptySet, ServicesAssumption DEF Knowledge!KnowledgeAssumption
  <2> QED BY <1>12, <2>1 DEF Knowledge!Answer, Knowledge!Restart, Knowledge!KnowledgeWhole
<1>13. CASE UNCHANGED Knowledge!vars
  BY <1>13 DEF Knowledge!vars, Knowledge!KnowledgeWhole
<1> QED
  BY <1>1, <1>2, <1>3, <1>4, <1>5, <1>6, <1>7, <1>8, <1>9, <1>10, <1>11, <1>12, <1>13
  DEF Knowledge!Next

\* Whenever a search reads and wherever a command stops, a manual is stored
\* whole and in one version, and what is found was stored since the server
\* started (pgvector.py:36-78, lexical.py:89-134).
THEOREM KnowledgeAlwaysWhole == ServicesSpec => []KnowledgeWhole
<1> DEFINE Inv == subject = "knowledge" => KnowledgeInv
<1>1. ServicesInit => Inv
  BY KnowledgeStarts DEF ServicesInit
<1>2. Inv /\ [ServicesNext]_servicesVars => Inv'
  BY SubjectStep, KnowledgeStep
<1>3. Inv => KnowledgeWhole
  BY DEF KnowledgeInv, KnowledgeWhole
<1> QED BY <1>1, <1>2, <1>3, PTL DEF ServicesSpec

-----------------------------------------------------------------------------
(* The migrations of notifications.                                        *)

\* A set of natural numbers has a least one.
LEMMA LeastNatural ==
  ASSUME NEW T \in SUBSET Nat, T # {}
  PROVE  \E m \in T : \A t \in T : m <= t
<1>1. PICK m \in T : \A t \in T : <<t, m>> \notin OpToRel(<, Nat)
  BY NatLessThanWellFounded, WFMin
<1>2. \A t \in T : ~(t < m)
  BY <1>1 DEF OpToRel
<1> QED BY <1>2

\* A row of the table in any of its versions.
NotificationRow ==
  [id : Nat, kind : NoticeKind, metric : Metric \cup {NoMetric}, at : Nat, bucket : Int]

\* What was notified before is there, and what was read is shown: by its flag
\* before the last migration and by its reads from it on, which know every user
\* there is.  No id is yet to come.
SchemaInv ==
  /\ version \in {5, 12, 22, 28} /\ users \subseteq User
  /\ rows \in SUBSET NotificationRow /\ inserted \in SUBSET NotificationRow
  /\ IsFiniteSet(inserted)
  /\ \A r \in rows \cup inserted : r.id <= Cardinality(inserted)
  /\ wasRead \in SUBSET [id : 0..Cardinality(inserted), user : users]
  /\ version = 28 => flag = {}
  /\ version # 28 => reads = {}
  /\ flag \subseteq onceRead /\ \A p \in reads : p.id \in onceRead
  /\ \A r, s \in rows : r.id # s.id => ~Schema!Equal(version, r, s)
  /\ \A r \in inserted : \E s \in rows : Schema!SameHour(r, s) /\ s.at <= r.at
  /\ \A w \in wasRead : \A r \in rows : r.id = w.id =>
       IF version = 28 THEN w \in reads ELSE w.id \in flag

\* The cardinality that NotificationSchema speaks of is that of the library.
LEMMA SchemaCardinality == ASSUME NEW S PROVE Schema!Cardinality(S) = Cardinality(S)
BY DEF Schema!Cardinality, Cardinality

\* The tables are empty.
LEMMA SchemaStarts == Schema!Init => SchemaInv
BY FS_EmptySet DEF Schema!Init, SchemaInv

\* The invariant gives the property: flags and reads are of whoever read.
LEMMA SchemaHonest == SchemaInv => Schema!HistorySurvives
<1> SUFFICES ASSUME SchemaInv PROVE Schema!HistorySurvives
  OBVIOUS
<1> USE DEF SchemaInv
<1>1. ASSUME NEW r \in rows, NEW u \in users, [id |-> r.id, user |-> u] \in wasRead
      PROVE  Schema!ShownRead(r.id, u)
  BY <1>1 DEF Schema!ShownRead
<1>2. ASSUME NEW r \in rows, NEW u \in users, Schema!ShownRead(r.id, u)
      PROVE  r.id \in onceRead
  BY <1>2 DEF Schema!ShownRead
<1> QED BY <1>1, <1>2 DEF Schema!HistorySurvives

\* The bucket of a moment.
LEMMA BucketInt == \A v \in {5, 12, 22, 28}, at \in Nat : Schema!Bucket(v, at) \in Int
BY DEF Schema!Bucket

\* Rows in new buckets are the rows otherwise.
LEMMA RebucketForm ==
  ASSUME NEW v \in {5, 12, 22, 28}, NEW r \in NotificationRow
  PROVE  /\ Schema!Rebucket(v, r) \in NotificationRow
         /\ Schema!Rebucket(v, r).id = r.id /\ Schema!Rebucket(v, r).kind = r.kind
         /\ Schema!Rebucket(v, r).at = r.at
         /\ Schema!Rebucket(v, r).metric = r.metric
         /\ Schema!Rebucket(v, r).bucket = Schema!Bucket(v, r.at)
BY BucketInt DEF Schema!Rebucket, NotificationRow

\* A row without its metric is the row otherwise.
LEMMA WithoutMetric ==
  ASSUME NEW r \in NotificationRow
  PROVE  LET s == [r EXCEPT !.metric = NoMetric]
         IN  /\ s \in NotificationRow /\ s.id = r.id /\ s.kind = r.kind
             /\ s.at = r.at /\ s.bucket = r.bucket /\ s.metric = NoMetric
BY DEF NotificationRow

\* A row of an hour of version `v`, of no metric.
Plain(v, r) == [Schema!Rebucket(v, r) EXCEPT !.metric = NoMetric]

\* It is the row otherwise.
LEMMA PlainForm ==
  ASSUME NEW v \in {5, 12, 22, 28}, NEW r \in NotificationRow
  PROVE  /\ Plain(v, r) \in NotificationRow /\ Plain(v, r).metric = NoMetric
         /\ Plain(v, r).id = r.id /\ Plain(v, r).kind = r.kind /\ Plain(v, r).at = r.at
<1> DEFINE moved == Schema!Rebucket(v, r)
<1>1. /\ moved \in NotificationRow /\ moved.id = r.id /\ moved.kind = r.kind
      /\ moved.at = r.at
  BY RebucketForm
<1>2. Plain(v, r) = [moved EXCEPT !.metric = NoMetric]
  BY DEF Plain
<1> HIDE DEF moved
<1> QED BY <1>1, <1>2, WithoutMetric

\* Of the rows of an hour one is the earliest, and it is kept.
LEMMA EarliestThere ==
  ASSUME NEW S \in SUBSET NotificationRow, NEW r \in S
  PROVE  \E m \in Schema!Earliest(S) : /\ m.kind = r.kind /\ m.bucket = r.bucket
                                       /\ m.at <= r.at
<1> DEFINE Same == {s \in S : s.kind = r.kind /\ s.bucket = r.bucket}
           Times == {s.at : s \in Same}
<1>1. Times \in SUBSET Nat /\ r.at \in Times
  BY DEF NotificationRow
<1>2. PICK first \in Times : \A t \in Times : first <= t
  BY <1>1, LeastNatural
<1> DEFINE Ids == {s.id : s \in {x \in Same : x.at = first}}
<1>3. Ids \in SUBSET Nat /\ Ids # {}
  BY <1>2 DEF NotificationRow
<1>4. PICK least \in Ids : \A i \in Ids : least <= i
  BY <1>3, LeastNatural
<1>5. PICK m \in Same : m.at = first /\ m.id = least
  BY <1>4
<1>6. ASSUME NEW s \in S, s.kind = m.kind, s.bucket = m.bucket
      PROVE  m.at < s.at \/ (m.at = s.at /\ m.id <= s.id)
  <2>1. s \in Same /\ s.at \in Times /\ first <= s.at
    BY <1>2, <1>5, <1>6
  <2>2. s.at = first => s.id \in Ids
    BY <2>1
  <2> QED BY <1>1, <1>2, <1>4, <1>5, <2>1, <2>2
<1>7. m \in Schema!Earliest(S)
  BY <1>5, <1>6 DEF Schema!Earliest
<1> QED BY <1>1, <1>2, <1>5, <1>7

\* Every migration, up or down, and the work between two of them keep an
\* earliest notification of every hour and what was read of it.
LEMMA SchemaStep == SchemaInv /\ [Schema!Next]_(Schema!vars) => SchemaInv'
<1> SUFFICES ASSUME SchemaInv, [Schema!Next]_(Schema!vars) PROVE SchemaInv'
  OBVIOUS
<1>0. SchemaInv
  OBVIOUS
<1> USE DEF SchemaInv
<1>1. CASE Schema!Insert
  <2>1. PICK kind \in NoticeKind, at \in 0..SchemaTime,
          metric \in IF version < 22 THEN {NoMetric} ELSE Metric :
          LET row == [id |-> Cardinality(inserted) + 1, kind |-> kind, metric |-> metric,
                      at |-> at, bucket |-> Schema!Bucket(version, at)]
          IN  /\ \A r \in rows : ~Schema!Equal(version, r, row)
              /\ rows' = rows \cup {row}
              /\ inserted' = inserted \cup {row}
    BY <1>1, SchemaCardinality DEF Schema!Insert
  <2> DEFINE row == [id |-> Cardinality(inserted) + 1, kind |-> kind, metric |-> metric,
                     at |-> at, bucket |-> Schema!Bucket(version, at)]
  <2>2. /\ Cardinality(inserted) \in Nat
        /\ UNCHANGED <<version, flag, reads, users, wasRead, onceRead>>
    BY <1>1, FS_CardinalityType DEF Schema!Insert
  <2>3. row \in NotificationRow /\ row.id = Cardinality(inserted) + 1
    BY <2>2, BucketInt, ServicesAssumption DEF NotificationRow, Schema!SchemaAssumption
  <2>4. /\ rows' = rows \cup {row} /\ inserted' = inserted \cup {row}
        /\ \A r \in rows : ~Schema!Equal(version, r, row)
    BY <2>1
  <2> HIDE DEF row
  <2>5. row \notin inserted
    BY <2>2, <2>3 DEF NotificationRow
  <2>6. IsFiniteSet(inserted') /\ Cardinality(inserted') = Cardinality(inserted) + 1
    BY <2>4, <2>5, FS_AddElement
  <2>7. \A r, s \in rows' : r.id # s.id => ~Schema!Equal(version', r, s)
    BY <2>2, <2>4 DEF Schema!Equal
  <2>8. \A r \in inserted' : \E s \in rows' : Schema!SameHour(r, s) /\ s.at <= r.at
    BY <2>3, <2>4 DEF Schema!SameHour, NotificationRow
  <2>9. \A r \in rows' \cup inserted' : r.id <= Cardinality(inserted')
    BY <2>2, <2>3, <2>4, <2>6 DEF NotificationRow
  <2>10. wasRead' \in SUBSET [id : 0..Cardinality(inserted'), user : users']
    BY <2>2, <2>6
  <2>11. \A w \in wasRead' : \A r \in rows' : r.id = w.id =>
           IF version' = 28 THEN w \in reads' ELSE w.id \in flag'
    <3>1. \A w \in wasRead : w.id # row.id
      BY <2>2, <2>3
    <3> QED BY <2>2, <2>4, <3>1
  <2>12. rows' \in SUBSET NotificationRow /\ inserted' \in SUBSET NotificationRow
    BY <2>3, <2>4
  <2> QED BY <2>2, <2>6, <2>7, <2>8, <2>9, <2>10, <2>11, <2>12
<1>2. CASE Schema!NewUser
  BY <1>2 DEF Schema!NewUser
<1>3. ASSUME NEW u \in User, Schema!MarkRead(u) PROVE SchemaInv'
  <2>1. PICK r \in rows :
          /\ IF version < 28 THEN flag' = flag \cup {r.id} /\ UNCHANGED reads
             ELSE reads' = reads \cup {[id |-> r.id, user |-> u]} /\ UNCHANGED flag
          /\ wasRead' = wasRead \cup {[id |-> r.id, user |-> u]}
          /\ onceRead' = onceRead \cup {r.id}
    BY <1>3 DEF Schema!MarkRead
  <2>2. u \in users /\ UNCHANGED <<version, rows, users, inserted>>
    BY <1>3 DEF Schema!MarkRead
  <2>3. r.id \in 0..Cardinality(inserted)
    BY <2>1, FS_CardinalityType DEF NotificationRow
  <2>4. wasRead' \in SUBSET [id : 0..Cardinality(inserted'), user : users']
    BY <2>1, <2>2, <2>3
  <2>5. \A w \in wasRead' : \A s \in rows' : s.id = w.id =>
          IF version' = 28 THEN w \in reads' ELSE w.id \in flag'
    BY <2>1, <2>2
  <2>6. /\ version' = 28 => flag' = {}
        /\ version' # 28 => reads' = {}
    BY <2>1, <2>2
  <2>7. flag' \subseteq onceRead' /\ \A p \in reads' : p.id \in onceRead'
    <3> DEFINE mark == [id |-> r.id, user |-> u]
    <3>1. /\ onceRead' = onceRead \cup {r.id} /\ mark.id = r.id
          /\ flag' \subseteq flag \cup {r.id} /\ reads' \subseteq reads \cup {mark}
      BY <2>1
    <3> HIDE DEF mark
    <3> QED BY <3>1
  <2> QED BY <2>2, <2>4, <2>5, <2>6, <2>7
<1>11. ASSUME NEW u \in User, Schema!MarkUnread(u) PROVE SchemaInv'
  <2> DEFINE marks(r) ==
        {[id |-> r.id, user |-> x] : x \in IF version < 28 THEN User ELSE {u}}
  <2>1. PICK r \in rows :
          /\ IF version < 28 THEN flag' = flag \ {r.id} /\ UNCHANGED reads
             ELSE reads' = reads \ marks(r) /\ UNCHANGED flag
          /\ wasRead' = wasRead \ marks(r)
    BY <1>11 DEF Schema!MarkUnread
  <2>2. UNCHANGED <<version, rows, users, inserted, onceRead>>
    BY <1>11 DEF Schema!MarkUnread
  <2>3. ASSUME NEW w \in wasRead', NEW s \in rows, s.id = w.id
        PROVE  IF version = 28 THEN w \in reads' ELSE w.id \in flag'
    <3>1. w \in wasRead /\ w \notin marks(r) /\ w = [id |-> w.id, user |-> w.user]
          /\ w.user \in User
      BY <2>1
    <3>2. CASE version = 28
      BY <2>1, <2>3, <3>1, <3>2
    <3>3. CASE version # 28
      <4>1. w.id # r.id
        BY <3>1, <3>3
      <4> QED BY <2>1, <2>3, <3>1, <3>3, <4>1
    <3> QED BY <3>2, <3>3
  <2>4. /\ wasRead' \subseteq wasRead /\ flag' \subseteq flag /\ reads' \subseteq reads
    BY <2>1
  <2> HIDE DEF marks
  <2> QED BY <2>2, <2>3, <2>4
<1>4. CASE Schema!Upgrade12
  <2> DEFINE all == {Schema!Rebucket(12, r) : r \in rows}
  <2>1. /\ version = 5 /\ version' = 12 /\ rows' = Schema!Earliest(all)
        /\ flag' = {i \in flag : \E r \in rows' : r.id = i}
        /\ UNCHANGED <<reads, users, inserted, wasRead, onceRead>>
    BY <1>4 DEF Schema!Upgrade12
  <2>2. all \in SUBSET NotificationRow
    BY RebucketForm
  <2>3. /\ rows' \subseteq all
        /\ \A r, s \in rows' : r.kind = s.kind /\ r.bucket = s.bucket => r.id = s.id
    BY <2>1, <2>2 DEF Schema!Earliest, NotificationRow
  <2>4. \A r \in all : \E s \in rows : r.id = s.id
    BY RebucketForm
  <2>5. \A r, s \in rows' : r.id # s.id => ~Schema!Equal(version', r, s)
    BY <2>3 DEF Schema!Equal
  <2>6. ASSUME NEW r \in inserted
        PROVE  \E m \in rows' : Schema!SameHour(r, m) /\ m.at <= r.at
    <3>1. PICK s \in rows : Schema!SameHour(r, s) /\ s.at <= r.at
      OBVIOUS
    <3> DEFINE moved == Schema!Rebucket(12, s)
    <3>2. moved \in all /\ moved.kind = s.kind /\ moved.at = s.at
          /\ moved.bucket = Schema!Bucket(12, s.at)
      BY RebucketForm
    <3>3. PICK m \in rows' : m.kind = moved.kind /\ m.bucket = moved.bucket /\ m.at <= moved.at
      BY <2>1, <2>2, <3>2, EarliestThere
    <3>4. m.bucket = Schema!Bucket(12, m.at) /\ m \in NotificationRow
      BY <2>2, <2>3, RebucketForm
    <3> QED BY <3>1, <3>2, <3>3, <3>4 DEF Schema!SameHour, Schema!Bucket, NotificationRow
  <2>7. \A r \in rows' \cup inserted' : r.id <= Cardinality(inserted')
    BY <2>1, <2>3, <2>4
  <2>8. \A w \in wasRead' : \A r \in rows' : r.id = w.id =>
          IF version' = 28 THEN w \in reads' ELSE w.id \in flag'
    <3>1. \A w \in wasRead : \A s \in rows : s.id = w.id => w.id \in flag
      BY <2>1
    <3>2. \A r \in rows' : \E s \in rows : r.id = s.id
      BY <2>3, <2>4
    <3> HIDE DEF all, SchemaInv
    <3>3. /\ \A i \in flag : \A r \in rows' : r.id = i => i \in flag'
          /\ version' # 28 /\ wasRead' = wasRead
      BY <2>1
    <3> QED BY <3>1, <3>2, <3>3
  <2>9. rows' \in SUBSET NotificationRow
    BY <2>2, <2>3
  <2> HIDE DEF all
  <2> QED BY <2>1, <2>5, <2>6, <2>7, <2>8, <2>9
<1>5. CASE Schema!Upgrade22
  <2>1. /\ version = 12 /\ version' = 22
        /\ rows' = {Plain(22, r) : r \in rows}
        /\ UNCHANGED <<flag, reads, users, inserted, wasRead, onceRead>>
    BY <1>5 DEF Schema!Upgrade22, Plain
  <2>2. \A r \in rows :
          /\ Plain(22, r) \in NotificationRow /\ Plain(22, r).metric = NoMetric
          /\ Plain(22, r).id = r.id /\ Plain(22, r).kind = r.kind
          /\ Plain(22, r).at = r.at
    BY PlainForm
  <2>3. \A s \in rows' : /\ s \in NotificationRow /\ s.metric = NoMetric
                         /\ \E r \in rows : s.id = r.id
    BY <2>1, <2>2
  <2>4. \A r \in rows : \E s \in rows' : s.kind = r.kind /\ s.at = r.at
    BY <2>1, <2>2
  <2>5. \A r, s \in rows' : r.id # s.id => ~Schema!Equal(version', r, s)
    BY <2>1, <2>3 DEF Schema!Equal
  <2>6. \A r \in inserted : \E s \in rows' : Schema!SameHour(r, s) /\ s.at <= r.at
    BY <2>4 DEF Schema!SameHour
  <2>7. \A w \in wasRead' : \A r \in rows' : r.id = w.id =>
          IF version' = 28 THEN w \in reads' ELSE w.id \in flag'
    BY <2>1, <2>3
  <2>8. /\ \A r \in rows' \cup inserted' : r.id <= Cardinality(inserted')
        /\ rows' \in SUBSET NotificationRow
    BY <2>1, <2>3
  <2> QED BY <2>1, <2>5, <2>6, <2>7, <2>8
<1>6. CASE Schema!Upgrade28
  <2>1. \A r, s \in rows' : r.id # s.id => ~Schema!Equal(version', r, s)
    BY <1>6 DEF Schema!Upgrade28, Schema!Equal
  <2>2. /\ version = 22 /\ version' = 28 /\ flag' = {}
        /\ reads' = {[id |-> i, user |-> u] : i \in flag, u \in users}
        /\ UNCHANGED <<rows, users, inserted, wasRead, onceRead>>
    BY <1>6 DEF Schema!Upgrade28
  <2>3. \A w \in wasRead' : \A r \in rows' : r.id = w.id => w \in reads'
    <3>1. ASSUME NEW w \in wasRead, w.id \in flag PROVE w \in reads'
      <4>1. w = [id |-> w.id, user |-> w.user] /\ w.user \in users
        OBVIOUS
      <4> QED BY <2>2, <3>1, <4>1
    <3> QED BY <2>2, <3>1
  <2>4. flag' \subseteq onceRead' /\ \A p \in reads' : p.id \in onceRead'
    BY <2>2
  <2> QED BY <2>1, <2>2, <2>3, <2>4
<1>7. CASE Schema!Downgrade28
  <2>1. \A r, s \in rows' : r.id # s.id => ~Schema!Equal(version', r, s)
    BY <1>7 DEF Schema!Downgrade28, Schema!Equal
  <2>2. /\ version = 28 /\ version' = 22 /\ reads' = {}
        /\ UNCHANGED <<rows, users, inserted, wasRead, onceRead>>
    BY <1>7 DEF Schema!Downgrade28
  <2>5. flag' = {i \in {r.id : r \in rows} : \E u \in User : [id |-> i, user |-> u] \in reads}
    BY <1>7 DEF Schema!Downgrade28
  <2>3. \A w \in wasRead' : \A r \in rows' : r.id = w.id => w.id \in flag'
    <3>1. ASSUME NEW w \in wasRead, NEW r \in rows, r.id = w.id PROVE w.id \in flag'
      <4>1. w = [id |-> w.id, user |-> w.user] /\ w.user \in User /\ w \in reads
        BY <2>2, <3>1
      <4> QED BY <2>5, <3>1, <4>1
    <3> QED BY <2>2, <3>1
  <2>4. flag' \subseteq onceRead'
    <3>1. \A i, u : [id |-> i, user |-> u] \in reads => i \in onceRead
      <4>1. \A p \in reads : p.id \in onceRead
        OBVIOUS
      <4> QED BY <4>1
    <3>2. \A i \in flag' : \E u : [id |-> i, user |-> u] \in reads
      BY <2>5
    <3>3. onceRead' = onceRead
      BY <2>2
    <3> HIDE DEF SchemaInv
    <3> QED BY <3>1, <3>2, <3>3
  <2> QED BY <2>1, <2>2, <2>3, <2>4
<1>8. CASE Schema!Downgrade22
  <2> DEFINE back == {Plain(12, r) : r \in rows}
  <2>1. /\ version = 22 /\ version' = 12 /\ rows' = back
        /\ \A r, s \in back : r.id # s.id => ~Schema!Equal(12, r, s)
        /\ UNCHANGED <<flag, reads, users, inserted, wasRead, onceRead>>
    BY <1>8 DEF Schema!Downgrade22, Plain
  <2>2. \A r \in rows :
          /\ Plain(12, r) \in NotificationRow /\ Plain(12, r).id = r.id
          /\ Plain(12, r).kind = r.kind /\ Plain(12, r).at = r.at
    BY PlainForm
  <2>3. \A s \in rows' : s \in NotificationRow /\ \E r \in rows : s.id = r.id
    BY <2>1, <2>2
  <2>4. \A r \in rows : \E s \in rows' : s.kind = r.kind /\ s.at = r.at
    BY <2>1, <2>2
  <2>5. \A r, s \in rows' : r.id # s.id => ~Schema!Equal(version', r, s)
    BY <2>1
  <2>6. \A r \in inserted : \E s \in rows' : Schema!SameHour(r, s) /\ s.at <= r.at
    BY <2>4 DEF Schema!SameHour
  <2>7. \A w \in wasRead' : \A r \in rows' : r.id = w.id =>
          IF version' = 28 THEN w \in reads' ELSE w.id \in flag'
    BY <2>1, <2>3
  <2>8. /\ \A r \in rows' \cup inserted' : r.id <= Cardinality(inserted')
        /\ rows' \in SUBSET NotificationRow
    BY <2>1, <2>3
  <2> HIDE DEF back
  <2> QED BY <2>1, <2>5, <2>6, <2>7, <2>8
<1>9. CASE Schema!Downgrade12
  <2>1. /\ version = 12 /\ version' = 5
        /\ rows' = {Schema!Rebucket(5, r) : r \in rows}
        /\ UNCHANGED <<flag, reads, users, inserted, wasRead, onceRead>>
    BY <1>9 DEF Schema!Downgrade12
  <2>2. \A s \in rows' : s \in NotificationRow /\ \E r \in rows : s.id = r.id
    BY <2>1, RebucketForm
  <2>3. \A r \in rows : \E s \in rows' : s.kind = r.kind /\ s.at = r.at
    BY <2>1, RebucketForm
  <2>4. \A r, s \in rows' : r.id # s.id => ~Schema!Equal(version', r, s)
    BY <2>1 DEF Schema!Equal
  <2>5. \A r \in inserted : \E s \in rows' : Schema!SameHour(r, s) /\ s.at <= r.at
    BY <2>3 DEF Schema!SameHour
  <2>6. \A w \in wasRead' : \A r \in rows' : r.id = w.id =>
          IF version' = 28 THEN w \in reads' ELSE w.id \in flag'
    BY <2>1, <2>2
  <2>7. /\ \A r \in rows' \cup inserted' : r.id <= Cardinality(inserted')
        /\ rows' \in SUBSET NotificationRow
    BY <2>1, <2>2
  <2> QED BY <2>1, <2>4, <2>5, <2>6, <2>7
<1>10. CASE UNCHANGED Schema!vars
  BY <1>10 DEF Schema!vars, Schema!Equal
<1> QED
  BY <1>1, <1>2, <1>3, <1>4, <1>5, <1>6, <1>7, <1>8, <1>9, <1>10, <1>11 DEF Schema!Next

\* Any upgrades and downgrades with work between them leave the history as it
\* was: unique rows, a notification for every alarm that had one, and what was
\* read and not marked unread (alembic 0012:32-47, 0022:35, 0028:53-62).
THEOREM HistoryAlwaysSurvives == ServicesSpec => []HistorySurvives
<1> DEFINE Inv == subject = "schema" => SchemaInv
<1>1. ServicesInit => Inv
  BY SchemaStarts DEF ServicesInit
<1>2. Inv /\ [ServicesNext]_servicesVars => Inv'
  BY SubjectStep, SchemaStep
<1>3. Inv => HistorySurvives
  BY SchemaHonest DEF HistorySurvives
<1> QED BY <1>1, <1>2, <1>3, PTL DEF ServicesSpec

-----------------------------------------------------------------------------
(* Work lines.                                                             *)

\* What a request may be asked for.
LineJob ==
  {j \in [kind : {"none", "create", "update", "delete", "assign"}, line : 0..MaxLines,
          code : LineCode \cup {Lines!None}, wanted : SUBSET Lines!Id] :
     /\ j.kind \in {"create", "update"} => j.code \in LineCode
     /\ j.kind = "delete" => j.code = Lines!None}

\* The request has written a line, or the rows of an assignment, and has not
\* committed.
LineWritten(r) == phase[r] = "written" /\ job[r].kind \in {"create", "update", "delete"}
RowsWritten(r) == phase[r] = "written" /\ job[r].kind = "assign"

\* What a request that has written, or is about to, may rely on.
RequestInv(r) ==
  /\ phase[r] \in {"read", "check", "checked", "written", "deleting", "inserting"} =>
       job[r].kind # "none"
  /\ phase[r] \in {"deleting", "inserting"} => job[r].kind = "assign"
  /\ phase[r] = "deleting" => \A row \in assigned \ seen[r] : row.line \in beside[r]
  /\ phase[r] = "inserting" \/ RowsWritten(r) =>
       \A row \in assigned \ removed[r] : row.line \in beside[r]
  /\ RowsWritten(r) => inserted[r] = job[r].wanted /\ inserted[r] \subseteq Lines!Existing
  /\ LineWritten(r) =>
       /\ IF job[r].kind = "create"
          THEN job[r].line \in 1..lastId \ (Lines!Existing \cup newest)
          ELSE job[r].line \in Lines!Existing
       /\ job[r].kind # "delete" =>
            job[r].code \notin Lines!Codes(Lines!Id \ {job[r].line})

\* Two that have written are not in each other's way.
PairInv(r, q) ==
  LineWritten(q) =>
    /\ LineWritten(r) => job[r].line # job[q].line
    /\ LineWritten(r) /\ job[q].kind # "delete" => job[r].code # job[q].code
    /\ RowsWritten(r) => job[q].line \notin inserted[r]

\* A row of user_lines, inserted by a request or there from the beginning.
LineRow == [line : Lines!Id, by : Change \cup {Lines!None}]

\* The types, and ids that are not yet to come.
LinesShape ==
  /\ lastId \in 0..MaxLines
  /\ code \in [Lines!Id -> LineCode \cup {Lines!None}]
  /\ assigned \in SUBSET LineRow /\ newest \in SUBSET (1..lastId)
  /\ job \in [Change -> LineJob]
  /\ phase \in [Change -> {"idle", "read", "check", "checked", "written", "deleting",
                           "inserting", "done", "refused", "failed"}]
  /\ {seen, removed} \subseteq [Change -> SUBSET LineRow]
  /\ {inserted, beside} \subseteq [Change -> SUBSET Lines!Id]
  /\ \A l \in Lines!Existing : l <= lastId

\* The property, and what the requests rely on, alone and two by two.
LinesInv ==
  /\ LinesShape
  /\ Lines!WholeAssignment
  /\ \A r \in Change : RequestInv(r)
  /\ \A r, q \in Change : r # q => PairInv(r, q)

\* Lines are numbered, and no code is that of a deleted line.
LEMMA LinesConstants ==
  /\ MaxLines \in Nat \ {0} /\ Lines!None \notin LineCode
  /\ Lines!Id = 1..MaxLines
BY ServicesAssumption DEF Lines!LinesAssumption, Lines!None, Lines!Id

\* There are no lines and no requests.
LEMMA LinesStarts == Lines!Init => LinesInv
<1> SUFFICES ASSUME Lines!Init PROVE LinesInv
  OBVIOUS
<1>1. Lines!Nothing \in LineJob
  BY LinesConstants DEF Lines!Nothing, LineJob, Lines!None
<1>2. assigned \in SUBSET LineRow /\ Lines!LinesOf(assigned) = newest
  <2>1. newest \subseteq Lines!Id /\ assigned = {Lines!Row(l, Lines!None) : l \in newest}
    BY DEF Lines!Init, Lines!Existing
  <2>2. \A l \in Lines!Id : Lines!Row(l, Lines!None) \in LineRow
                             /\ Lines!Row(l, Lines!None).line = l
    BY DEF Lines!Row, LineRow
  <2> QED BY <2>1, <2>2 DEF Lines!LinesOf
<1>4. LinesShape
  BY <1>1, <1>2, LinesConstants DEF Lines!Init, LinesShape, Lines!Existing
<1>3. Lines!WholeAssignment
  BY <1>2, LinesConstants DEF Lines!Init, Lines!WholeAssignment, Lines!Existing
<1> QED
  BY <1>4, <1>3 DEF Lines!Init, LinesInv, RequestInv, PairInv, RowsWritten, LineWritten

\* A request to create that was given a number is the request otherwise.
LEMMA NumberedJob ==
  ASSUME NEW j \in LineJob, j.kind = "create", NEW l \in 0..MaxLines
  PROVE  LET new == [j EXCEPT !.line = l]
         IN  new \in LineJob /\ new.kind = "create" /\ new.line = l /\ new.code = j.code
<1> DEFINE J == [kind : {"none", "create", "update", "delete", "assign"}, line : 0..MaxLines,
                 code : LineCode \cup {Lines!None}, wanted : SUBSET Lines!Id]
<1>1. j \in J /\ j.code \in LineCode
  BY DEF LineJob
<1>2. [j EXCEPT !.line = l] \in J /\ [j EXCEPT !.line = l].kind = "create"
      /\ [j EXCEPT !.line = l].line = l /\ [j EXCEPT !.line = l].code = j.code
  BY <1>1
<1> QED BY <1>1, <1>2 DEF LineJob

\* A new line has a number no other writer has, and a code nobody else is about
\* to commit: the unique index on the code stops it (uq_lines_code).
LEMMA WriteNewKeeps ==
  ASSUME LinesInv, NEW r \in Change, Lines!WriteNew(r)
  PROVE  LinesInv'
<1> DEFINE new == [job[r] EXCEPT !.line = lastId + 1]
<1>0. /\ LinesShape /\ Lines!WholeAssignment
      /\ \A q \in Change : RequestInv(q)
      /\ \A q, p \in Change : q # p => PairInv(q, p)
  BY DEF LinesInv
<1>a. job[r] \in LineJob /\ DOMAIN phase = Change /\ DOMAIN job = Change
  BY <1>0 DEF LinesShape
<1>1. /\ phase[r] = "checked" /\ job[r].kind = "create"
      /\ \A q \in Change \ {r} : LineWritten(q) => job[q].code # job[r].code
      /\ UNCHANGED <<code, assigned, newest, overlap, seen, removed, inserted, beside>>
  BY DEF Lines!WriteNew, Lines!Claimed, Lines!KeepRows, LineWritten, Lines!Writing
<1>2. CASE job[r].code \in Lines!Codes(Lines!Id)
  <2>1. phase' = [phase EXCEPT ![r] = "failed"] /\ UNCHANGED <<lastId, job>>
    BY <1>2 DEF Lines!WriteNew, Lines!Move
  <2> QED BY <1>0, <1>1, <2>1 DEF LinesInv, LinesShape, RequestInv, PairInv, LineWritten,
     RowsWritten, Lines!WholeAssignment, Lines!Existing, Lines!Codes
<1>3. CASE job[r].code \notin Lines!Codes(Lines!Id)
  <2>1. /\ lastId < MaxLines /\ lastId' = lastId + 1
        /\ job' = [job EXCEPT ![r] = new] /\ phase' = [phase EXCEPT ![r] = "written"]
    BY <1>3 DEF Lines!WriteNew, Lines!Move
  <2>2. lastId \in Nat /\ lastId + 1 \in 0..MaxLines
    BY <1>0, <2>1, LinesConstants DEF LinesShape
  <2>3. /\ new \in LineJob /\ new.kind = "create" /\ new.line = lastId + 1
        /\ new.code = job[r].code
    BY <1>a, <1>1, <2>2, NumberedJob
  <2> HIDE DEF new
  <2>4. lastId + 1 \notin Lines!Existing \cup newest
    BY <1>0, <2>2 DEF LinesShape
  <2>5. /\ \A q \in Change : LineWritten(q) => job[q].line # lastId + 1
        /\ \A q \in Change : RowsWritten(q) => lastId + 1 \notin inserted[q]
    <3>1. lastId + 1 \notin 1..lastId
      BY <2>2
    <3> QED BY <1>0, <2>4, <3>1 DEF RequestInv
  <2>6. Lines!Existing' = Lines!Existing
    BY <1>1 DEF Lines!Existing
  <2>7. Lines!WholeAssignment'
    BY <1>0, <1>1, <2>6 DEF Lines!WholeAssignment
  <2>8. LinesShape'
    <3>1. newest' \in SUBSET (1..lastId') /\ \A l \in Lines!Existing' : l <= lastId'
      <4>1. 1..lastId \subseteq 1..lastId' /\ \A l \in Lines!Existing : l \in Int
        BY <2>1, <2>2, LinesConstants DEF Lines!Existing
      <4>2. newest \in SUBSET (1..lastId) /\ \A l \in Lines!Existing : l <= lastId
        BY <1>0 DEF LinesShape
      <4> QED BY <1>1, <2>1, <2>2, <2>6, <4>1, <4>2
    <3>2. job' \in [Change -> LineJob]
      BY <1>0, <2>1, <2>3 DEF LinesShape
    <3> QED BY <1>0, <1>1, <2>1, <2>2, <3>1, <3>2 DEF LinesShape
  <2>9. \A q \in Change \ {r} : job'[q] = job[q] /\ phase'[q] = phase[q]
    BY <1>a, <2>1
  <2>10. job'[r] = new /\ phase'[r] = "written"
    BY <1>a, <2>1
  <2>11. job[r].code \notin Lines!Codes(Lines!Id \ {lastId + 1})
    BY <1>3 DEF Lines!Codes
  <2>12. ASSUME NEW q \in Change PROVE RequestInv(q)'
    <3>1. CASE q = r
      <4>1. /\ phase'[q] = "written" /\ job'[q].kind = "create" /\ job'[q].line = lastId + 1
            /\ job'[q].code = job[r].code /\ lastId + 1 \in 1..lastId'
        BY <2>1, <2>2, <2>3, <2>10, <3>1
      <4> QED BY <1>1, <2>4, <2>6, <2>11, <4>1
           DEF RequestInv, LineWritten, RowsWritten, Lines!Codes
    <3>2. CASE q # r
      <4>1. /\ job'[q] = job[q] /\ phase'[q] = phase[q] /\ RequestInv(q)
            /\ 1..lastId \subseteq 1..lastId'
        BY <1>0, <2>1, <2>2, <2>9, <3>2
      <4> QED BY <1>1, <2>6, <4>1 DEF RequestInv, LineWritten, RowsWritten, Lines!Codes
    <3> QED BY <3>1, <3>2
  <2>13. ASSUME NEW q \in Change, NEW p \in Change, q # p PROVE PairInv(q, p)'
    <3>1. CASE q = r
      BY <1>1, <2>3, <2>5, <2>9, <2>10, <2>13, <3>1 DEF PairInv, LineWritten, RowsWritten
    <3>2. CASE p = r
      BY <1>1, <2>3, <2>5, <2>9, <2>10, <2>13, <3>2 DEF PairInv, LineWritten, RowsWritten
    <3>3. CASE r \notin {p, q}
      BY <1>0, <1>1, <2>9, <2>13, <3>3 DEF PairInv, LineWritten, RowsWritten
    <3> QED BY <3>1, <3>2, <3>3
  <2> QED BY <2>7, <2>8, <2>12, <2>13 DEF LinesInv
<1> QED BY <1>2, <1>3

\* A line that is deleted is in no assignment that is about to commit: the
\* foreign key stops it.
LEMMA WriteDeletionKeeps ==
  ASSUME LinesInv, NEW r \in Change, Lines!WriteDeletion(r)
  PROVE  LinesInv'
<1>0. /\ LinesShape /\ Lines!WholeAssignment
      /\ \A q \in Change : RequestInv(q)
      /\ \A q, p \in Change : q # p => PairInv(q, p)
  BY DEF LinesInv
<1>a. /\ \A q \in Change : job[q] \in LineJob
      /\ DOMAIN phase = Change /\ job[r].kind = "delete"
  BY <1>0 DEF LinesShape, Lines!WriteDeletion
<1>1. /\ job[r].code = Lines!None
      /\ \A q \in Change \ {r} :
           /\ LineWritten(q) => job[q].line # job[r].line
           /\ RowsWritten(q) => job[r].line \notin inserted[q]
  BY <1>a DEF Lines!WriteDeletion, Lines!Locked, Lines!Referenced, LineJob, LineWritten,
    RowsWritten, Lines!Writing
<1>2. /\ phase' = [phase EXCEPT ![r] = IF job[r].line \in Lines!Existing
                                       THEN "written" ELSE "done"]
      /\ UNCHANGED <<lastId, code, assigned, job, newest, overlap, seen, removed,
                     inserted, beside>>
  BY DEF Lines!WriteDeletion, Lines!Keep, Lines!KeepRows, Lines!Move
<1>3. Lines!Existing' = Lines!Existing
  BY <1>2 DEF Lines!Existing
<1>4. LinesShape' /\ Lines!WholeAssignment'
  BY <1>0, <1>2, <1>3 DEF LinesShape, Lines!WholeAssignment
<1>5. \A q \in Change : phase'[q] = IF q # r THEN phase[q] ELSE
                         IF job[r].line \in Lines!Existing THEN "written" ELSE "done"
  BY <1>a, <1>2
<1>6. ASSUME NEW q \in Change PROVE RequestInv(q)'
  <2>1. CASE q = r
    BY <1>a, <1>2, <1>3, <1>5, <2>1 DEF RequestInv, LineWritten, RowsWritten
  <2>2. CASE q # r
    BY <1>0, <1>2, <1>3, <1>5, <2>2 DEF RequestInv, LineWritten, RowsWritten, Lines!Codes
  <2> QED BY <2>1, <2>2
<1>7. ASSUME NEW q \in Change, NEW p \in Change, q # p PROVE PairInv(q, p)'
  <2>1. \A x \in Change : job[x].kind \in {"create", "update"} => job[x].code # Lines!None
    BY <1>a, LinesConstants DEF LineJob
  <2>2. CASE q = r
    BY <1>a, <1>1, <1>2, <1>5, <1>7, <2>1, <2>2 DEF PairInv, LineWritten, RowsWritten
  <2>3. CASE p = r
    BY <1>a, <1>1, <1>2, <1>5, <1>7, <2>3 DEF PairInv, LineWritten, RowsWritten
  <2>4. CASE r \notin {p, q}
    BY <1>0, <1>2, <1>5, <1>7, <2>4 DEF PairInv, LineWritten, RowsWritten
  <2> QED BY <2>2, <2>3, <2>4
<1> QED BY <1>4, <1>6, <1>7 DEF LinesInv

\* A line that is committed is in nobody's way.
LEMMA CommitLineKeeps ==
  ASSUME LinesInv, NEW r \in Change, Lines!CommitLine(r)
  PROVE  LinesInv'
<1> DEFINE line == job[r].line
           new == job[r].code
<1>0. /\ LinesShape /\ Lines!WholeAssignment
      /\ \A q \in Change : RequestInv(q)
      /\ \A q, p \in Change : q # p => PairInv(q, p)
  BY DEF LinesInv
<1>a. /\ \A q \in Change : job[q] \in LineJob
      /\ DOMAIN phase = Change /\ DOMAIN code = Lines!Id
      /\ phase[r] = "written" /\ job[r].kind # "assign"
  BY <1>0 DEF LinesShape, Lines!CommitLine
<1>1. LineWritten(r)
  BY <1>0, <1>a DEF LineWritten, LineJob, RequestInv
<1>2. IF job[r].kind = "create" THEN line \in 1..lastId \ (Lines!Existing \cup newest)
                                ELSE line \in Lines!Existing
  BY <1>0, <1>1 DEF RequestInv
<1>3. line \in Lines!Id
  BY <1>0, <1>2, LinesConstants DEF LinesShape, Lines!Existing
<1>4. IF job[r].kind = "delete" THEN new = Lines!None
      ELSE /\ new \in LineCode /\ new # Lines!None
           /\ new \notin Lines!Codes(Lines!Id \ {line})
  BY <1>0, <1>a, <1>1, LinesConstants DEF LineJob, LineWritten, RequestInv
<1>5. /\ code' = [code EXCEPT ![line] = new]
      /\ assigned' = {row \in assigned : job[r].kind = "delete" => row.line # line}
      /\ phase' = [phase EXCEPT ![r] = "done"]
      /\ UNCHANGED <<lastId, job, newest, overlap, seen, removed, inserted, beside>>
  BY DEF Lines!CommitLine, Lines!Move, Lines!KeepRows
<1>b. \A q \in Change \ {r} :
        /\ LineWritten(q) => job[q].line # line
        /\ LineWritten(q) /\ job[q].kind # "delete" => job[q].code # new
        /\ RowsWritten(q) => line \notin inserted[q]
  BY <1>0, <1>1 DEF PairInv, LineWritten, RowsWritten
<1> HIDE DEF line, new
<1>6. /\ code'[line] = new /\ \A l \in Lines!Id \ {line} : code'[l] = code[l]
      /\ phase'[r] = "done" /\ \A q \in Change \ {r} : phase'[q] = phase[q]
  BY <1>a, <1>3, <1>5
<1>7. Lines!Existing' = IF job[r].kind = "delete" THEN Lines!Existing \ {line}
                        ELSE Lines!Existing \cup {line}
  BY <1>3, <1>4, <1>6 DEF Lines!Existing
<1>8. LinesShape'
  <2>1. code' \in [Lines!Id -> LineCode \cup {Lines!None}]
    BY <1>0, <1>4, <1>5 DEF LinesShape
  <2>2. \A l \in Lines!Existing' : l <= lastId'
    BY <1>0, <1>2, <1>5, <1>7, LinesConstants DEF LinesShape
  <2>3. phase' \in [Change -> {"idle", "read", "check", "checked", "written", "deleting",
                               "inserting", "done", "refused", "failed"}]
    BY <1>0, <1>5 DEF LinesShape
  <2> QED BY <1>0, <1>5, <2>1, <2>2, <2>3 DEF LinesShape
<1>9. Lines!WholeAssignment'
  <2>1. \A l, m \in Lines!Existing' : code'[l] = code'[m] => l = m
    <3>1. ASSUME NEW l \in Lines!Existing', l # line
          PROVE  l \in Lines!Existing /\ code'[l] = code[l] /\ code'[l] # new
      <4>1. l \in Lines!Existing /\ l \in Lines!Id /\ code[l] # Lines!None
        BY <1>7, <3>1 DEF Lines!Existing
      <4>2. code[l] \in Lines!Codes(Lines!Id \ {line})
        BY <3>1, <4>1 DEF Lines!Codes
      <4> QED BY <1>4, <1>6, <3>1, <4>1, <4>2
    <3> QED BY <1>0, <1>6, <3>1 DEF Lines!WholeAssignment
  <2>3. Lines!LinesOf(assigned') = IF job[r].kind = "delete"
                                   THEN Lines!LinesOf(assigned) \ {line}
                                   ELSE Lines!LinesOf(assigned)
    BY <1>5 DEF Lines!LinesOf
  <2>2. /\ newest' \cap Lines!Existing' \subseteq Lines!LinesOf(assigned')
        /\ Lines!LinesOf(assigned') \subseteq (newest' \cup overlap') \cap Lines!Existing'
    BY <1>0, <1>2, <1>5, <1>7, <2>3 DEF Lines!WholeAssignment
  <2> QED BY <2>1, <2>2 DEF Lines!WholeAssignment
<1>10. ASSUME NEW q \in Change PROVE RequestInv(q)'
  <2>1. CASE q = r
    BY <1>6, <2>1 DEF RequestInv, LineWritten, RowsWritten
  <2>2. CASE q # r
    <3>1. /\ phase'[q] = phase[q] /\ job'[q] = job[q] /\ assigned' \subseteq assigned
          /\ UNCHANGED <<lastId, newest, seen, removed, inserted, beside>>
      BY <1>5, <1>6, <2>2
    <3>2. ASSUME RowsWritten(q) PROVE inserted[q] \subseteq Lines!Existing'
      <4>1. line \notin inserted[q]
        BY <1>10, <1>b, <2>2, <3>2
      <4>2. inserted[q] \subseteq Lines!Existing
        BY <1>0, <3>2 DEF RequestInv
      <4> QED BY <1>7, <4>1, <4>2
    <3>3. ASSUME LineWritten(q)
          PROVE  IF job[q].kind = "create"
                 THEN job[q].line \in 1..lastId \ (Lines!Existing' \cup newest)
                 ELSE job[q].line \in Lines!Existing'
      <4>1. job[q].line # line
        BY <1>10, <1>b, <2>2, <3>3
      <4>2. IF job[q].kind = "create"
            THEN job[q].line \in 1..lastId \ (Lines!Existing \cup newest)
            ELSE job[q].line \in Lines!Existing
        BY <1>0, <3>3 DEF RequestInv
      <4> QED BY <1>7, <4>1, <4>2
    <3>4. ASSUME LineWritten(q), job[q].kind # "delete"
          PROVE  job[q].code \notin Lines!Codes(Lines!Id \ {job[q].line})'
      <4>1. job[q].code # new
        BY <1>10, <1>b, <2>2, <3>4
      <4>3. job[q].code \notin Lines!Codes(Lines!Id \ {job[q].line})
        BY <1>0, <3>4 DEF RequestInv
      <4>2. \A l \in Lines!Id \ {job[q].line} : code'[l] # job[q].code \/ code'[l] = Lines!None
        BY <1>6, <4>1, <4>3 DEF Lines!Codes
      <4> QED BY <3>1, <4>2 DEF Lines!Codes
    <3>5. RequestInv(q)
      BY <1>0
    <3> QED BY <3>1, <3>2, <3>3, <3>4, <3>5 DEF RequestInv, LineWritten, RowsWritten
  <2> QED BY <2>1, <2>2
<1>11. ASSUME NEW q \in Change, NEW p \in Change, q # p PROVE PairInv(q, p)'
  <2>1. LineWritten(r)' = FALSE /\ RowsWritten(r)' = FALSE
    BY <1>6 DEF LineWritten, RowsWritten
  <2> QED BY <1>0, <1>5, <1>6, <1>11, <2>1 DEF PairInv, LineWritten, RowsWritten
<1> QED BY <1>8, <1>9, <1>10, <1>11 DEF LinesInv

\* Every step keeps what the other requests rely on.
LEMMA LinesStep == LinesInv /\ [Lines!Next]_(Lines!vars) => LinesInv'
<1> SUFFICES ASSUME LinesInv, [Lines!Next]_(Lines!vars) PROVE LinesInv'
  OBVIOUS
<1> USE LinesConstants
<1> USE DEF LinesInv, LinesShape, RequestInv, PairInv, LineWritten, RowsWritten,
            Lines!Keep, Lines!KeepRows, Lines!Move, Lines!Writing
<1>job. Lines!Job \subseteq {j \in LineJob : j.kind # "none"}
  BY DEF Lines!Job, LineJob, Lines!None
<1>1. ASSUME NEW r \in Change, Lines!Start(r) PROVE LinesInv'
  BY <1>1, <1>job DEF Lines!Start, Lines!WholeAssignment, Lines!Existing, Lines!Codes
<1>2. ASSUME NEW r \in Change, Lines!Fail(r) PROVE LinesInv'
  BY <1>2 DEF Lines!Fail, Lines!WholeAssignment, Lines!Existing, Lines!Codes
<1>3. ASSUME NEW r \in Change, Lines!ReadLine(r) PROVE LinesInv'
  BY <1>3 DEF Lines!ReadLine, Lines!WholeAssignment, Lines!Existing, Lines!Codes
<1>4. ASSUME NEW r \in Change, Lines!CheckCode(r) PROVE LinesInv'
  BY <1>4 DEF Lines!CheckCode, Lines!WholeAssignment, Lines!Existing, Lines!Codes
<1>5. ASSUME NEW r \in Change, Lines!WriteNew(r) PROVE LinesInv'
  BY <1>5, WriteNewKeeps DEF LinesInv
<1>6. ASSUME NEW r \in Change, Lines!WriteChange(r) PROVE LinesInv'
  BY <1>6 DEF Lines!WriteChange, Lines!WholeAssignment, Lines!Existing, Lines!Codes,
     Lines!Claimed, Lines!Locked, Lines!Referenced
<1>7. ASSUME NEW r \in Change, Lines!WriteDeletion(r) PROVE LinesInv'
  BY <1>7, WriteDeletionKeeps DEF LinesInv
<1>8. ASSUME NEW r \in Change, Lines!CommitLine(r) PROVE LinesInv'
  BY <1>8, CommitLineKeeps DEF LinesInv
<1>9. ASSUME NEW r \in Change, Lines!CheckLines(r) PROVE LinesInv'
  BY <1>9 DEF Lines!CheckLines, Lines!WholeAssignment, Lines!Existing, Lines!Codes
<1>10. ASSUME NEW r \in Change, Lines!FindRows(r) PROVE LinesInv'
  BY <1>10 DEF Lines!FindRows, Lines!WholeAssignment, Lines!Existing, Lines!Codes
<1>11. ASSUME NEW r \in Change, Lines!DeleteRows(r) PROVE LinesInv'
  BY <1>11 DEF Lines!DeleteRows, Lines!WholeAssignment, Lines!Existing, Lines!Codes
<1>12. ASSUME NEW r \in Change, Lines!InsertRows(r) PROVE LinesInv'
  <2>1. /\ phase[r] = "inserting" /\ job[r].kind = "assign"
        /\ UNCHANGED <<lastId, code, assigned, newest, overlap, job, seen, beside>>
        /\ \A q \in Change : q # r => /\ phase'[q] = phase[q] /\ removed'[q] = removed[q]
                                     /\ inserted'[q] = inserted[q]
        /\ \/ phase'[r] = "failed"
           \/ /\ phase'[r] = "written" /\ inserted'[r] = job[r].wanted
              /\ removed'[r] = removed[r] /\ job[r].wanted \subseteq Lines!Existing
    BY <1>12 DEF Lines!InsertRows
  <2>2. LinesShape'
    BY <1>12 DEF Lines!InsertRows, Lines!Existing
  <2>3. Lines!WholeAssignment'
    BY <2>1 DEF Lines!WholeAssignment, Lines!Existing
  <2>4. ASSUME NEW q \in Change PROVE RequestInv(q)'
    BY <2>1 DEF Lines!Existing, Lines!Codes
  <2>5. job[r].wanted \cap Lines!Locked(r) = {}
    BY <1>12 DEF Lines!InsertRows
  <2>6. ASSUME NEW q \in Change, NEW p \in Change, q # p PROVE PairInv(q, p)'
    BY <2>1, <2>5, <2>6 DEF Lines!Locked
  <2> QED BY <2>2, <2>3, <2>4, <2>6
<1>13. ASSUME NEW r \in Change, Lines!CommitLines(r) PROVE LinesInv'
  <2> DEFINE added == {Lines!Row(l, r) : l \in inserted[r]}
  <2>1. /\ RowsWritten(r) /\ phase' = [phase EXCEPT ![r] = "done"]
        /\ assigned' = (assigned \ removed[r]) \cup added
        /\ removed' = [removed EXCEPT ![r] = {}] /\ inserted' = [inserted EXCEPT ![r] = {}]
        /\ newest' = job[r].wanted /\ overlap' = beside[r]
        /\ beside' = [q \in Change |-> beside[q] \cup job[r].wanted]
        /\ UNCHANGED <<lastId, code, job, seen>>
    BY <1>13 DEF Lines!CommitLines
  <2>2. /\ inserted[r] = job[r].wanted /\ inserted[r] \subseteq Lines!Existing
        /\ \A row \in assigned \ removed[r] : row.line \in beside[r]
    BY <2>1
  <2>3. /\ \A l \in inserted[r] : Lines!Row(l, r) \in LineRow /\ Lines!Row(l, r).line = l
        /\ Lines!LinesOf(added) = inserted[r]
    <3>1. inserted[r] \subseteq Lines!Id
      BY <2>2 DEF Lines!Existing
    <3>2. \A l \in Lines!Id : Lines!Row(l, r) \in LineRow /\ Lines!Row(l, r).line = l
      BY DEF Lines!Row, LineRow
    <3> QED BY <3>1, <3>2 DEF Lines!LinesOf
  <2>4. added \subseteq LineRow /\ \A row \in added : row.line \in job[r].wanted
    BY <2>2, <2>3
  <2>5. Lines!LinesOf(assigned') = Lines!LinesOf(assigned \ removed[r]) \cup job[r].wanted
    BY <2>1, <2>2, <2>3 DEF Lines!LinesOf
  <2> HIDE DEF added
  <2>6. Lines!LinesOf(assigned \ removed[r]) \subseteq beside[r] \cap Lines!Existing
    <3>1. Lines!LinesOf(assigned \ removed[r]) \subseteq beside[r]
      BY <2>2 DEF Lines!LinesOf
    <3>2. Lines!LinesOf(assigned \ removed[r]) \subseteq Lines!LinesOf(assigned)
      BY DEF Lines!LinesOf
    <3> QED BY <3>1, <3>2 DEF Lines!WholeAssignment
  <2>7. Lines!Existing' = Lines!Existing
    BY <2>1 DEF Lines!Existing
  <2>8. Lines!WholeAssignment'
    BY <2>1, <2>2, <2>5, <2>6, <2>7 DEF Lines!WholeAssignment
  <2>9. LinesShape'
    BY <2>1, <2>2, <2>4, <2>7 DEF Lines!Existing
  <2>10. ASSUME NEW q \in Change PROVE RequestInv(q)'
    <3>1. CASE q = r
      BY <2>1, <3>1
    <3>2. CASE q # r
      <4>1. /\ phase'[q] = phase[q] /\ removed'[q] = removed[q] /\ inserted'[q] = inserted[q]
            /\ beside'[q] = beside[q] \cup job[r].wanted
        BY <2>1, <3>2
      <4>2. /\ \A row \in assigned' \ seen'[q] :
                 row \in assigned \ seen[q] \/ row.line \in job[r].wanted
            /\ \A row \in assigned' \ removed'[q] :
                 row \in assigned \ removed[q] \/ row.line \in job[r].wanted
        BY <2>1, <2>4, <4>1
      <4>3. RequestInv(q)
        BY DEF LinesInv
      <4>4. /\ phase'[q] = "deleting" => \A row \in assigned' \ seen'[q] : row.line \in beside'[q]
            /\ phase'[q] = "inserting" \/ RowsWritten(q)' =>
                 \A row \in assigned' \ removed'[q] : row.line \in beside'[q]
        BY <2>1, <4>1, <4>2, <4>3
      <4>5. LineWritten(q) /\ job[q].kind = "create" => job[q].line \notin newest'
        BY <2>1, <2>2, <4>3
      <4> QED BY <2>1, <2>7, <4>1, <4>3, <4>4, <4>5 DEF Lines!Codes
    <3> QED BY <3>1, <3>2
  <2>11. ASSUME NEW q \in Change, NEW p \in Change, q # p PROVE PairInv(q, p)'
    BY <2>1, <2>11
  <2> QED BY <2>8, <2>9, <2>10, <2>11
<1>14. CASE UNCHANGED Lines!vars
  BY <1>14 DEF Lines!vars, Lines!WholeAssignment, Lines!Existing, Lines!Codes
<1> HIDE DEF LinesInv, LinesShape, RequestInv, PairInv, LineWritten, RowsWritten,
             Lines!Keep, Lines!KeepRows, Lines!Move, Lines!Writing
<1> QED
  BY <1>1, <1>2, <1>3, <1>4, <1>5, <1>6, <1>7, <1>8, <1>9, <1>10, <1>11, <1>12, <1>13,
     <1>14 DEF Lines!Next

\* The lines of a user are those of the assignment committed last, but for
\* those of one that overlapped it; no line is assigned that does not exist,
\* and codes are unique (admin/repository.py:152-162, admin/service.py).
THEOREM AssignmentAlwaysWhole == ServicesSpec => []WholeAssignment
<1> DEFINE Inv == subject = "lines" => LinesInv
<1>1. ServicesInit => Inv
  BY LinesStarts DEF ServicesInit
<1>2. Inv /\ [ServicesNext]_servicesVars => Inv'
  BY SubjectStep, LinesStep
<1>3. Inv => WholeAssignment
  BY DEF LinesInv, WholeAssignment
<1> QED BY <1>1, <1>2, <1>3, PTL DEF ServicesSpec

-----------------------------------------------------------------------------
(* The audit trail.                                                        *)

\* The commands of an event that come before anything names its id, those that
\* come after, and those after which its log is in Redis.
EarlyStages == {"insert", "commit", "number", "hset", "expire", "xadd"}
LateStages == {"zadd", "zremrange", "zexpire", "done", "cut"}
CopiedStages == {"xadd", "zadd", "zremrange", "zexpire", "done"}

\* The types.
AuditShape ==
  /\ time \in 1..(AuditTime + 1) /\ rowSeq \in Nat /\ redisSeq \in Nat
  /\ id \in [Event -> Audit!Id \cup {0}]
  /\ todo \in [Event -> EarlyStages \cup LateStages]
  /\ index \in [Event -> 1..Indexes]
  /\ stamp \in [Event -> Nat] /\ \A e \in Event : stamp[e] <= time
  /\ log \in [Audit!Id -> [by : SUBSET Event, dies : Nat]]
  /\ sorted \in [1..Indexes -> SUBSET [id : Audit!Id, score : Nat]]
  /\ ends \in [1..Indexes -> Nat]
  /\ listing \in [of : 0..Indexes, left : SUBSET Int]
  /\ listing.left # {} => listing.of \in 1..Indexes

\* Ids of rows are all different, and so are all ids while Redis gave none.
NumberInv ==
  /\ rowSeq + redisSeq <= Cardinality({e \in Event : id[e] # 0})
  /\ redisSeq = 0 =>
       \A e \in Event : id[e] # 0 => id[e] <= rowSeq /\ \A f \in Event \ {e} : id[f] # id[e]
  /\ \A e \in Event :
       /\ todo[e] = "insert" => id[e] = 0
       /\ id[e] = 0 => todo[e] \in {"insert", "number", "cut"}
       /\ todo[e] \in EarlyStages => index[e] = 1

\* The ids the sorted sets may name.
Referenced == {id[f] : f \in {g \in Event : todo[g] \in LateStages}}

\* What is in the store under an id is of an event that has it.
ReferenceInv ==
  /\ \A j \in Audit!Id : log[j] # Audit!NoLog => \E f \in Event : id[f] = j
  /\ \A k \in 1..Indexes : \A z \in sorted[k] : z.id \in Referenced
  /\ \A j \in Audit!Id : j \in listing.left \/ -j \in listing.left => j \in Referenced

\* What a sorted set holds of an event.
Entry(e) == [id |-> id[e], score |-> stamp[e]]

\* An event whose id nobody else has finds nothing under it before it writes;
\* then its log stays until its time is over, no listing takes it for gone, and
\* the sets it was added to have it, unless one ended meanwhile.
EventInv(e) ==
  id[e] # 0 /\ (\A f \in Event \ {e} : id[f] # id[e]) /\ todo[e] # "cut" =>
    /\ todo[e] \in {"commit", "number", "hset"} => log[id[e]] = Audit!NoLog
    /\ todo[e] = "expire" => log[id[e]] = [by |-> {e}, dies |-> Audit!Forever]
    /\ todo[e] \in CopiedStages => log[id[e]].by = {e} /\ log[id[e]].dies >= stamp[e] + AuditTtl
    /\ -id[e] \in listing.left => time >= stamp[e] + AuditTtl
    /\ e \notin lapsed /\ time < stamp[e] + AuditTtl =>
         /\ \A k \in 1..Indexes : k < index[e] \/ todo[e] = "done" =>
              Entry(e) \in sorted[k] /\ ends[k] >= stamp[e] + AuditTtl
         /\ todo[e] \in {"zremrange", "zexpire"} =>
              Entry(e) \in sorted[index[e]] /\ time < ends[index[e]]

\* The four parts.
AuditInv ==
  /\ AuditShape
  /\ NumberInv
  /\ ReferenceInv
  /\ \A e \in Event : EventInv(e)

\* There are as many ids as events, and Forever is after the run.
LEMMA AuditConstants ==
  /\ IsFiniteSet(Event) /\ Indexes \in Nat \ {0} /\ AuditTtl \in Nat \ {0}
  /\ AuditTime \in Nat
  /\ Cardinality(Event) \in Nat /\ Audit!Id = 1..Cardinality(Event)
  /\ Audit!Forever \in Nat /\ \A t \in 1..(AuditTime + 1) : t < Audit!Forever
<1>1. Audit!Cardinality(Event) = Cardinality(Event)
  BY DEF Audit!Cardinality, Cardinality
<1>2. IsFiniteSet(Event)
  BY ServicesAssumption DEF Audit!AuditAssumption, Audit!IsFiniteSet, IsFiniteSet
<1> QED BY <1>1, <1>2, ServicesAssumption, FS_CardinalityType
     DEF Audit!AuditAssumption, Audit!Id, Audit!Forever

\* Nothing is recorded.
LEMMA AuditStarts == Audit!Init => AuditInv
<1> SUFFICES ASSUME Audit!Init PROVE AuditInv
  OBVIOUS
<1> USE AuditConstants
<1>1. AuditShape
  BY DEF Audit!Init, AuditShape, Audit!NoLog, Audit!NoListing, EarlyStages, LateStages
<1>2. NumberInv
  <2>1. {e \in Event : id[e] # 0} = {}
    BY DEF Audit!Init
  <2>2. Cardinality({e \in Event : id[e] # 0}) = 0
    BY <2>1, FS_EmptySet
  <2>3. /\ rowSeq = 0 /\ redisSeq = 0
        /\ \A e \in Event : id[e] = 0 /\ todo[e] = "insert" /\ index[e] = 1
    BY DEF Audit!Init
  <2> QED BY <2>2, <2>3 DEF NumberInv
<1>3. ReferenceInv
  BY DEF Audit!Init, ReferenceInv, Audit!NoListing
<1>4. \A e \in Event : EventInv(e)
  BY DEF Audit!Init, EventInv
<1> QED BY <1>1, <1>2, <1>3, <1>4 DEF AuditInv

\* What the invariant says of an event that is alone, copied and in time.
LEMMA AuditHonest == AuditInv => Audit!AuditKept
<1> SUFFICES ASSUME AuditInv, NEW e \in Event
             PROVE  Audit!AuditKept!(e)
  BY DEF Audit!AuditKept
<1> USE AuditConstants
<1>1. AuditShape /\ NumberInv /\ EventInv(e)
  BY DEF AuditInv
<1>2. id[e] # 0 /\ ~Audit!Alone(e) => redisSeq > 0
  BY <1>1 DEF AuditShape, NumberInv, Audit!Alone
<1>3. ASSUME todo[e] = "done", time < stamp[e] + AuditTtl, Audit!Alone(e), e \notin lapsed
      PROVE  /\ \A k \in 1..Indexes : Entry(e) \in Audit!Sorted(k)
             /\ Audit!Log(id[e]).by = {e}
  <2>1. id[e] # 0
    BY <1>1, <1>3 DEF NumberInv
  <2>2. log[id[e]].by = {e} /\ log[id[e]].dies >= stamp[e] + AuditTtl
    BY <1>1, <1>3, <2>1 DEF EventInv, CopiedStages, Audit!Alone
  <2>3. \A k \in 1..Indexes : Entry(e) \in sorted[k] /\ ends[k] >= stamp[e] + AuditTtl
    BY <1>1, <1>3, <2>1 DEF EventInv, Audit!Alone
  <2>4. /\ time \in Nat /\ stamp[e] + AuditTtl \in Nat /\ id[e] \in Audit!Id
        /\ log[id[e]].dies \in Nat /\ \A k \in 1..Indexes : ends[k] \in Nat
    BY <1>1, <2>1 DEF AuditShape
  <2> QED BY <1>3, <2>2, <2>3, <2>4 DEF Audit!Log, Audit!Sorted
<1> QED BY <1>2, <1>3 DEF Entry

-----------------------------------------------------------------------------
(* Steps of an event.                                                      *)

\* All stages.
Stages == EarlyStages \cup LateStages

\* An event that has its id goes on to `s`.
EventMoves(e, s) ==
  /\ todo' = [todo EXCEPT ![e] = s] /\ s \in Stages
  /\ s # "insert" /\ (id[e] = 0 => s \in {"number", "cut"})
  /\ todo[e] \in LateStages => s \in LateStages
  /\ UNCHANGED <<rowSeq, redisSeq, id>>

\* What is under an id stays of an event that has it.
LEMMA MoveKeepsIds ==
  ASSUME AuditShape, NumberInv, NEW e \in Event, NEW s, EventMoves(e, s),
         UNCHANGED index \/ (s \in LateStages /\ \A f \in Event \ {e} : index'[f] = index[f])
  PROVE  NumberInv' /\ Referenced \subseteq Referenced'
<1>1. \A f \in Event : todo'[f] = IF f = e THEN s ELSE todo[f]
  BY DEF AuditShape, EventMoves
<1>2. NumberInv'
  <2>1. \A f \in Event : id[f] = 0 => todo'[f] \in {"insert", "number", "cut"}
    BY <1>1 DEF NumberInv, EventMoves
  <2>2. \A f \in Event : todo'[f] = "insert" => id[f] = 0
    BY <1>1 DEF NumberInv, EventMoves
  <2>3. ASSUME NEW f \in Event, todo'[f] \in EarlyStages PROVE index'[f] = 1
    <3>1. todo[f] \in EarlyStages
      BY <1>1, <2>3 DEF EventMoves, AuditShape, EarlyStages, LateStages
    <3>2. f = e => s \in EarlyStages
      BY <1>1, <2>3
    <3> QED BY <3>1, <3>2 DEF NumberInv, EarlyStages, LateStages
  <2> QED BY <2>1, <2>2, <2>3 DEF NumberInv, EventMoves
<1>3. ASSUME NEW j \in Referenced PROVE j \in Referenced'
  <2>1. PICK f \in Event : id[f] = j /\ todo[f] \in LateStages
    BY <1>3 DEF Referenced
  <2>2. id'[f] = j /\ todo'[f] \in LateStages
    BY <1>1, <2>1 DEF EventMoves
  <2> QED BY <2>2 DEF Referenced
<1> QED BY <1>2, <1>3

\* References that were there, or are of the event, are of an event that has
\* the id.
LEMMA MoveKeepsReferences ==
  ASSUME AuditShape, ReferenceInv, NEW e \in Event, NEW s, EventMoves(e, s),
         Referenced \subseteq Referenced',
         \A j \in Audit!Id : log'[j] # Audit!NoLog => log[j] # Audit!NoLog \/ j = id[e],
         \A k \in 1..Indexes : \A z \in sorted'[k] :
           z \in sorted[k] \/ (z.id = id[e] /\ s \in LateStages),
         listing' = listing
  PROVE  ReferenceInv'
<1>1. ASSUME NEW j \in Audit!Id, log'[j] # Audit!NoLog
      PROVE  \E f \in Event : id'[f] = j
  <2>1. log[j] # Audit!NoLog \/ j = id[e]
    BY <1>1
  <2>2. \E f \in Event : id[f] = j
    BY <2>1 DEF ReferenceInv
  <2> QED BY <2>2 DEF EventMoves
<1>3. Audit!NoLog' = Audit!NoLog
  BY DEF Audit!NoLog, Audit!Forever
<1>2. \A k \in 1..Indexes : \A z \in sorted'[k] : z.id \in Referenced'
  <2>1. s \in LateStages => id[e] \in Referenced'
    BY DEF AuditShape, EventMoves, Referenced
  <2> QED BY <2>1 DEF ReferenceInv
<1> QED BY <1>1, <1>2, <1>3 DEF ReferenceInv

\* What an event relies on is left by a step of another: its log, and its
\* entries as long as they matter.
LEMMA OtherKeeps ==
  ASSUME AuditShape, NEW e \in Event, NEW s, EventMoves(e, s),
         NEW f \in Event \ {e}, EventInv(f),
         index'[f] = index[f], stamp' = stamp, UNCHANGED <<lapsed, time, listing>>,
         id[f] \in Audit!Id /\ id[f] # id[e] => log'[id[f]] = log[id[f]],
         \A k \in 1..Indexes :
           id[f] # id[e] /\ time < stamp[f] + AuditTtl
             /\ Entry(f) \in sorted[k] /\ time < ends[k] =>
               /\ Entry(f) \in sorted'[k] /\ time < ends'[k]
               /\ ends[k] >= stamp[f] + AuditTtl => ends'[k] >= stamp[f] + AuditTtl
  PROVE  EventInv(f)'
<1>0. todo'[f] = todo[f] /\ id' = id /\ Entry(f)' = Entry(f)
  BY DEF EventMoves, AuditShape, Entry
<1>a. /\ index[f] \in 1..Indexes /\ id[f] \in Audit!Id \cup {0}
      /\ time \in Nat /\ stamp[f] \in Nat /\ \A k \in 1..Indexes : ends[k] \in Nat
  BY AuditConstants DEF AuditShape
<1>1. /\ todo'[f] = todo[f] /\ id' = id /\ Entry(f)' = Entry(f)
      /\ index[f] \in 1..Indexes /\ id[f] \in Audit!Id \cup {0}
      /\ time \in Nat /\ stamp[f] \in Nat /\ \A k \in 1..Indexes : ends[k] \in Nat
  BY <1>0, <1>a
<1>2. Audit!NoLog' = Audit!NoLog /\ Audit!Forever' = Audit!Forever
  BY DEF Audit!NoLog, Audit!Forever
<1>3. SUFFICES ASSUME id[f] # 0, \A g \in Event \ {f} : id[g] # id[f], todo[f] # "cut"
               PROVE  EventInv(f)'
  BY <1>1 DEF EventInv
<1>4. id[f] # id[e] /\ log'[id[f]] = log[id[f]]
  BY <1>1, <1>3
<1>5. ASSUME f \notin lapsed, time < stamp[f] + AuditTtl
      PROVE  /\ \A k \in 1..Indexes : k < index[f] \/ todo[f] = "done" =>
                  Entry(f) \in sorted'[k] /\ ends'[k] >= stamp[f] + AuditTtl
             /\ todo[f] \in {"zremrange", "zexpire"} =>
                  Entry(f) \in sorted'[index[f]] /\ time < ends'[index[f]]
  <2>1. \A k \in 1..Indexes : ends[k] >= stamp[f] + AuditTtl => time < ends[k]
    BY <1>1, <1>5, AuditConstants
  <2> QED BY <1>1, <1>3, <1>4, <1>5, <2>1 DEF EventInv
<1> QED BY <1>1, <1>2, <1>3, <1>4, <1>5 DEF EventInv

\* An event that takes an id finds nothing under it, unless another has it.
LEMMA NewIdKeeps ==
  ASSUME AuditInv, NEW e \in Event, id[e] = 0, todo[e] \in {"insert", "number"},
         NEW j \in Audit!Id, NEW s \in {"commit", "hset"},
         id' = [id EXCEPT ![e] = j], todo' = [todo EXCEPT ![e] = s],
         \A f \in Event \ {e} : stamp'[f] = stamp[f],
         UNCHANGED <<time, lapsed, index, log, sorted, ends, listing>>
  PROVE  ReferenceInv' /\ \A f \in Event : EventInv(f)'
<1>0. AuditShape /\ NumberInv /\ ReferenceInv /\ \A f \in Event : EventInv(f)
  BY DEF AuditInv
<1>1. /\ id'[e] = j /\ todo'[e] = s
      /\ \A f \in Event \ {e} : id'[f] = id[f] /\ todo'[f] = todo[f] /\ Entry(f)' = Entry(f)
  BY <1>0 DEF AuditShape, Entry
<1>2. Audit!NoLog' = Audit!NoLog /\ Audit!Forever' = Audit!Forever
  BY DEF Audit!NoLog, Audit!Forever
<1>3. j # 0 /\ 0 \notin Audit!Id
  BY AuditConstants
<1>4. Referenced \subseteq Referenced'
  <2>1. ASSUME NEW f \in Event, todo[f] \in LateStages PROVE id[f] \in Referenced'
    <3>1. f # e
      BY <2>1 DEF LateStages
    <3>2. id'[f] = id[f] /\ todo'[f] \in LateStages
      BY <1>1, <2>1, <3>1
    <3> QED BY <3>2 DEF Referenced
  <2> QED BY <2>1 DEF Referenced
<1>5. ReferenceInv'
  <2>1. ASSUME NEW i \in Audit!Id, NEW f \in Event, id[f] = i PROVE id'[f] = i
    BY <1>1, <1>3, <2>1
  <2>2. \A i \in Audit!Id : log'[i] # Audit!NoLog => \E f \in Event : id'[f] = i
    BY <1>0, <2>1 DEF ReferenceInv
  <2> QED BY <1>0, <1>2, <1>4, <2>2 DEF ReferenceInv
<1>6. EventInv(e)'
  <2> SUFFICES ASSUME \A f \in Event \ {e} : id'[f] # j PROVE EventInv(e)'
    BY <1>1 DEF EventInv
  <2>1. \A f \in Event : id[f] # j
    BY <1>1, <1>3
  <2>2. log[j] = Audit!NoLog
    BY <1>0, <2>1 DEF ReferenceInv
  <2>3. j \notin Referenced
    BY <2>1 DEF Referenced
  <2>4. -j \notin listing.left
    BY <1>0, <2>3 DEF ReferenceInv
  <2>5. index[e] = 1
    BY <1>0 DEF NumberInv, EarlyStages
  <2>6. \A k \in 1..Indexes : ~(k < 1)
    BY AuditConstants
  <2> QED BY <1>1, <1>2, <2>2, <2>4, <2>5, <2>6 DEF EventInv, CopiedStages
<1>7. ASSUME NEW f \in Event \ {e} PROVE EventInv(f)'
  <2>1. (id'[f] # 0 /\ \A g \in Event \ {f} : id'[g] # id'[f])
          => id[f] # 0 /\ \A g \in Event \ {f} : id[g] # id[f]
    BY <1>1, <1>7
  <2> QED BY <1>0, <1>1, <1>2, <2>1 DEF EventInv
<1> QED BY <1>5, <1>6, <1>7

\* One more id is given, and it is an id.
LEMMA OneMore ==
  ASSUME AuditShape, NumberInv, NEW e \in Event, id[e] = 0, NEW j,
         j # 0, id' = [id EXCEPT ![e] = j]
  PROVE  /\ rowSeq + redisSeq + 1 <= Cardinality({f \in Event : id'[f] # 0})
         /\ rowSeq + 1 \in Audit!Id /\ redisSeq + 1 \in Audit!Id
<1> DEFINE Given == {f \in Event : id[f] # 0}
<1>1. {f \in Event : id'[f] # 0} = Given \cup {e} /\ e \notin Given
  BY DEF AuditShape
<1>2. IsFiniteSet(Given) /\ Given \cup {e} \in SUBSET Event
  BY AuditConstants, FS_Subset
<1>3. Cardinality(Given \cup {e}) = Cardinality(Given) + 1
  BY <1>1, <1>2, FS_AddElement
<1>4. Cardinality(Given \cup {e}) <= Cardinality(Event)
  BY <1>2, AuditConstants, FS_Subset
<1>5. Cardinality(Given) \in Nat /\ rowSeq + redisSeq <= Cardinality(Given)
  BY <1>2, FS_CardinalityType DEF NumberInv
<1>6. Cardinality({f \in Event : id'[f] # 0}) = Cardinality(Given) + 1
  BY <1>1, <1>3
<1> HIDE DEF Given
<1>7. rowSeq \in Nat /\ redisSeq \in Nat
  BY DEF AuditShape
<1> QED BY <1>3, <1>4, <1>5, <1>6, <1>7, AuditConstants

\* An id of the database is new while Redis gave none.
LEMMA FlushKeeps ==
  ASSUME AuditInv, NEW e \in Event, Audit!Flush(e) PROVE AuditInv'
<1>0. AuditShape /\ NumberInv
  BY DEF AuditInv
<1>1. /\ todo[e] = "insert" /\ rowSeq' = rowSeq + 1 /\ id' = [id EXCEPT ![e] = rowSeq + 1]
      /\ todo' = [todo EXCEPT ![e] = "commit"]
      /\ UNCHANGED <<time, lapsed, redisSeq, index, stamp, listing, rows, log, sorted, ends, stream>>
  BY DEF Audit!Flush, Audit!clock, Audit!store
<1>2. id[e] = 0 /\ rowSeq + 1 # 0 /\ rowSeq \in Nat /\ redisSeq \in Nat
  BY <1>0, <1>1 DEF NumberInv, AuditShape
<1>3. /\ rowSeq' + redisSeq' <= Cardinality({f \in Event : id'[f] # 0})
      /\ rowSeq + 1 \in Audit!Id
  <2>1. /\ rowSeq + redisSeq + 1 <= Cardinality({f \in Event : id'[f] # 0})
        /\ rowSeq + 1 \in Audit!Id
    BY <1>0, <1>1, <1>2, OneMore
  <2>2. rowSeq' + redisSeq' = rowSeq + redisSeq + 1
    BY <1>1, <1>2
  <2> QED BY <2>1, <2>2
<1>4. /\ id'[e] = rowSeq + 1 /\ todo'[e] = "commit"
      /\ \A f \in Event \ {e} : id'[f] = id[f] /\ todo'[f] = todo[f]
  BY <1>0, <1>1 DEF AuditShape
<1>5. NumberInv'
  <2>1. ASSUME redisSeq = 0, NEW f \in Event, id'[f] # 0
        PROVE  id'[f] <= rowSeq + 1 /\ \A g \in Event \ {f} : id'[g] # id'[f]
    <3>1. \A g \in Event \ {e} : id[g] <= rowSeq /\ id[g] \in Int
      BY <1>0, <1>2, <2>1, AuditConstants DEF NumberInv, AuditShape
    <3>2. \A g, h \in Event : g # h /\ id[g] # 0 => id[h] # id[g]
      BY <1>0, <2>1 DEF NumberInv
    <3>3. \A g \in Event \ {e} : id[g] # rowSeq + 1
      BY <1>2, <3>1
    <3> QED BY <1>2, <1>4, <2>1, <3>1, <3>2, <3>3
  <2>2. \A f \in Event : /\ todo'[f] = "insert" => id'[f] = 0
                         /\ id'[f] = 0 => todo'[f] \in {"insert", "number", "cut"}
                         /\ todo'[f] \in EarlyStages => index'[f] = 1
    BY <1>0, <1>1, <1>2, <1>4 DEF NumberInv, EarlyStages
  <2> QED BY <1>1, <1>3, <2>1, <2>2 DEF NumberInv
<1>6. AuditShape'
  BY <1>0, <1>1, <1>2, <1>3 DEF AuditShape, EarlyStages
<1>7. ReferenceInv' /\ \A f \in Event : EventInv(f)'
  BY <1>1, <1>2, <1>3, NewIdKeeps
<1> QED BY <1>5, <1>6, <1>7 DEF AuditInv

\* An id of Redis is one no other event has, unless the database gave it.
LEMMA NumberKeeps ==
  ASSUME AuditInv, NEW e \in Event, Audit!Number(e) PROVE AuditInv'
<1>0. AuditShape /\ NumberInv /\ ReferenceInv /\ \A f \in Event : EventInv(f)
  BY DEF AuditInv
<1>1. /\ todo[e] = "number" /\ todo' = [todo EXCEPT ![e] = "hset"]
      /\ stamp' = [stamp EXCEPT ![e] = time]
      /\ UNCHANGED <<time, lapsed, rowSeq, index, listing, rows, log, sorted, ends, stream>>
  BY DEF Audit!Number, Audit!Command, Audit!Following, Audit!clock, Audit!store
<1>2. /\ \A f \in Event \ {e} : stamp'[f] = stamp[f] /\ todo'[f] = todo[f]
      /\ stamp'[e] = time /\ todo'[e] = "hset" /\ time \in Nat
      /\ rowSeq \in Nat /\ redisSeq \in Nat
  BY <1>0, <1>1, AuditConstants DEF AuditShape
<1>3. stamp' \in [Event -> Nat] /\ \A f \in Event : stamp'[f] <= time'
  BY <1>0, <1>1, <1>2 DEF AuditShape
<1>4. CASE id[e] # 0
  <2>1. UNCHANGED <<redisSeq, id>>
    BY <1>4 DEF Audit!Number
  <2>2. EventMoves(e, "hset")
    BY <1>1, <1>4, <2>1 DEF EventMoves, Stages, EarlyStages, LateStages
  <2>3. NumberInv' /\ Referenced \subseteq Referenced'
    BY <1>0, <1>1, <2>2, MoveKeepsIds
  <2>4. ReferenceInv'
    BY <1>0, <1>1, <2>2, <2>3, MoveKeepsReferences
  <2>5. AuditShape'
    BY <1>0, <1>1, <1>3, <2>1 DEF AuditShape, EarlyStages
  <2>6. ASSUME NEW f \in Event PROVE EventInv(f)'
    <3>1. CASE f # e
      <4>1. Audit!NoLog' = Audit!NoLog /\ Audit!Forever' = Audit!Forever
        BY DEF Audit!NoLog, Audit!Forever
      <4>2. Entry(f)' = Entry(f)
        BY <1>2, <2>1, <3>1 DEF Entry
      <4> QED BY <1>0, <1>1, <1>2, <2>1, <3>1, <4>1, <4>2 DEF EventInv
    <3>2. CASE f = e
      <4>1. Audit!NoLog' = Audit!NoLog
        BY DEF Audit!NoLog, Audit!Forever
      <4>2. index[e] = 1 /\ \A k \in 1..Indexes : ~(k < 1)
        BY <1>0, <1>1, AuditConstants DEF NumberInv, EarlyStages
      <4>3. ASSUME \A g \in Event \ {e} : id[g] # id[e] PROVE -id[e] \notin listing.left
        <5>1. id[e] \notin Referenced
          BY <1>1, <4>3 DEF Referenced, LateStages
        <5> QED BY <1>0, <1>4, <5>1 DEF ReferenceInv, AuditShape
      <4> QED BY <1>0, <1>1, <1>2, <1>4, <2>1, <3>2, <4>1, <4>2, <4>3 DEF EventInv, CopiedStages
    <3> QED BY <3>1, <3>2
  <2> QED BY <2>3, <2>4, <2>5, <2>6 DEF AuditInv
<1>5. CASE id[e] = 0
  <2>1. redisSeq' = redisSeq + 1 /\ id' = [id EXCEPT ![e] = redisSeq + 1] /\ redisSeq + 1 # 0
    BY <1>2, <1>5 DEF Audit!Number
  <2>2. /\ rowSeq + redisSeq + 1 <= Cardinality({f \in Event : id'[f] # 0})
        /\ redisSeq + 1 \in Audit!Id
    BY <1>0, <1>5, <2>1, OneMore
  <2>3. rowSeq' + redisSeq' = rowSeq + redisSeq + 1 /\ redisSeq' # 0
    BY <1>1, <1>2, <2>1
  <2>4. /\ id'[e] = redisSeq + 1 /\ \A f \in Event \ {e} : id'[f] = id[f]
    BY <1>0, <2>1 DEF AuditShape
  <2>5. \A f \in Event : /\ todo'[f] = "insert" => id'[f] = 0
                         /\ id'[f] = 0 => todo'[f] \in {"insert", "number", "cut"}
                         /\ todo'[f] \in EarlyStages => index'[f] = 1
    BY <1>0, <1>1, <1>2, <2>1, <2>4 DEF NumberInv, EarlyStages
  <2>6. NumberInv'
    BY <2>2, <2>3, <2>5 DEF NumberInv
  <2>7. AuditShape'
    BY <1>0, <1>1, <1>2, <1>3, <2>1, <2>2 DEF AuditShape, EarlyStages
  <2>8. ReferenceInv' /\ \A f \in Event : EventInv(f)'
    BY <1>1, <1>2, <1>5, <2>1, <2>2, NewIdKeeps
  <2> QED BY <2>6, <2>7, <2>8 DEF AuditInv
<1> QED BY <1>4, <1>5

\* What a step of an event that has its id has to respect of the others.
Respects(e, s) ==
  /\ \A j \in Audit!Id : log'[j] = log[j] \/ j = id[e]
  /\ \A k \in 1..Indexes : \A z \in sorted'[k] :
       z \in sorted[k] \/ (z.id = id[e] /\ s \in LateStages)
  /\ \A f \in Event \ {e} : \A k \in 1..Indexes :
       id[f] # id[e] /\ time < stamp[f] + AuditTtl
         /\ Entry(f) \in sorted[k] /\ time < ends[k] =>
           /\ Entry(f) \in sorted'[k] /\ time < ends'[k]
           /\ ends[k] >= stamp[f] + AuditTtl => ends'[k] >= stamp[f] + AuditTtl

\* A step of one event that respects the others keeps the invariant.
LEMMA MoveKeeps ==
  ASSUME AuditInv, NEW e \in Event, NEW s, EventMoves(e, s),
         UNCHANGED index \/ (s \in LateStages /\ \A f \in Event \ {e} : index'[f] = index[f]),
         UNCHANGED <<stamp, lapsed, time, listing>>,
         Respects(e, s), AuditShape', EventInv(e)'
  PROVE  AuditInv'
<1>0. AuditShape /\ NumberInv /\ ReferenceInv /\ \A f \in Event : EventInv(f)
  BY DEF AuditInv
<1>1. NumberInv' /\ Referenced \subseteq Referenced'
  BY <1>0, MoveKeepsIds
<1>2. ReferenceInv'
  BY <1>0, <1>1, MoveKeepsReferences DEF Respects
<1>3. ASSUME NEW f \in Event \ {e} PROVE EventInv(f)'
  <2>1. index'[f] = index[f]
    OBVIOUS
  <2> QED BY <1>0, <2>1, OtherKeeps DEF Respects
<1> QED BY <1>1, <1>2, <1>3 DEF AuditInv

\* A step that leaves logs and sets respects the others.
LEMMA StoreKeeps ==
  ASSUME UNCHANGED <<log, sorted, ends>>, NEW e, NEW s PROVE Respects(e, s)
BY DEF Respects

\* So does one that writes the log under its own id.
LEMMA LogKeeps ==
  ASSUME AuditShape, NEW e, NEW s, NEW l, log' = [log EXCEPT ![id[e]] = l],
         UNCHANGED <<sorted, ends>>
  PROVE  Respects(e, s)
BY DEF Respects, AuditShape

\* The steps of an event that leave the sorted sets.
LEMMA LogStepsKeep ==
  ASSUME AuditInv, NEW e \in Event,
         \/ Audit!InsertFail(e) \/ Audit!Commit(e) \/ Audit!Hset(e) \/ Audit!Expire(e)
         \/ Audit!Xadd(e) \/ Audit!Cut(e)
  PROVE  AuditInv'
<1> USE AuditConstants
<1>0. AuditShape /\ NumberInv /\ ReferenceInv /\ EventInv(e)
  BY DEF AuditInv
<1>d. /\ id[e] \in Audit!Id \cup {0} /\ todo[e] \in Stages /\ stamp[e] \in Nat
      /\ stamp[e] <= time /\ DOMAIN todo = Event /\ DOMAIN log = Audit!Id
      /\ time \in 1..(AuditTime + 1)
  BY <1>0 DEF AuditShape, Stages
<1>e. \A j \in Audit!Id : log[j] \in [by : SUBSET Event, dies : Nat]
  BY <1>0 DEF AuditShape
<1>a. /\ id[e] \in Audit!Id \cup {0} /\ todo[e] \in Stages /\ stamp[e] \in Nat /\ time \in Nat
      /\ stamp[e] <= time /\ DOMAIN todo = Event /\ DOMAIN log = Audit!Id
      /\ \A j \in Audit!Id : log[j] \in [by : SUBSET Event, dies : Nat]
      /\ time \in 1..(AuditTime + 1)
  BY <1>d, <1>e
<1>b. /\ todo[e] \in EarlyStages => index[e] = 1
      /\ id[e] = 0 => todo[e] \in {"insert", "number", "cut"}
      /\ \A k \in 1..Indexes : ~(k < 1)
  BY <1>0 DEF NumberInv
<1>c. Audit!NoLog' = Audit!NoLog /\ Audit!Forever' = Audit!Forever
  BY DEF Audit!NoLog, Audit!Forever
<1> USE DEF Audit!clock, Audit!seqs, Audit!event, Audit!store, Audit!Command, Audit!Following
<1>1. CASE Audit!InsertFail(e)
  <2>1. id[e] = 0 /\ UNCHANGED <<log, sorted, ends, id, index, stamp, lapsed, time, listing>>
    BY <1>0, <1>1 DEF Audit!InsertFail, NumberInv
  <2>2. EventMoves(e, "number")
    BY <1>1, <1>a DEF Audit!InsertFail, EventMoves, Stages, EarlyStages, LateStages
  <2>3. AuditShape'
    BY <1>0, <1>1 DEF Audit!InsertFail, AuditShape, EarlyStages
  <2>4. EventInv(e)'
    BY <2>1 DEF EventInv
  <2> QED BY <2>1, <2>2, <2>3, <2>4, StoreKeeps, MoveKeeps
<1>2. CASE Audit!Cut(e)
  <2>1. UNCHANGED <<log, sorted, ends, id, index, stamp, lapsed, time, listing>>
    BY <1>2 DEF Audit!Cut
  <2>2. EventMoves(e, "cut")
    BY <1>2 DEF Audit!Cut, EventMoves, Stages, EarlyStages, LateStages
  <2>3. AuditShape'
    BY <1>0, <1>2 DEF Audit!Cut, AuditShape, LateStages
  <2>4. EventInv(e)'
    BY <1>a, <2>2 DEF EventInv, EventMoves
  <2> QED BY <2>1, <2>2, <2>3, <2>4, StoreKeeps, MoveKeeps
<1>3. CASE Audit!Commit(e)
  <2>1. /\ todo[e] = "commit"
        /\ UNCHANGED <<log, sorted, ends, id, index, stamp, lapsed, time, listing>>
    BY <1>3 DEF Audit!Commit
  <2>2. EventMoves(e, "number")
    BY <1>3, <1>a DEF Audit!Commit, EventMoves, Stages, EarlyStages, LateStages
  <2>3. AuditShape'
    BY <1>0, <1>3 DEF Audit!Commit, AuditShape, EarlyStages
  <2>4. todo'[e] = "number"
    BY <1>a, <2>2 DEF EventMoves
  <2>5. EventInv(e)'
    BY <1>0, <1>b, <1>c, <2>1, <2>4 DEF EventInv, EarlyStages, CopiedStages
  <2> QED BY <2>1, <2>2, <2>3, <2>5, StoreKeeps, MoveKeeps
<1>4. CASE Audit!Xadd(e)
  <2>1. /\ todo[e] = "xadd"
        /\ UNCHANGED <<log, sorted, ends, id, index, stamp, lapsed, time, listing>>
    BY <1>4 DEF Audit!Xadd
  <2>2. EventMoves(e, "zadd")
    BY <1>4, <1>b DEF Audit!Xadd, EventMoves, Stages, EarlyStages, LateStages
  <2>3. AuditShape'
    BY <1>0, <1>4 DEF Audit!Xadd, AuditShape, LateStages
  <2>4. todo'[e] = "zadd"
    BY <1>a, <2>2 DEF EventMoves
  <2>5. EventInv(e)'
    BY <1>0, <1>b, <1>c, <2>1, <2>4 DEF EventInv, EarlyStages, CopiedStages
  <2> QED BY <2>1, <2>2, <2>3, <2>5, StoreKeeps, MoveKeeps
<1>5. CASE Audit!Hset(e)
  <2> DEFINE old == Audit!Log(id[e])
             new == [by |-> old.by \cup {e}, dies |-> old.dies]
  <2>1. /\ todo[e] = "hset" /\ log' = [log EXCEPT ![id[e]] = new] /\ id[e] \in Audit!Id
        /\ UNCHANGED <<sorted, ends, id, index, stamp, lapsed, time, listing>>
    BY <1>5, <1>a, <1>b DEF Audit!Hset
  <2>2. EventMoves(e, "expire")
    BY <1>5, <1>b DEF Audit!Hset, EventMoves, Stages, EarlyStages, LateStages
  <2>3. old \in [by : SUBSET Event, dies : Nat]
    BY <1>a, <2>1 DEF Audit!Log, Audit!NoLog
  <2>4. new \in [by : SUBSET Event, dies : Nat]
    BY <2>3
  <2>5. log[id[e]] = Audit!NoLog => new = [by |-> {e}, dies |-> Audit!Forever]
    BY DEF Audit!Log, Audit!NoLog
  <2> HIDE DEF new
  <2>6. AuditShape'
    BY <1>0, <1>5, <2>1, <2>4 DEF Audit!Hset, AuditShape, EarlyStages
  <2>7. todo'[e] = "expire" /\ log'[id[e]] = new
    BY <1>a, <2>1, <2>2 DEF EventMoves
  <2>8. EventInv(e)'
    BY <1>0, <1>b, <1>c, <2>1, <2>5, <2>7 DEF EventInv, EarlyStages, CopiedStages
  <2> QED BY <1>0, <2>1, <2>2, <2>6, <2>8, LogKeeps, MoveKeeps
<1>6. CASE Audit!Expire(e)
  <2> DEFINE new == IF Audit!Log(id[e]) = Audit!NoLog THEN log[id[e]]
                    ELSE [by |-> log[id[e]].by, dies |-> time + AuditTtl]
  <2>1. /\ todo[e] = "expire" /\ id[e] \in Audit!Id
        /\ UNCHANGED <<sorted, ends, id, index, stamp, lapsed, time, listing>>
    BY <1>6, <1>a, <1>b DEF Audit!Expire
  <2>2. EventMoves(e, "xadd")
    BY <1>6, <1>b DEF Audit!Expire, EventMoves, Stages, EarlyStages, LateStages
  <2>3. new \in [by : SUBSET Event, dies : Nat]
    BY <1>a, <2>1
  <2>4. log' = [log EXCEPT ![id[e]] = new]
    <3> DEFINE l == log[id[e]]
    <3>1. l \in [by : SUBSET Event, dies : Nat]
      BY <1>a, <2>1
    <3>2. log' = [log EXCEPT ![id[e]] =
            [l EXCEPT !.dies = IF Audit!Log(id[e]) = Audit!NoLog THEN l.dies
                               ELSE time + AuditTtl]]
      BY <1>6 DEF Audit!Expire
    <3>3. /\ \A t : [l EXCEPT !.dies = t] = [by |-> l.by, dies |-> t]
          /\ l = [by |-> l.by, dies |-> l.dies]
      <4> HIDE DEF l
      <4> QED BY <3>1
    <3>4. new = [by |-> l.by, dies |-> IF Audit!Log(id[e]) = Audit!NoLog THEN l.dies
                                       ELSE time + AuditTtl]
      BY <3>3
    <3>5. new = [l EXCEPT !.dies = IF Audit!Log(id[e]) = Audit!NoLog THEN l.dies
                                   ELSE time + AuditTtl]
      BY <3>3, <3>4
    <3> HIDE DEF l, new
    <3> QED BY <3>2, <3>5
  <2>5. ASSUME log[id[e]] = [by |-> {e}, dies |-> Audit!Forever]
        PROVE  new.by = {e} /\ new.dies >= stamp[e] + AuditTtl
    <3>1. Audit!Log(id[e]) = log[id[e]]
      BY <1>a, <2>5 DEF Audit!Log
    <3>2. log[id[e]] # Audit!NoLog
      <4>1. log[id[e]].by = {e} /\ Audit!NoLog.by = {}
        BY <2>5 DEF Audit!NoLog
      <4> QED BY <4>1
    <3> QED BY <1>a, <2>5, <3>1, <3>2
  <2> HIDE DEF new
  <2>6. AuditShape'
    <3>1. log' \in [Audit!Id -> [by : SUBSET Event, dies : Nat]]
      BY <1>0, <2>3, <2>4 DEF AuditShape
    <3>2. todo' = [todo EXCEPT ![e] = "xadd"] /\ UNCHANGED <<rowSeq, redisSeq>>
      BY <2>2 DEF EventMoves
    <3> QED BY <1>0, <2>1, <3>1, <3>2 DEF AuditShape, EarlyStages
  <2>7. todo'[e] = "xadd" /\ log'[id[e]] = new
    BY <1>a, <2>1, <2>2, <2>4 DEF EventMoves
  <2>8. EventInv(e)'
    BY <1>0, <1>b, <1>c, <2>1, <2>5, <2>7 DEF EventInv, EarlyStages, CopiedStages
  <2> QED BY <1>0, <2>1, <2>2, <2>4, <2>6, <2>8, LogKeeps, MoveKeeps
<1> QED BY <1>1, <1>2, <1>3, <1>4, <1>5, <1>6

\* The steps of an event on a sorted set.
LEMMA SetStepsKeep ==
  ASSUME AuditInv, NEW e \in Event,
         Audit!Zadd(e) \/ Audit!Zremrange(e) \/ Audit!Zexpire(e)
  PROVE  AuditInv'
<1> USE AuditConstants
<1> DEFINE k == index[e]
           z == Entry(e)
           there == Audit!Sorted(k)
<1>0. AuditShape /\ NumberInv /\ EventInv(e)
  BY DEF AuditInv
<1>1. /\ todo[e] \in {"zadd", "zremrange", "zexpire"} /\ id[e] # 0
      /\ UNCHANGED <<rowSeq, redisSeq, id, stamp, lapsed, time, listing, log>>
  BY <1>0 DEF Audit!Zadd, Audit!Zremrange, Audit!Zexpire, Audit!Command, NumberInv,
    Audit!clock, Audit!seqs, Audit!event
<1>2. /\ k \in 1..Indexes /\ id[e] \in Audit!Id /\ stamp[e] \in Nat /\ stamp[e] <= time
      /\ time \in Nat /\ time \in 1..(AuditTime + 1)
      /\ DOMAIN todo = Event /\ DOMAIN index = Event /\ Indexes \in Nat
  BY <1>0, <1>1 DEF AuditShape
<1>3. /\ DOMAIN sorted = 1..Indexes /\ DOMAIN ends = 1..Indexes
      /\ \A i \in 1..Indexes : sorted[i] \in SUBSET [id : Audit!Id, score : Nat]
      /\ \A i \in 1..Indexes : ends[i] \in Nat
  BY <1>0 DEF AuditShape
<1>4. /\ there \in SUBSET [id : Audit!Id, score : Nat] /\ there \subseteq sorted[k]
      /\ time < ends[k] => there = sorted[k]
      /\ there # {} => time < ends[k]
  BY <1>2, <1>3 DEF Audit!Sorted
<1>5. /\ z \in [id : Audit!Id, score : Nat] /\ z.id = id[e] /\ z.score = stamp[e]
      /\ z' = z
  BY <1>1, <1>2 DEF Entry
<1>6. \A f \in Event : /\ Entry(f).id = id[f] /\ Entry(f).score = stamp[f]
                       /\ stamp[f] \in Nat
  BY <1>0 DEF Entry, AuditShape
<1>c. Audit!NoLog' = Audit!NoLog /\ Audit!Forever' = Audit!Forever
  BY DEF Audit!NoLog, Audit!Forever
<1> HIDE DEF z, there
<1>7. CASE Audit!Zadd(e)
  <2> DEFINE set == {y \in there : y.id # id[e]} \cup {z}
  <2>1. /\ todo[e] = "zadd" /\ index' = index
        /\ sorted' = [sorted EXCEPT ![k] = set]
        /\ ends' = [ends EXCEPT ![k] = IF there = {} THEN Audit!Forever ELSE ends[k]]
    BY <1>7 DEF Audit!Zadd, Audit!Command, Audit!event, z, there, Entry
  <2>2. EventMoves(e, "zremrange") /\ todo'[e] = "zremrange"
    BY <1>1, <1>2, <1>7
    DEF Audit!Zadd, Audit!Command, Audit!Following, EventMoves, Stages, LateStages
  <2>3. /\ sorted'[k] = set /\ ends'[k] = IF there = {} THEN Audit!Forever ELSE ends[k]
        /\ \A i \in 1..Indexes \ {k} : sorted'[i] = sorted[i] /\ ends'[i] = ends[i]
    BY <1>2, <1>3, <2>1
  <2>4. set \in SUBSET [id : Audit!Id, score : Nat] /\ z \in set /\ time < ends'[k]
    BY <1>2, <1>4, <1>5, <2>3
  <2>5. Respects(e, "zremrange")
    <3>1. ASSUME NEW i \in 1..Indexes, NEW y \in sorted'[i]
          PROVE  y \in sorted[i] \/ (y.id = id[e] /\ "zremrange" \in LateStages)
      BY <1>4, <1>5, <2>3 DEF LateStages
    <3>2. ASSUME NEW f \in Event \ {e}, NEW i \in 1..Indexes, id[f] # id[e],
                 Entry(f) \in sorted[i], time < ends[i]
          PROVE  Entry(f) \in sorted'[i] /\ ends'[i] = ends[i]
      <4>1. CASE i = k
        <5>1. Entry(f) \in there
          BY <1>4, <3>2, <4>1
        <5> QED BY <1>6, <2>3, <3>2, <4>1, <5>1
      <4>2. CASE i # k
        BY <2>3, <3>2, <4>2
      <4> QED BY <4>1, <4>2
    <3> QED BY <1>1, <3>1, <3>2 DEF Respects
  <2> HIDE DEF set
  <2>6. AuditShape'
    <3>1. todo' = [todo EXCEPT ![e] = "zremrange"]
      BY <2>2 DEF EventMoves
    <3>2. sorted' \in [1..Indexes -> SUBSET [id : Audit!Id, score : Nat]]
      BY <1>0, <2>1, <2>4 DEF AuditShape
    <3>3. ends' \in [1..Indexes -> Nat]
      BY <1>0, <1>3, <2>1 DEF AuditShape
    <3> QED BY <1>0, <1>1, <2>1, <3>1, <3>2, <3>3 DEF AuditShape, LateStages
  <2>7. EventInv(e)'
    <3>1. ASSUME NEW i \in 1..Indexes, i < k PROVE sorted'[i] = sorted[i] /\ ends'[i] = ends[i]
      BY <1>2, <2>3, <3>1
    <3> QED BY <1>0, <1>1, <1>2, <1>5, <1>c, <2>1, <2>2, <2>3, <2>4, <3>1
         DEF EventInv, CopiedStages, z
  <2> QED BY <1>1, <2>1, <2>2, <2>5, <2>6, <2>7, MoveKeeps
<1>8. CASE Audit!Zremrange(e)
  <2> DEFINE set == {y \in there : y.score > stamp[e] - AuditTtl}
  <2>1. /\ todo[e] = "zremrange" /\ index' = index /\ ends' = ends
        /\ sorted' = [sorted EXCEPT ![k] = set]
    BY <1>8 DEF Audit!Zremrange, Audit!Command, Audit!event, there
  <2>2. EventMoves(e, "zexpire") /\ todo'[e] = "zexpire"
    BY <1>1, <1>2, <1>8
    DEF Audit!Zremrange, Audit!Command, Audit!Following, EventMoves, Stages, LateStages
  <2>3. /\ sorted'[k] = set
        /\ \A i \in 1..Indexes \ {k} : sorted'[i] = sorted[i]
    BY <1>2, <1>3, <2>1
  <2>4. set \in SUBSET [id : Audit!Id, score : Nat] /\ set \subseteq sorted[k]
    BY <1>4
  <2>5. \A f \in Event : time < stamp[f] + AuditTtl /\ Entry(f) \in there => Entry(f) \in set
    BY <1>2, <1>6
  <2>6. Respects(e, "zexpire")
    <3>1. ASSUME NEW i \in 1..Indexes, NEW y \in sorted'[i] PROVE y \in sorted[i]
      BY <2>3, <2>4
    <3>2. ASSUME NEW f \in Event \ {e}, NEW i \in 1..Indexes, id[f] # id[e],
                 time < stamp[f] + AuditTtl, Entry(f) \in sorted[i], time < ends[i]
          PROVE  Entry(f) \in sorted'[i]
      BY <1>4, <2>3, <2>5, <3>2
    <3> QED BY <1>1, <2>1, <3>1, <3>2 DEF Respects
  <2>7. AuditShape'
    <3>1. todo' = [todo EXCEPT ![e] = "zexpire"]
      BY <2>2 DEF EventMoves
    <3>2. sorted' \in [1..Indexes -> SUBSET [id : Audit!Id, score : Nat]]
      BY <1>0, <2>1, <2>4 DEF AuditShape
    <3> QED BY <1>0, <1>1, <2>1, <3>1, <3>2 DEF AuditShape, LateStages
  <2> HIDE DEF set
  <2>8. EventInv(e)'
    <3>1. ASSUME NEW i \in 1..Indexes, i < k PROVE sorted'[i] = sorted[i]
      BY <1>2, <2>3, <3>1
    <3>2. ASSUME z \in sorted[k], time < ends[k], time < stamp[e] + AuditTtl PROVE z \in sorted'[k]
      BY <1>4, <2>3, <2>5, <3>2 DEF z
    <3> QED BY <1>0, <1>1, <1>2, <1>5, <1>c, <2>1, <2>2, <3>1, <3>2
         DEF EventInv, CopiedStages, z
  <2> QED BY <1>1, <2>1, <2>2, <2>6, <2>7, <2>8, MoveKeeps
<1>9. CASE Audit!Zexpire(e)
  <2> DEFINE s == IF k < Indexes THEN "zadd" ELSE "done"
  <2>1. /\ todo[e] = "zexpire" /\ sorted' = sorted
        /\ ends' = [ends EXCEPT ![k] = IF there = {} THEN ends[k] ELSE time + AuditTtl]
        /\ index' = [index EXCEPT ![e] = IF k < Indexes THEN k + 1 ELSE k]
    BY <1>9 DEF Audit!Zexpire, Audit!Command, there
  <2>2. todo' = [todo EXCEPT ![e] = s]
    BY <1>9 DEF Audit!Zexpire, Audit!Command, Audit!Following
  <2>3. s \in {"zadd", "done"} /\ s \in LateStages
    BY DEF LateStages
  <2> HIDE DEF s
  <2>4. EventMoves(e, s) /\ todo'[e] = s
    BY <1>1, <1>2, <2>2, <2>3 DEF EventMoves, Stages
  <2>5. /\ ends'[k] = IF there = {} THEN ends[k] ELSE time + AuditTtl
        /\ \A i \in 1..Indexes \ {k} : ends'[i] = ends[i]
        /\ index'[e] = IF k < Indexes THEN k + 1 ELSE k
        /\ \A f \in Event \ {e} : index'[f] = index[f]
    BY <1>2, <1>3, <2>1
  <2>6. Respects(e, s)
    <3>1. ASSUME NEW f \in Event \ {e}, NEW i \in 1..Indexes,
                 Entry(f) \in sorted[i], time < ends[i]
          PROVE  /\ time < ends'[i]
                 /\ ends[i] >= stamp[f] + AuditTtl => ends'[i] >= stamp[f] + AuditTtl
      <4>1. CASE i = k
        <5>1. stamp[f] <= time /\ stamp[f] \in Nat
          BY <1>0 DEF AuditShape
        <5> QED BY <1>2, <2>5, <3>1, <4>1, <5>1
      <4>2. CASE i # k
        BY <2>5, <3>1, <4>2
      <4> QED BY <4>1, <4>2
    <3> QED BY <1>1, <2>1, <3>1 DEF Respects
  <2>7. AuditShape'
    <3>1. ends' \in [1..Indexes -> Nat]
      BY <1>0, <1>2, <1>3, <2>1 DEF AuditShape
    <3>2. index' \in [Event -> 1..Indexes]
      BY <1>0, <1>2, <2>1 DEF AuditShape
    <3>3. todo' \in [Event -> EarlyStages \cup LateStages]
      BY <1>0, <2>2, <2>3 DEF AuditShape
    <3> QED BY <1>0, <1>1, <2>1, <3>1, <3>2, <3>3 DEF AuditShape
  <2>8. EventInv(e)'
    <3> SUFFICES ASSUME \A f \in Event \ {e} : id[f] # id[e] PROVE EventInv(e)'
      BY <1>1 DEF EventInv
    <3>1. /\ log[id[e]].by = {e} /\ log[id[e]].dies >= stamp[e] + AuditTtl
          /\ -id[e] \in listing.left => time >= stamp[e] + AuditTtl
      BY <1>0, <1>1, <2>1 DEF EventInv, CopiedStages
    <3>2. ASSUME e \notin lapsed, time < stamp[e] + AuditTtl, NEW i \in 1..Indexes,
                 i < index'[e] \/ s = "done"
          PROVE  z \in sorted[i] /\ ends'[i] >= stamp[e] + AuditTtl
      <4>1. z \in sorted[k] /\ time < ends[k]
        BY <1>0, <1>1, <2>1, <3>2 DEF EventInv, z
      <4>2. z \in there
        BY <1>4, <4>1
      <4>3. ends'[k] >= stamp[e] + AuditTtl
        BY <1>2, <2>5, <4>2
      <4>4. i = k \/ i < k
        BY <1>2, <2>5, <3>2 DEF s
      <4>5. ASSUME i < k PROVE z \in sorted[i] /\ ends[i] >= stamp[e] + AuditTtl /\ i # k
        BY <1>0, <1>1, <1>2, <2>1, <3>2, <4>5 DEF EventInv, z
      <4> QED BY <2>5, <4>1, <4>3, <4>4, <4>5
    <3> QED BY <1>1, <1>5, <1>c, <2>1, <2>3, <2>4, <3>1, <3>2 DEF EventInv, CopiedStages, z
  <2> QED BY <1>1, <2>3, <2>4, <2>5, <2>6, <2>7, <2>8, MoveKeeps
<1> QED BY <1>7, <1>8, <1>9

\* Time only ends what an event relies on when its time is over, or when a
\* sorted set it is about to prolong ends, which is noted.
LEMMA ElapseKeeps == ASSUME AuditInv, Audit!Elapse PROVE AuditInv'
<1> USE AuditConstants
<1>0. AuditShape /\ NumberInv /\ ReferenceInv /\ \A e \in Event : EventInv(e)
  BY DEF AuditInv
<1>1. /\ time < AuditTime /\ time' = time + 1
      /\ lapsed' = lapsed \cup {e \in Event : todo[e] \in {"zremrange", "zexpire"}
                                             /\ ends[index[e]] = time + 1}
      /\ UNCHANGED <<rowSeq, redisSeq, todo, id, index, stamp, listing, rows, log, sorted,
                     ends, stream>>
  BY DEF Audit!Elapse, Audit!seqs, Audit!event, Audit!store
<1>2. time \in Nat /\ time' \in Nat /\ time' \in 1..(AuditTime + 1)
  BY <1>0, <1>1 DEF AuditShape
<1>3. AuditShape'
  BY <1>0, <1>1, <1>2 DEF AuditShape
<1>4. NumberInv' /\ ReferenceInv'
  <2>1. Referenced' = Referenced /\ Audit!NoLog' = Audit!NoLog
    BY <1>1 DEF Referenced, Audit!NoLog, Audit!Forever
  <2> QED BY <1>0, <1>1, <2>1 DEF NumberInv, ReferenceInv
<1>5. ASSUME NEW e \in Event PROVE EventInv(e)'
  <2>1. /\ Audit!NoLog' = Audit!NoLog /\ Audit!Forever' = Audit!Forever
        /\ Entry(e)' = Entry(e)
    BY <1>1 DEF Audit!NoLog, Audit!Forever, Entry
  <2>2. stamp[e] + AuditTtl \in Nat /\ ends[index[e]] \in Nat
    BY <1>0 DEF AuditShape
  <2>3. time' < stamp[e] + AuditTtl => time < stamp[e] + AuditTtl
    BY <1>1, <1>2, <2>2
  <2>4. time >= stamp[e] + AuditTtl => time' >= stamp[e] + AuditTtl
    BY <1>1, <1>2, <2>2
  <2>5. ASSUME e \notin lapsed', todo[e] \in {"zremrange", "zexpire"}, time < ends[index[e]]
        PROVE  time' < ends[index[e]]
    BY <1>1, <1>2, <2>2, <2>5
  <2>6. e \notin lapsed' => e \notin lapsed
    BY <1>1
  <2> QED BY <1>0, <1>1, <2>1, <2>3, <2>4, <2>5, <2>6 DEF EventInv
<1> QED BY <1>3, <1>4, <1>5 DEF AuditInv

\* A listing names what is referenced, and takes an entry away only when its log
\* was gone.
LEMMA ListingKeeps ==
  ASSUME AuditInv,
         UNCHANGED <<time, lapsed, rowSeq, redisSeq, todo, id, index, stamp, rows, log,
                     ends, stream>>,
         listing' \in [of : 0..Indexes, left : SUBSET Int],
         listing'.left # {} => listing'.of \in 1..Indexes,
         \A j \in Audit!Id : j \in listing'.left \/ -j \in listing'.left => j \in Referenced,
         \A e \in Event : -id[e] \in listing'.left =>
           -id[e] \in listing.left \/ Audit!Log(id[e]) = Audit!NoLog,
         sorted' \in [1..Indexes -> SUBSET [id : Audit!Id, score : Nat]],
         \A k \in 1..Indexes : \A z \in sorted'[k] : z \in sorted[k],
         \A e \in Event, k \in 1..Indexes :
           Entry(e) \in sorted[k] /\ time < ends[k] =>
             Entry(e) \in sorted'[k] \/ -id[e] \in listing.left
  PROVE  AuditInv'
<1> USE AuditConstants
<1>0. AuditShape /\ NumberInv /\ ReferenceInv /\ \A e \in Event : EventInv(e)
  BY DEF AuditInv
<1>1. AuditShape'
  BY <1>0 DEF AuditShape
<1>2. Referenced' = Referenced /\ Audit!NoLog' = Audit!NoLog /\ Audit!Forever' = Audit!Forever
  BY DEF Referenced, Audit!NoLog, Audit!Forever
<1>3. NumberInv'
  BY <1>0 DEF NumberInv
<1>4. ReferenceInv'
  BY <1>0, <1>2 DEF ReferenceInv
<1>5. ASSUME NEW e \in Event PROVE EventInv(e)'
  <2> SUFFICES ASSUME id[e] # 0, \A f \in Event \ {e} : id[f] # id[e], todo[e] # "cut"
               PROVE  EventInv(e)'
    BY DEF EventInv
  <2>1. /\ Entry(e)' = Entry(e) /\ id[e] \in Audit!Id /\ stamp[e] + AuditTtl \in Nat
        /\ time \in Nat /\ index[e] \in 1..Indexes /\ \A k \in 1..Indexes : ends[k] \in Nat
    BY <1>0 DEF AuditShape, Entry
  <2>2. ASSUME -id[e] \in listing'.left PROVE time >= stamp[e] + AuditTtl
    <3>1. CASE -id[e] \in listing.left
      BY <1>0, <3>1 DEF EventInv
    <3>2. CASE Audit!Log(id[e]) = Audit!NoLog
      <4>1. id[e] \in Referenced
        BY <2>1, <2>2
      <4>2. PICK f \in Event : id[f] = id[e] /\ todo[f] \in LateStages
        BY <4>1 DEF Referenced
      <4>3. todo[e] \in CopiedStages
        BY <4>2 DEF LateStages, CopiedStages
      <4>4. log[id[e]].by = {e} /\ log[id[e]].dies >= stamp[e] + AuditTtl
        BY <1>0, <4>3 DEF EventInv
      <4>5. Audit!NoLog.by = {} /\ log[id[e]].by # {}
        BY <4>4 DEF Audit!NoLog
      <4>6. log[id[e]] # Audit!NoLog
        BY <4>5
      <4>7. log[id[e]].dies \in Nat
        BY <1>0, <2>1 DEF AuditShape
      <4> QED BY <2>1, <3>2, <4>4, <4>6, <4>7 DEF Audit!Log
    <3> QED BY <2>2, <3>1, <3>2
  <2>3. ASSUME NEW k \in 1..Indexes, Entry(e) \in sorted[k], time < ends[k],
               time < stamp[e] + AuditTtl
        PROVE  Entry(e) \in sorted'[k]
    <3>1. -id[e] \in listing.left => time >= stamp[e] + AuditTtl
      BY <1>0 DEF EventInv
    <3>2. ~(time >= stamp[e] + AuditTtl)
      BY <2>1, <2>3
    <3>3. -id[e] \notin listing.left
      BY <3>1, <3>2
    <3> QED BY <2>3, <3>3
  <2>4. \A k \in 1..Indexes :
          ends[k] >= stamp[e] + AuditTtl /\ time < stamp[e] + AuditTtl => time < ends[k]
    BY <2>1
  <2> QED BY <1>0, <1>2, <2>1, <2>2, <2>3, <2>4 DEF EventInv
<1> QED BY <1>1, <1>3, <1>4, <1>5 DEF AuditInv

\* Every step of events, listings and the clock keeps the invariant.
LEMMA AuditStep == AuditInv /\ [Audit!Next]_(Audit!vars) => AuditInv'
<1> SUFFICES ASSUME AuditInv, [Audit!Next]_(Audit!vars) PROVE AuditInv'
  OBVIOUS
<1> USE AuditConstants
<1>0. AuditShape /\ ReferenceInv
  BY DEF AuditInv
<1>a. /\ listing \in [of : 0..Indexes, left : SUBSET Int]
      /\ listing.left # {} => listing.of \in 1..Indexes
      /\ sorted \in [1..Indexes -> SUBSET [id : Audit!Id, score : Nat]]
      /\ 0 \notin Audit!Id /\ Audit!Id \subseteq Int
  BY <1>0 DEF AuditShape
<1>b. \A k \in 1..Indexes : /\ Audit!Sorted(k) \subseteq sorted[k]
                            /\ time < ends[k] => Audit!Sorted(k) = sorted[k]
  BY DEF Audit!Sorted
<1>c. \A m \in Nat : ~(-m > 0)
  OBVIOUS
<1> USE DEF Audit!clock, Audit!seqs, Audit!event, Audit!store
<1>1. CASE Audit!Elapse
  BY <1>1, ElapseKeeps
<1>2. ASSUME NEW e \in Event, Audit!Flush(e) PROVE AuditInv'
  BY <1>2, FlushKeeps
<1>3. ASSUME NEW e \in Event, Audit!Number(e) PROVE AuditInv'
  BY <1>3, NumberKeeps
<1>4. ASSUME NEW e \in Event,
             \/ Audit!InsertFail(e) \/ Audit!Commit(e) \/ Audit!Hset(e) \/ Audit!Expire(e)
             \/ Audit!Xadd(e) \/ Audit!Cut(e)
      PROVE  AuditInv'
  BY <1>4, LogStepsKeep
<1>5. ASSUME NEW e \in Event, Audit!Zadd(e) \/ Audit!Zremrange(e) \/ Audit!Zexpire(e)
      PROVE  AuditInv'
  BY <1>5, SetStepsKeep
<1>6. ASSUME NEW k \in 1..Indexes, Audit!List(k) PROVE AuditInv'
  <2>1. PICK part \in SUBSET Audit!Sorted(k) :
          listing' = [of |-> k, left |-> {z.id : z \in part}]
    BY <1>6 DEF Audit!List
  <2>2. /\ listing'.of = k /\ listing'.left = {z.id : z \in part}
        /\ \A z \in part : z.id \in Referenced /\ z.id \in Audit!Id
    BY <1>0, <1>a, <1>b, <2>1 DEF ReferenceInv
  <2>3. \A j \in Audit!Id : -j \notin listing'.left
    BY <2>2
  <2>4. ASSUME NEW e \in Event PROVE -id[e] \notin listing'.left
    <3>1. id[e] \in Nat
      BY <1>0 DEF AuditShape
    <3>2. \A j \in Audit!Id : j > 0
      OBVIOUS
    <3>3. \A j \in listing'.left : j > 0
      BY <2>2, <3>2
    <3> QED BY <1>c, <3>1, <3>3
  <2>5. /\ listing' \in [of : 0..Indexes, left : SUBSET Int]
        /\ \A j \in Audit!Id : j \in listing'.left => j \in Referenced
    BY <1>a, <2>1, <2>2
  <2>6. UNCHANGED <<time, lapsed, rowSeq, redisSeq, todo, id, index, stamp, rows, log,
                    ends, stream, sorted>>
    BY <1>6 DEF Audit!List
  <2> QED BY <1>a, <2>2, <2>3, <2>4, <2>5, <2>6, ListingKeeps
<1>7. ASSUME NEW i, Audit!Done(i)
      PROVE  /\ listing' \in [of : 0..Indexes, left : SUBSET Int]
             /\ listing'.left # {} => listing'.of \in 1..Indexes
             /\ listing'.left \subseteq listing.left
  <2> DEFINE left == listing.left \ {i}
  <2>1. listing' = IF left = {} THEN Audit!NoListing ELSE [listing EXCEPT !.left = left]
    BY <1>7 DEF Audit!Done
  <2>2. Audit!NoListing \in [of : 0..Indexes, left : SUBSET Int] /\ Audit!NoListing.left = {}
    BY DEF Audit!NoListing
  <2>3. /\ [listing EXCEPT !.left = left] \in [of : 0..Indexes, left : SUBSET Int]
        /\ [listing EXCEPT !.left = left].left = left
        /\ [listing EXCEPT !.left = left].of = listing.of
    BY <1>a
  <2> QED BY <1>a, <2>1, <2>2, <2>3
<1>8. ASSUME NEW i \in Audit!Id, Audit!Hgetall(i) PROVE AuditInv'
  <2>1. UNCHANGED <<time, lapsed, rowSeq, redisSeq, todo, id, index, stamp, rows, log,
                    ends, stream, sorted>>
    BY <1>8 DEF Audit!Hgetall
  <2>2. Audit!Done(i)
    BY <1>8 DEF Audit!Hgetall
  <2> QED BY <1>0, <1>a, <1>7, <2>1, <2>2, ListingKeeps DEF ReferenceInv
<1>9. ASSUME NEW i \in Audit!Id, Audit!Missing(i) PROVE AuditInv'
  <2>1. /\ UNCHANGED <<time, lapsed, rowSeq, redisSeq, todo, id, index, stamp, rows, log,
                       ends, stream, sorted>>
        /\ i \in listing.left /\ Audit!Log(i) = Audit!NoLog
        /\ listing' = [listing EXCEPT !.left = (listing.left \ {i}) \cup {-i}]
    BY <1>9 DEF Audit!Missing
  <2>2. /\ listing' \in [of : 0..Indexes, left : SUBSET Int]
        /\ listing'.left = (listing.left \ {i}) \cup {-i} /\ listing'.of = listing.of
    BY <1>a, <2>1
  <2>3. \A j \in Audit!Id : j \in listing'.left \/ -j \in listing'.left => j \in Referenced
    <3>1. \A j \in Audit!Id : -j = -i => j = i
      BY <1>a
    <3>2. \A j \in Audit!Id : j # -i
      OBVIOUS
    <3> QED BY <1>0, <2>1, <2>2, <3>1, <3>2 DEF ReferenceInv
  <2>4. \A e \in Event : -id[e] \in listing'.left =>
          -id[e] \in listing.left \/ Audit!Log(id[e]) = Audit!NoLog
    <3>1. \A m \in Int : -m = -i => m = i
      BY <1>a
    <3>2. \A e \in Event : id[e] \in Int
      BY <1>0, <1>a DEF AuditShape
    <3> QED BY <2>1, <2>2, <3>1, <3>2
  <2> QED BY <1>a, <2>1, <2>2, <2>3, <2>4, ListingKeeps
<1>10. ASSUME NEW i \in Audit!Id, Audit!Zrem(i) PROVE AuditInv'
  <2> DEFINE k == listing.of
  <2>1. /\ UNCHANGED <<time, lapsed, rowSeq, redisSeq, todo, id, index, stamp, rows, log,
                       ends, stream>>
        /\ -i \in listing.left /\ Audit!Done(-i)
        /\ sorted' = [sorted EXCEPT ![k] = {z \in Audit!Sorted(k) : z.id # i}]
    BY <1>10 DEF Audit!Zrem
  <2>2. k \in 1..Indexes
    BY <1>a, <2>1
  <2>3. /\ sorted'[k] = {z \in Audit!Sorted(k) : z.id # i}
        /\ \A m \in 1..Indexes \ {k} : sorted'[m] = sorted[m]
    BY <1>a, <2>1, <2>2
  <2>4. /\ sorted' \in [1..Indexes -> SUBSET [id : Audit!Id, score : Nat]]
        /\ \A m \in 1..Indexes : \A z \in sorted'[m] : z \in sorted[m]
    BY <1>a, <1>b, <2>1, <2>2, <2>3
  <2>5. ASSUME NEW e \in Event, NEW m \in 1..Indexes, Entry(e) \in sorted[m], time < ends[m]
        PROVE  Entry(e) \in sorted'[m] \/ -id[e] \in listing.left
    <3>1. Entry(e).id = id[e]
      BY DEF Entry
    <3> QED BY <1>b, <2>1, <2>2, <2>3, <2>5, <3>1
  <2>6. /\ \A j \in Audit!Id : j \in listing'.left \/ -j \in listing'.left => j \in Referenced
        /\ \A e \in Event : -id[e] \in listing'.left => -id[e] \in listing.left
    BY <1>0, <1>7, <2>1 DEF ReferenceInv
  <2> QED BY <1>7, <2>1, <2>4, <2>5, <2>6, ListingKeeps
<1>11. CASE UNCHANGED Audit!vars
  <2>1. UNCHANGED <<time, lapsed, rowSeq, redisSeq, todo, id, index, stamp, rows, log,
                    ends, stream, sorted, listing>>
    BY <1>11 DEF Audit!vars
  <2> QED BY <1>0, <1>a, <2>1, ListingKeeps DEF ReferenceInv
<1> QED
  BY <1>1, <1>2, <1>3, <1>4, <1>5, <1>6, <1>8, <1>9, <1>10, <1>11 DEF Audit!Next

\* A recorded event is found by every index until its time is over, but for an
\* id given twice and a set that ended between ZADD and EXPIRE
\* (audit/middleware.py:253-281, redis_store.py:190-222).
THEOREM AuditAlwaysKept == ServicesSpec => []AuditKept
<1> DEFINE Inv == subject = "audit" => AuditInv
<1>1. ServicesInit => Inv
  BY AuditStarts DEF ServicesInit
<1>2. Inv /\ [ServicesNext]_servicesVars => Inv'
  BY SubjectStep, AuditStep
<1>3. Inv => AuditKept
  BY AuditHonest DEF AuditKept
<1> QED BY <1>1, <1>2, <1>3, PTL DEF ServicesSpec

-----------------------------------------------------------------------------
(* The detector.                                                           *)

\* An average over any off, from `first` on.
Averages(n, first, values, off, acc) ==
  acc = [i \in 0..n |-> IF i = 0 THEN first
                        ELSE IF off[i] THEN acc[i - 1]
                        ELSE (Verdict!Clipped(values[i]) * Unit + acc[i - 1]) \div 2]

\* The recursive definition has a value: a least n without one extends the
\* function of n - 1.
LEMMA AveragesExist ==
  ASSUME NEW n \in Nat, NEW first, NEW values, NEW off
  PROVE  \E acc : Averages(n, first, values, off, acc)
<1> DEFINE Bad == {k \in Nat : ~ \E acc : Averages(k, first, values, off, acc)}
<1>1. SUFFICES ASSUME Bad # {} PROVE FALSE
  OBVIOUS
<1>2. PICK k \in Bad : \A m \in Bad : k <= m
  <2> HIDE DEF Bad
  <2>1. Bad \subseteq Nat
    BY DEF Bad
  <2> QED BY <1>1, <2>1, LeastNatural
<1>3. k # 0
  <2>1. Averages(0, first, values, off, [i \in 0..0 |-> first])
    BY DEF Averages
  <2> QED BY <2>1
<1>4. k \in Nat /\ k - 1 \in Nat /\ k - 1 \notin Bad
  BY <1>2, <1>3
<1>5. PICK acc : Averages(k - 1, first, values, off, acc)
  BY <1>4
<1> DEFINE more == [i \in 0..k |-> IF i < k THEN acc[i]
                                   ELSE IF off[k] THEN acc[k - 1]
                                   ELSE (Verdict!Clipped(values[k]) * Unit + acc[k - 1]) \div 2]
<1>6. \A i \in 0..(k - 1) : more[i] = acc[i]
  BY <1>4
<1>7. \A i \in 0..k : more[i] = IF i = 0 THEN first
                                ELSE IF off[i] THEN more[i - 1]
                                ELSE (Verdict!Clipped(values[i]) * Unit + more[i - 1]) \div 2
  <2> TAKE i \in 0..k
  <2>1. CASE i < k
    <3>1. i \in 0..(k - 1) /\ (i # 0 => i - 1 \in 0..(k - 1))
      BY <1>4, <2>1
    <3>2. acc[i] = IF i = 0 THEN first
                   ELSE IF off[i] THEN acc[i - 1]
                   ELSE (Verdict!Clipped(values[i]) * Unit + acc[i - 1]) \div 2
      BY <3>1, <1>5 DEF Averages
    <3> HIDE DEF more
    <3> QED BY <1>6, <3>1, <3>2
  <2>2. CASE i = k
    <3>1. more[k] = IF off[k] THEN acc[k - 1] ELSE (Verdict!Clipped(values[k]) * Unit + acc[k - 1]) \div 2
      BY <1>4
    <3>2. more[k - 1] = acc[k - 1]
      BY <1>4, <1>6
    <3> HIDE DEF more
    <3> QED BY <1>3, <2>2, <3>1, <3>2
  <2> QED BY <1>4, <2>1, <2>2
<1>8. Averages(k, first, values, off, more)
  <2>1. more = [i \in 0..k |-> more[i]]
    OBVIOUS
  <2> HIDE DEF more
  <2> QED BY <1>7, <2>1 DEF Averages
<1> QED BY <1>2, <1>8

\* No average is above what all values outside the off are at most.
LEMMA AveragesBounded ==
  ASSUME NEW n \in Nat, NEW first \in Nat, NEW values, NEW off, NEW acc,
         NEW bound \in Nat, Averages(n, first, values, off, acc), first <= bound,
         \A i \in 1..n : Verdict!Clipped(values[i]) * Unit \in Nat,
         \A i \in 1..n : off[i] \/ Verdict!Clipped(values[i]) * Unit <= bound
  PROVE  \A i \in 0..n : acc[i] \in Nat /\ acc[i] <= bound
<1> DEFINE Bad == {i \in 0..n : ~(acc[i] \in Nat /\ acc[i] <= bound)}
<1>1. SUFFICES ASSUME Bad # {} PROVE FALSE
  OBVIOUS
<1>2. PICK k \in Bad : \A m \in Bad : k <= m
  <2> HIDE DEF Bad
  <2>1. Bad \subseteq Nat
    BY DEF Bad
  <2> QED BY <1>1, <2>1, LeastNatural
<1>3. acc[k] = IF k = 0 THEN first
               ELSE IF off[k] THEN acc[k - 1]
               ELSE (Verdict!Clipped(values[k]) * Unit + acc[k - 1]) \div 2
  BY DEF Averages
<1>4. k # 0
  BY <1>3
<1>5. k \in 1..n /\ k - 1 \in 0..n /\ k - 1 \notin Bad
  BY <1>2, <1>4
<1>6. acc[k - 1] \in Nat /\ acc[k - 1] <= bound
  BY <1>5
<1>7. CASE off[k]
  BY <1>3, <1>4, <1>6, <1>7
<1>8. CASE ~off[k]
  <2> DEFINE value == Verdict!Clipped(values[k]) * Unit
             sum == value + acc[k - 1]
  <2>1. value \in Nat /\ value <= bound
    BY <1>5, <1>8
  <2> HIDE DEF value
  <2>2. sum \in Nat /\ sum <= 2 * bound
    BY <1>6, <2>1
  <2>3. acc[k] = sum \div 2
    BY <1>3, <1>4, <1>8 DEF value
  <2> HIDE DEF sum
  <2>4. sum \div 2 \in Nat /\ sum \div 2 <= bound
    BY <2>2
  <2> QED BY <2>3, <2>4
<1> QED BY <1>7, <1>8

\* The types, and the property.
DetectorInv ==
  /\ ticks \in Nat
  /\ raw \in [1..Verdict!Windows(ticks) -> 0..RawScore]
  /\ second \in [1..Verdict!Windows(ticks) -> 0..RawScore] \cup {<<>>}
  /\ Verdict!TransitionQuiet

\* A sequence by its length.
LEMMA OfLength ==
  ASSUME NEW n \in Nat, NEW S, NEW s \in [1..n -> S]
  PROVE  s \in Seq(S) /\ Len(s) = n /\ DOMAIN s = 1..n /\ (s = <<>> <=> n = 0)
  OBVIOUS

\* Products of naturals grow with a factor.
LEMMA ProductGrows ==
  ASSUME NEW a \in Nat, NEW b \in Nat, NEW c \in Nat, a <= b
  PROVE  a * c <= b * c
<1>1. (b - a) * c >= 0
  OBVIOUS
<1> QED BY <1>1

\* A quotient, by the product that is next below.
LEMMA Quotient ==
  ASSUME NEW a \in Nat, NEW b \in Nat \ {0}
  PROVE  /\ a \div b \in Nat
         /\ (a \div b) * b <= a /\ a < (a \div b) * b + b
  OBVIOUS

\* The windows of a series are whole, and what is left is less than a stride.
LEMMA WindowsCover ==
  ASSUME NEW t \in Nat
  PROVE  /\ Verdict!Windows(t) \in Nat
         /\ Verdict!Windows(t) = 0 <=> t < Window
         /\ t >= Window => /\ Verdict!StartOf(Verdict!Windows(t)) + Window <= t
                          /\ t < Verdict!StartOf(Verdict!Windows(t)) + Window + Stride
<1>0. Window \in Nat \ {0} /\ Stride \in Nat \ {0}
  BY ServicesAssumption DEF Verdict!DetectorAssumption
<1>1. CASE t < Window
  BY <1>0, <1>1 DEF Verdict!Windows
<1>2. CASE t >= Window
  <2> DEFINE rest == t - Window
             whole == rest \div Stride
  <2>1. rest \in Nat
    BY <1>0, <1>2
  <2> HIDE DEF rest
  <2>2. whole \in Nat /\ whole * Stride <= rest /\ rest < whole * Stride + Stride
    BY <1>0, <2>1, Quotient
  <2>3. Verdict!Windows(t) = whole + 1
    BY <1>0, <1>2 DEF Verdict!Windows, rest
  <2> HIDE DEF whole
  <2>4. Verdict!StartOf(whole + 1) = whole * Stride
    BY <2>2 DEF Verdict!StartOf
  <2> QED BY <1>0, <1>2, <2>2, <2>3, <2>4 DEF rest
<1> QED BY <1>0, <1>1, <1>2

\* A path fires on windows outside the mask that are over the limit.
LEMMA FiresOnOpen ==
  ASSUME NEW n \in Nat, raw \in [1..n -> 0..RawScore], NEW path \in [1..n -> 0..RawScore],
         Verdict!FiresOn(path)
  PROVE  /\ \E i \in 1..n : ~Verdict!Masked[i] /\ Verdict!Clipped(path[i]) > EwmaLimit
         /\ n >= 1 /\ n >= ConfirmWindows /\ ~Verdict!Masked[n]
<1>0. {RawScore, Clip, EwmaLimit, ConfirmWindows} \subseteq Nat /\ Unit \in Nat \ {0}
  BY ServicesAssumption DEF Verdict!DetectorAssumption
<1>1. Len(path) = n
  BY OfLength
<1>2. n >= 1 /\ n >= ConfirmWindows /\ ~Verdict!Masked[n]
  BY <1>0, <1>1 DEF Verdict!FiresOn, Verdict!Sustained
<1>3. Verdict!Average(path)[n] > EwmaLimit * Unit
  BY <1>0, <1>1, <1>2 DEF Verdict!FiresOn, Verdict!Sustained
<1>4. SUFFICES ASSUME \A i \in 1..n : Verdict!Masked[i] \/ Verdict!Clipped(path[i]) <= EwmaLimit
               PROVE  FALSE
  <2>1. \A i \in 1..n : Verdict!Clipped(path[i]) \in Nat
    BY <1>0 DEF Verdict!Clipped
  <2> QED BY <1>0, <1>2, <2>1
<1> DEFINE open == {i \in DOMAIN path : ~Verdict!Masked[i]}
           low == CHOOSE i \in open : \A j \in open : i <= j
           first == IF open = {} THEN 0 ELSE Verdict!Clipped(path[low]) * Unit
           bound == EwmaLimit * Unit
<1>5. DOMAIN path = 1..n /\ \A i \in 1..n : Verdict!Clipped(path[i]) \in Nat
  BY <1>0 DEF Verdict!Clipped
<1>6. bound \in Nat
  BY <1>0
<1>7. \A i \in 1..n :
        /\ Verdict!Clipped(path[i]) * Unit \in Nat
        /\ Verdict!Masked[i] \/ Verdict!Clipped(path[i]) * Unit <= bound
  <2> TAKE i \in 1..n
  <2> DEFINE v == Verdict!Clipped(path[i])
  <2>1. v \in Nat /\ (Verdict!Masked[i] \/ v <= EwmaLimit)
    BY <1>4, <1>5
  <2> HIDE DEF v
  <2>2. v <= EwmaLimit => v * Unit <= EwmaLimit * Unit
    BY <1>0, <2>1, ProductGrows
  <2>3. v * Unit \in Nat
    BY <1>0, <2>1
  <2> QED BY <2>1, <2>2, <2>3 DEF v
<1>8. first \in Nat /\ first <= bound
  <2>1. CASE open = {}
    BY <1>6, <2>1
  <2>2. CASE open # {}
    <3>1. \E i \in open : \A j \in open : i <= j
      <4> HIDE DEF open
      <4>1. open \subseteq Nat
        BY DEF open
      <4> QED BY <2>2, <4>1, LeastNatural
    <3>2. low \in open
      <4> HIDE DEF open
      <4> QED BY <3>1
    <3>3. low \in 1..n /\ ~Verdict!Masked[low]
      BY <1>5, <3>2
    <3> HIDE DEF low
    <3> QED BY <1>6, <1>7, <2>2, <3>3
  <2> QED BY <2>1, <2>2
<1>9. Verdict!Average(path) = CHOOSE acc : Averages(Len(path), first, path, Verdict!Masked, acc)
  BY DEF Verdict!Average, Averages
<1> HIDE DEF first, bound
<1>10. \E acc : Averages(Len(path), first, path, Verdict!Masked, acc)
  BY <1>1, AveragesExist
<1> DEFINE average == Verdict!Average(path)
<1>11. Averages(n, first, path, Verdict!Masked, average)
  BY <1>1, <1>9, <1>10
<1> HIDE DEF average
<1>12. average[n] \in Nat /\ average[n] <= bound
  <2>1. \A i \in 0..n : average[i] \in Nat /\ average[i] <= bound
    BY <1>6, <1>7, <1>8, <1>11, AveragesBounded
  <2> QED BY <2>1
<1> QED BY <1>3, <1>6, <1>12 DEF bound, average

\* No window is judged yet.
LEMMA DetectorStarts == Verdict!Init => DetectorInv
<1> SUFFICES ASSUME Verdict!Init PROVE DetectorInv
  OBVIOUS
<1>0. {RawScore, MaxWindows} \subseteq Nat /\ Window \in Nat \ {0} /\ Stride \in Nat \ {0}
  BY ServicesAssumption DEF Verdict!DetectorAssumption
<1>1. ticks \in Nat
  BY <1>0 DEF Verdict!Init
<1> QED BY <1>1 DEF Verdict!Init, DetectorInv, Verdict!TransitionQuiet, Verdict!Scores

\* The verdict on a series.
LEMMA DetectorStep == DetectorInv /\ [Verdict!Next]_(Verdict!vars) => DetectorInv'
<1> SUFFICES ASSUME DetectorInv, [Verdict!Next]_(Verdict!vars) PROVE DetectorInv'
  OBVIOUS
<1>1. CASE UNCHANGED Verdict!vars
  BY <1>1 DEF Verdict!vars, DetectorInv, Verdict!TransitionQuiet, Verdict!Masked
<1>2. CASE Verdict!Score
  <2> DEFINE n == Verdict!Windows(ticks)
             open == {i \in DOMAIN raw : ~Verdict!Masked[i]}
             clipped == {Verdict!Clipped(raw[i]) : i \in open}
                       \cup {Verdict!Clipped(second[i]) : i \in open \cap DOMAIN second}
  <2>1. /\ n \in Nat /\ (n = 0 <=> ticks < Window) /\ Window \in Nat \ {0} /\ ticks \in Nat
        /\ n # 0 => Verdict!StartOf(n) + Window <= ticks
        /\ n # 0 => ticks < Verdict!StartOf(n) + Window + Stride
    <3>1. Window \in Nat \ {0}
      BY ServicesAssumption DEF Verdict!DetectorAssumption
    <3>2. ticks \in Nat
      BY DEF DetectorInv
    <3> QED BY <3>1, <3>2, WindowsCover
  <2>2. /\ UNCHANGED <<ticks, raw, second>>
        /\ fired' = IF raw = <<>> THEN "skipped"
                    ELSE IF Verdict!FiresOn(raw) \/ Verdict!FiresOn(second) THEN "fired"
                    ELSE "quiet"
    BY <1>2 DEF Verdict!Score
  <2>3. /\ raw \in [1..n -> 0..RawScore] /\ second \in [1..n -> 0..RawScore] \cup {<<>>}
        /\ DOMAIN raw = 1..n /\ Len(raw) = n /\ (raw = <<>> <=> n = 0)
    <3>1. raw \in [1..n -> 0..RawScore] /\ second \in [1..n -> 0..RawScore] \cup {<<>>}
      BY DEF DetectorInv
    <3> HIDE DEF n
    <3> QED BY <2>1, <3>1, OfLength
  <2> HIDE DEF n
  <2>4. ASSUME Verdict!FiresOn(raw) \/ Verdict!FiresOn(second)
        PROVE  (\E v \in clipped : v > EwmaLimit) /\ ~Verdict!Masked[n] /\ n >= ConfirmWindows
    <3>1. CASE Verdict!FiresOn(raw)
      BY <2>1, <2>3, <3>1, FiresOnOpen
    <3>2. CASE Verdict!FiresOn(second)
      <4>1. second # <<>>
        BY <3>2 DEF Verdict!FiresOn
      <4>2. second \in [1..n -> 0..RawScore]
        BY <2>3, <4>1
      <4> QED BY <2>1, <2>3, <3>2, <4>2, FiresOnOpen
    <3> QED BY <2>4, <3>1, <3>2
  <2>5. fired' = "fired" => /\ \E v \in clipped : v > EwmaLimit
                            /\ ~Verdict!Masked[Len(raw)]
                            /\ Len(raw) >= ConfirmWindows
    BY <2>2, <2>3, <2>4
  <2>6. fired' = "skipped" <=> ticks < Window
    BY <2>1, <2>2, <2>3
  <2>7. raw # <<>> => /\ Verdict!StartOf(Len(raw)) + Window <= ticks
                      /\ ticks < Verdict!StartOf(Len(raw)) + Window + Stride
    BY <2>1, <2>3
  <2>8. Verdict!TransitionQuiet'
    BY <2>2, <2>5, <2>6, <2>7 DEF Verdict!TransitionQuiet, Verdict!Masked
  <2> QED BY <2>2, <2>8 DEF DetectorInv
<1> QED BY <1>1, <1>2 DEF Verdict!Next

\* A transition never fires the detector by itself, whatever the values of the
\* transition, the settings and the number of windows (score_latest,
\* scoring.py:56-94), and a verdict is about the newest windows
\* (windowing.py:11-31).
THEOREM TransitionAlwaysQuiet == ServicesSpec => []TransitionQuiet
<1> DEFINE I == subject = "detector" => DetectorInv
<1>1. ServicesInit => I
  BY DetectorStarts DEF ServicesInit
<1>2. I /\ [ServicesNext]_servicesVars => I'
  BY SubjectStep, DetectorStep
<1>3. I => TransitionQuiet
  BY DEF DetectorInv, TransitionQuiet
<1> QED BY <1>1, <1>2, <1>3, PTL DEF ServicesSpec

-----------------------------------------------------------------------------
(* Alarm intervals.                                                        *)

\* The code of every variable at every tick.
Coded == [m \in Metric |-> [i \in Nat |-> Intervals!CodeAt(m, i)]]

\* A row is a run of equal codes.
IntervalRow == [metric : Metric, code : Intervals!Codes, raised : 1..Ticks,
                cleared : 1..Intervals!Open]

\* A row whose code lasts from raised to cleared and no longer.
IsRun(codes, r) ==
  /\ r.raised < r.cleared
  /\ \A i \in r.raised..(r.cleared - 1) : codes[r.metric][i] = r.code
  /\ codes[r.metric][r.raised - 1] # r.code
  /\ codes[r.metric][r.cleared] # r.code

\* The runs that have ended.
RunsUpTo(codes, n) == {r \in IntervalRow : IsRun(codes, r) /\ r.cleared <= n}

\* What is open after n ticks is the run that has not ended.
IsCurrent(codes, m, n, alarm) ==
  IF codes[m][n] = "none" THEN alarm = Intervals!Closed
  ELSE /\ alarm.code = codes[m][n] /\ alarm.raised \in 1..n
       /\ \A i \in (alarm.raised)..n : codes[m][i] = alarm.code
       /\ codes[m][alarm.raised - 1] # alarm.code

\* The replay remembers the tick before.
SeriesEntry == [cands : [Metric -> {"none", "single"}], composite : BOOLEAN]

SeriesInv ==
  /\ tick \in 0..Intervals!Open
  /\ series \in Seq(SeriesEntry) /\ Len(series) = IF tick = Intervals!Open THEN Ticks ELSE tick
  /\ prev = IF series = <<>> THEN [m \in Metric |-> "none"] ELSE series[Len(series)].cands
  /\ prevComposite = IF series = <<>> THEN FALSE ELSE series[Len(series)].composite

\* The totals count the runs that began.
TotalsInv ==
  totals # Intervals!NoTotals =>
    LET starts == {b \in Metric \X ((totals.since)..Ticks) : Intervals!Begins(b[1], b[2])}
    IN /\ Intervals!Total(totals.code) = Intervals!Cardinality(starts)
       /\ Intervals!Total(totals.metric) = Intervals!Cardinality(starts)

\* The detector's own events met no alarm of these days.
ReportInv ==
  report.detectorOnly > 0 =>
    \A e \in shadow, r \in alarms : Intervals!Overlaps(e, r) => r.raised < Ticks - Days

\* After every tick the rows are the runs that have ended.
IntervalsInv ==
  /\ SeriesInv
  /\ tick # Intervals!Open =>
       /\ report = Intervals!None /\ totals = Intervals!NoTotals
       /\ \A m \in Metric : IsCurrent(Coded, m, tick, active[m])
  /\ alarms = RunsUpTo(Coded, tick)
  /\ TotalsInv
  /\ ReportInv

\* The library's cardinality is the one of the theorems about finite sets.
LEMMA IntervalsCardinality == ASSUME NEW S PROVE Intervals!Cardinality(S) = Cardinality(S)
BY DEF Intervals!Cardinality, Cardinality

\* What is assumed of the constants.
LEMMA IntervalConstants ==
  /\ IsFiniteSet(Metric) /\ Suppressed \subseteq Metric /\ Bearer \in Suppressed
  /\ Ticks \in Nat /\ Days \in Nat /\ Intervals!Open = Ticks + 1
  /\ Intervals!Codes = {"single", "composite"}
<1>1. IsFiniteSet(Metric)
  BY ServicesAssumption DEF Intervals!IntervalAssumption, Intervals!IsFiniteSet, IsFiniteSet
<1> QED BY <1>1, ServicesAssumption DEF Intervals!IntervalAssumption, Intervals!Open,
      Intervals!Codes

\* Runs that end by n depend on nothing later.
LEMMA RunsAgree ==
  ASSUME NEW n \in Nat, NEW c, NEW d,
         \A m \in Metric, i \in 0..n : c[m][i] = d[m][i]
  PROVE  RunsUpTo(c, n) = RunsUpTo(d, n)
<1>1. ASSUME NEW r \in IntervalRow, r.cleared <= n
      PROVE  IsRun(c, r) <=> IsRun(d, r)
  <2>1. r.metric \in Metric /\ r.raised \in Nat \ {0} /\ r.cleared \in Nat \ {0}
    BY IntervalConstants DEF IntervalRow
  <2> QED BY <1>1, <2>1 DEF IsRun
<1> QED BY <1>1 DEF RunsUpTo

\* The runs that end one tick later are those that were open and now change.
LEMMA RunsGrow ==
  ASSUME NEW n \in 0..Ticks, NEW c, NEW act,
         \A m \in Metric, i \in Nat : c[m][i] \in Intervals!Codes \cup {"none"},
         \A m \in Metric : IsCurrent(c, m, n, act[m]),
         NEW ended, ended = {k \in Metric : act[k].code # "none" /\ c[k][n + 1] # act[k].code}
  PROVE  RunsUpTo(c, n + 1) =
           RunsUpTo(c, n) \cup {Intervals!Row(m, act[m], n + 1) : m \in ended}
<1>0. n \in Nat /\ Ticks \in Nat /\ Intervals!Open = Ticks + 1
      /\ Intervals!Codes = {"single", "composite"}
  BY IntervalConstants
<1>1. ASSUME NEW r \in RunsUpTo(c, n + 1), r \notin RunsUpTo(c, n)
      PROVE  r.metric \in ended /\ r = Intervals!Row(r.metric, act[r.metric], n + 1)
  <2> DEFINE m == r.metric
  <2>1. /\ r \in IntervalRow /\ IsRun(c, r) /\ r.cleared = n + 1
        /\ m \in Metric /\ r.code \in Intervals!Codes /\ r.raised \in Nat \ {0}
    BY <1>0, <1>1 DEF RunsUpTo, IntervalRow
  <2>2. /\ r.raised <= n /\ c[m][n] = r.code /\ c[m][n + 1] # r.code
        /\ \A i \in (r.raised)..n : c[m][i] = r.code
        /\ c[m][r.raised - 1] # r.code
    BY <1>0, <2>1 DEF IsRun
  <2>3. /\ act[m].code = r.code /\ act[m].raised \in 1..n
        /\ \A i \in (act[m].raised)..n : c[m][i] = r.code
        /\ c[m][act[m].raised - 1] # r.code
    BY <1>0, <2>1, <2>2 DEF IsCurrent
  <2>4. act[m].raised = r.raised
    BY <1>0, <2>1, <2>2, <2>3
  <2>5. r = [metric |-> m, code |-> r.code, raised |-> r.raised, cleared |-> n + 1]
    BY <2>1 DEF IntervalRow
  <2>6. m \in ended
    BY <1>0, <2>1, <2>2, <2>3
  <2> QED BY <2>3, <2>4, <2>5, <2>6 DEF Intervals!Row
<1>2. ASSUME NEW m \in ended
      PROVE  Intervals!Row(m, act[m], n + 1) \in RunsUpTo(c, n + 1)
  <2> DEFINE r == Intervals!Row(m, act[m], n + 1)
  <2>1. c[m][n] # "none"
    BY <1>2 DEF IsCurrent, Intervals!Closed
  <2>2. /\ act[m].code = c[m][n] /\ act[m].raised \in 1..n
        /\ \A i \in (act[m].raised)..n : c[m][i] = act[m].code
        /\ c[m][act[m].raised - 1] # act[m].code /\ c[m][n + 1] # act[m].code
        /\ act[m].code \in Intervals!Codes
    BY <1>0, <1>2, <2>1 DEF IsCurrent
  <2>3. /\ r.metric = m /\ r.code = act[m].code /\ r.raised = act[m].raised
        /\ r.cleared = n + 1
    BY DEF Intervals!Row
  <2>4. r \in IntervalRow
    BY <1>0, <2>2 DEF Intervals!Row, IntervalRow
  <2> HIDE DEF r
  <2>5. IsRun(c, r)
    BY <1>0, <2>2, <2>3 DEF IsRun
  <2>6. r \in RunsUpTo(c, n + 1)
    BY <1>0, <2>3, <2>4, <2>5 DEF RunsUpTo
  <2> QED BY <2>6 DEF r
<1>3. RunsUpTo(c, n) \subseteq RunsUpTo(c, n + 1)
  BY <1>0, IntervalConstants DEF RunsUpTo, IntervalRow
<1> QED BY <1>1, <1>2, <1>3

\* Codes by number of ticks.
LEMMA CodedForm ==
  ASSUME NEW m \in Metric, NEW i \in Nat
  PROVE  Coded[m][i] =
           IF i \notin DOMAIN series THEN "none"
           ELSE IF Intervals!Composite(i) /\ m = Bearer THEN "composite"
           ELSE IF Intervals!Composite(i) /\ m \in Suppressed THEN "none"
           ELSE IF Intervals!Single(m, i) THEN "single" ELSE "none"
BY DEF Coded, Intervals!CodeAt

\* A code is single, composite or none.
LEMMA CodedTypes ==
  \A m \in Metric, i \in Nat : Coded[m][i] \in Intervals!Codes \cup {"none"}
BY CodedForm, IntervalConstants

\* One more tick leaves the codes before it, and adds the codes that the replay
\* has for it.
LEMMA ReplayCodes ==
  ASSUME SeriesInv, tick < Ticks, NEW cands \in [Metric -> {"none", "single"}],
         NEW composite \in BOOLEAN,
         series' = Append(series, [cands |-> cands, composite |-> composite])
  PROVE  /\ series' \in Seq(SeriesEntry) /\ Len(series') = tick + 1
         /\ series'[tick + 1] = [cands |-> cands, composite |-> composite]
         /\ \A m \in Metric, i \in 0..tick : Coded'[m][i] = Coded[m][i]
         /\ \A m \in Metric : Coded'[m][tick + 1] =
              Intervals!surface_codes(Intervals!Confirmed(cands), composite /\ prevComposite)[m]
<1> DEFINE n == tick
           entry == [cands |-> cands, composite |-> composite]
<1>0. /\ n \in Nat /\ n < Ticks /\ Ticks \in Nat /\ Len(series) = n
      /\ series \in Seq(SeriesEntry) /\ DOMAIN series = 1..n
  BY IntervalConstants DEF SeriesInv
<1>1. entry \in SeriesEntry /\ entry.cands = cands /\ entry.composite = composite
  BY DEF SeriesEntry
<1> HIDE DEF entry
<1>2. series' = Append(series, entry)
  BY DEF entry
<1>3. /\ series' \in Seq(SeriesEntry) /\ Len(series') = n + 1 /\ DOMAIN series' = 1..(n + 1)
      /\ \A i \in 1..n : series'[i] = series[i]
      /\ series'[n + 1] = entry
  BY <1>0, <1>1, <1>2
<1>4. \A m \in Metric, i \in 0..n : Coded'[m][i] = Coded[m][i]
  <2> TAKE m \in Metric, i \in 0..n
  <2>1. i \in Nat /\ (i \in 1..(n + 1) <=> i \in 1..n)
    BY <1>0
  <2>2. i > 1 => series'[i] = series[i] /\ series'[i - 1] = series[i - 1]
    BY <1>0, <1>3
  <2> QED BY <1>0, <1>3, <2>1, <2>2 DEF Coded, Intervals!CodeAt, Intervals!Composite,
       Intervals!Single
<1>5. ASSUME NEW m \in Metric
      PROVE  Coded'[m][n + 1] =
               Intervals!surface_codes(Intervals!Confirmed(cands), composite /\ prevComposite)[m]
  <2> DEFINE both == n + 1 > 1 /\ composite /\ series[n].composite
             single == n + 1 > 1 /\ cands[m] = "single" /\ series[n].cands[m] = "single"
  <2>1. n + 1 \in Nat /\ n + 1 \in 1..(n + 1) /\ n + 1 - 1 = n /\ (n + 1 > 1 => n \in 1..n)
    BY <1>0
  <2>2. Coded'[m][n + 1] = IF both /\ m = Bearer THEN "composite"
                           ELSE IF both /\ m \in Suppressed THEN "none"
                           ELSE IF single THEN "single" ELSE "none"
    <3>1. Coded'[m][n + 1] =
            IF n + 1 > 1 /\ series'[n + 1].composite /\ series'[n].composite /\ m = Bearer
            THEN "composite"
            ELSE IF n + 1 > 1 /\ series'[n + 1].composite /\ series'[n].composite /\ m \in Suppressed
            THEN "none"
            ELSE IF n + 1 > 1 /\ series'[n + 1].cands[m] = "single" /\ series'[n].cands[m] = "single"
            THEN "single" ELSE "none"
      BY <1>3, <2>1 DEF Coded, Intervals!CodeAt, Intervals!Composite, Intervals!Single
    <3> QED BY <1>1, <1>3, <2>1, <3>1
  <2>3. both <=> composite /\ prevComposite
    <3>1. series = <<>> <=> n = 0
      BY <1>0
    <3> QED BY <1>0, <3>1 DEF SeriesInv
  <2>4. single <=> Intervals!Confirmed(cands)[m] = "single"
    <3>1. series = <<>> <=> n = 0
      BY <1>0
    <3>2. cands[m] \in {"none", "single"}
      OBVIOUS
    <3>3. prev[m] = IF n = 0 THEN "none" ELSE series[n].cands[m]
      BY <1>0, <3>1 DEF SeriesInv
    <3>4. Intervals!Confirmed(cands)[m] = IF cands[m] = prev[m] THEN cands[m] ELSE "none"
      BY DEF Intervals!Confirmed
    <3> QED BY <1>0, <3>2, <3>3, <3>4
  <2>5. Intervals!Confirmed(cands)[m] \in {"none", "single"}
    BY DEF Intervals!Confirmed
  <2> HIDE DEF both, single
  <2> QED BY <2>2, <2>3, <2>4, <2>5 DEF Intervals!surface_codes
<1> QED BY <1>3, <1>4, <1>5 DEF entry

\* The replay of a tick.
LEMMA ReplayKeeps ==
  ASSUME IntervalsInv, NEW cands \in [Metric -> {"none", "single"}], NEW composite \in BOOLEAN,
         Intervals!Replay(cands, composite)
  PROVE  IntervalsInv'
<1> DEFINE n == tick
           codes == Intervals!surface_codes(Intervals!Confirmed(cands), composite /\ prevComposite)
           ended == {k \in Metric : Intervals!Ended(k, codes[k])}
<1>0. /\ n \in Nat /\ n < Ticks /\ Ticks \in Nat /\ Intervals!Open = Ticks + 1
      /\ n # Intervals!Open /\ tick' = n + 1
  BY IntervalConstants DEF IntervalsInv, SeriesInv, Intervals!Replay
<1>1. /\ report = Intervals!None /\ totals = Intervals!NoTotals
      /\ \A m \in Metric : IsCurrent(Coded, m, n, active[m])
      /\ alarms = RunsUpTo(Coded, n) /\ SeriesInv
  BY <1>0 DEF IntervalsInv
<1>2. /\ UNCHANGED <<shadow, report, totals>> /\ prev' = cands /\ prevComposite' = composite
      /\ series' = Append(series, [cands |-> cands, composite |-> composite])
  BY DEF Intervals!Replay
<1>3. /\ alarms' = alarms \cup {Intervals!Row(m, active[m], n + 1) : m \in ended}
      /\ active' = [m \in Metric |-> IF codes[m] = active[m].code THEN active[m]
                                     ELSE IF codes[m] = "none" THEN Intervals!Closed
                                     ELSE [code |-> codes[m], raised |-> n + 1]]
  BY DEF Intervals!Replay
<1> HIDE DEF codes
<1>4. /\ series' \in Seq(SeriesEntry) /\ Len(series') = n + 1
      /\ series'[n + 1] = [cands |-> cands, composite |-> composite]
      /\ \A m \in Metric, i \in 0..n : Coded'[m][i] = Coded[m][i]
      /\ \A m \in Metric : Coded'[m][n + 1] = codes[m]
  BY <1>0, <1>1, <1>2, ReplayCodes DEF codes
<1> DEFINE next == Coded'
<1>5. \A m \in Metric, i \in Nat : next[m][i] \in Intervals!Codes \cup {"none"}
  BY IntervalConstants DEF Coded, Intervals!CodeAt
<1> HIDE DEF next
<1>6. /\ \A m \in Metric, i \in 0..n : next[m][i] = Coded[m][i]
      /\ \A m \in Metric : next[m][n + 1] = codes[m]
  BY <1>4 DEF next
<1>7. \A m \in Metric : IsCurrent(next, m, n, active[m])
  <2> TAKE m \in Metric
  <2>1. IsCurrent(Coded, m, n, active[m])
    BY <1>1
  <2> QED BY <1>0, <1>6, <2>1 DEF IsCurrent
<1>8. RunsUpTo(next, n + 1) = RunsUpTo(next, n) \cup {Intervals!Row(m, active[m], n + 1) : m \in ended}
  <2>1. ended = {k \in Metric : active[k].code # "none" /\ next[k][n + 1] # active[k].code}
    BY <1>6 DEF Intervals!Ended
  <2> HIDE DEF ended
  <2>2. n \in 0..Ticks
    BY <1>0
  <2> QED BY <1>5, <1>7, <2>1, <2>2, RunsGrow
<1>9. RunsUpTo(next, n) = RunsUpTo(Coded, n)
  BY <1>0, <1>6, RunsAgree
<1>10. alarms' = RunsUpTo(Coded, tick)'
  <2>1. alarms' = RunsUpTo(next, n + 1)
    BY <1>1, <1>3, <1>8, <1>9
  <2> QED BY <1>0, <2>1 DEF next, RunsUpTo
<1>11. \A m \in Metric : IsCurrent(next, m, n + 1, active'[m])
  <2> TAKE m \in Metric
  <2> DEFINE old == active[m]
  <2>1. /\ IsCurrent(next, m, n, old) /\ next[m][n + 1] = codes[m]
        /\ next[m][n + 1] \in Intervals!Codes \cup {"none"} /\ n + 1 - 1 = n
        /\ next[m][n] \in Intervals!Codes \cup {"none"}
    BY <1>0, <1>5, <1>6, <1>7
  <2>2. active'[m] = IF codes[m] = old.code THEN old
                     ELSE IF codes[m] = "none" THEN Intervals!Closed
                     ELSE [code |-> codes[m], raised |-> n + 1]
    BY <1>3
  <2>3. old.code = next[m][n]
    BY <2>1 DEF IsCurrent, Intervals!Closed
  <2>4. CASE codes[m] = old.code
    BY <1>0, <2>1, <2>2, <2>3, <2>4 DEF IsCurrent
  <2>5. CASE codes[m] # old.code /\ codes[m] = "none"
    BY <1>0, <2>1, <2>2, <2>5 DEF IsCurrent
  <2>6. CASE codes[m] # old.code /\ codes[m] # "none"
    <3>1. active'[m].code = codes[m] /\ active'[m].raised = n + 1
      BY <2>2, <2>6
    <3> QED BY <1>0, <2>1, <2>3, <2>6, <3>1 DEF IsCurrent
  <2> QED BY <2>4, <2>5, <2>6
<1>12. SeriesInv'
  <2>1. series' # <<>> /\ series'[Len(series')].cands = cands
        /\ series'[Len(series')].composite = composite
    BY <1>0, <1>4
  <2>2. tick' \in 0..Intervals!Open /\ tick' # Intervals!Open
    BY <1>0
  <2>3. Len(series') = tick' /\ series' \in Seq(SeriesEntry)
    BY <1>0, <1>4
  <2>4. Intervals!Open' = Intervals!Open /\ SeriesEntry' = SeriesEntry
    BY DEF Intervals!Open, SeriesEntry
  <2>5. prev' = cands /\ prevComposite' = composite
    BY <1>2
  <2> QED BY <2>1, <2>2, <2>3, <2>4, <2>5 DEF SeriesInv
<1>13. TotalsInv' /\ ReportInv'
  BY <1>1, <1>2 DEF TotalsInv, ReportInv, Intervals!None, Intervals!NoTotals
<1>14. \A m \in Metric : IsCurrent(Coded, m, tick, active[m])'
  BY <1>0, <1>11 DEF next, IsCurrent, Intervals!Closed
<1> QED BY <1>1, <1>2, <1>10, <1>12, <1>13, <1>14 DEF IntervalsInv, Intervals!None, Intervals!NoTotals

\* What is counted by a key adds up to all there is.
LEMMA TotalOfKeyed ==
  ASSUME NEW S, IsFiniteSet(S), NEW K, NEW key \in [S -> K], NEW count,
         DOMAIN count = K, \A x \in K : count[x] = Cardinality({s \in S : key[s] = x})
  PROVE  Cardinality(UNION {{<<x, n>> : n \in 1..count[x]} : x \in DOMAIN count}) = Cardinality(S)
<1> DEFINE Of(x) == {s \in S : key[s] = x}
           Cells == UNION {{<<x, n>> : n \in 1..count[x]} : x \in DOMAIN count}
           g == [x \in K |-> CHOOSE b : b \in Bijection(1..count[x], Of(x))]
           h == [c \in Cells |-> g[c[1]][c[2]]]
<1>1. ASSUME NEW x \in K
      PROVE  /\ g[x] \in [1..count[x] -> Of(x)]
             /\ \A m, n \in 1..count[x] : g[x][m] = g[x][n] => m = n
             /\ \A s \in Of(x) : \E n \in 1..count[x] : g[x][n] = s
  <2>1. IsFiniteSet(Of(x))
    BY FS_Subset
  <2>2. count[x] = Cardinality(Of(x))
    OBVIOUS
  <2> HIDE DEF Of
  <2>3. ExistsBijection(1..count[x], Of(x))
    BY <2>1, <2>2, FS_CardinalityType
  <2>4. g[x] \in Bijection(1..count[x], Of(x))
    BY <2>3 DEF ExistsBijection
  <2> HIDE DEF g
  <2> QED BY <2>4 DEF Bijection, Injection, Surjection, IsInjective
<1>2. \A c \in Cells : /\ c = <<c[1], c[2]>> /\ c[1] \in K /\ c[2] \in 1..count[c[1]]
  OBVIOUS
<1>3. \A x \in K : \A n \in 1..count[x] : <<x, n>> \in Cells
  OBVIOUS
<1> HIDE DEF Cells, g
<1>4. \A c \in Cells : h[c] = g[c[1]][c[2]] /\ h[c] \in S /\ key[h[c]] = c[1]
  <2> TAKE c \in Cells
  <2>1. c[1] \in K /\ c[2] \in 1..count[c[1]]
    BY <1>2
  <2>2. g[c[1]] \in [1..count[c[1]] -> Of(c[1])]
    BY <1>1, <2>1
  <2>3. g[c[1]][c[2]] \in Of(c[1])
    BY <2>1, <2>2
  <2> QED BY <2>3
<1>5. h \in [Cells -> S]
  BY <1>4
<1>6. \A s \in S : \E c \in Cells : h[c] = s
  <2> TAKE s \in S
  <2>1. key[s] \in K /\ s \in Of(key[s])
    OBVIOUS
  <2>2. PICK n \in 1..count[key[s]] : g[key[s]][n] = s
    BY <1>1, <2>1
  <2>3. <<key[s], n>> \in Cells
    BY <1>3, <2>1
  <2> QED BY <1>4, <2>2, <2>3
<1> HIDE DEF h
<1>7. ASSUME NEW c \in Cells, NEW d \in Cells, h[c] = h[d] PROVE c = d
  <2>1. c[1] = d[1] /\ g[c[1]][c[2]] = g[c[1]][d[2]]
    BY <1>4, <1>7
  <2>2. c[2] = d[2]
    BY <1>1, <1>2, <2>1
  <2> QED BY <1>2, <2>1, <2>2
<1>8. h \in Injection(Cells, S) /\ h \in Surjection(Cells, S)
  BY <1>5, <1>6, <1>7 DEF Injection, Surjection, IsInjective
<1>9. Cardinality(Cells) = Cardinality(S)
  BY <1>8, FS_Injection
<1> QED BY <1>9 DEF Cells

\* A run is known by where it begins.
LEMMA RunByBegin ==
  ASSUME NEW c, NEW r \in IntervalRow, NEW q \in IntervalRow, IsRun(c, r), IsRun(c, q),
         r.metric = q.metric, r.raised = q.raised
  PROVE  r = q
<1>1. /\ r.raised \in Nat \ {0} /\ r.cleared \in Nat /\ q.cleared \in Nat
      /\ r.raised < r.cleared /\ q.raised < q.cleared
  BY IntervalConstants DEF IntervalRow, IsRun
<1>2. r.code = c[r.metric][r.raised] /\ q.code = r.code
  BY <1>1 DEF IsRun
<1>3. ~(r.cleared < q.cleared) /\ ~(q.cleared < r.cleared)
  BY <1>1, <1>2 DEF IsRun
<1>4. r.cleared = q.cleared
  BY <1>1, <1>3
<1> QED BY <1>2, <1>4 DEF IntervalRow

\* Where a code begins, a run does.
LEMMA RunFromBegin ==
  ASSUME NEW c, \A m \in Metric, i \in Nat : c[m][i] \in Intervals!Codes \cup {"none"},
         \A m \in Metric : c[m][Ticks + 1] = "none",
         NEW m \in Metric, NEW i \in 1..Ticks, c[m][i] # "none", c[m][i - 1] # c[m][i]
  PROVE  \E r \in IntervalRow : IsRun(c, r) /\ r.metric = m /\ r.raised = i
<1>0. Ticks \in Nat /\ Intervals!Open = Ticks + 1 /\ i \in Nat
  BY IntervalConstants
<1> DEFINE Ends == {j \in (i + 1)..(Ticks + 1) : c[m][j] # c[m][i]}
<1>1. Ticks + 1 \in Ends /\ Ends \subseteq Nat
  BY <1>0
<1>2. PICK j \in Ends : \A k \in Ends : j <= k
  <2> HIDE DEF Ends
  <2> QED BY <1>1, LeastNatural
<1>3. j \in (i + 1)..(Ticks + 1) /\ c[m][j] # c[m][i]
      /\ \A k \in (i + 1)..(j - 1) : c[m][k] = c[m][i]
  BY <1>0, <1>2
<1> DEFINE r == [metric |-> m, code |-> c[m][i], raised |-> i, cleared |-> j]
<1>4. r \in IntervalRow
  BY <1>0, <1>3 DEF IntervalRow
<1>5. /\ r.metric = m /\ r.code = c[m][i] /\ r.raised = i /\ r.cleared = j
  OBVIOUS
<1> HIDE DEF r
<1>6. \A k \in i..(j - 1) : c[m][k] = c[m][i]
  BY <1>0, <1>3
<1>7. IsRun(c, r)
  BY <1>0, <1>3, <1>5, <1>6 DEF IsRun
<1> QED BY <1>4, <1>5, <1>7

\* The rows since a time are as many as the codes that began since then, by
\* code and by sensor.
LEMMA TotalsAreBegins ==
  ASSUME IntervalsInv, tick = Intervals!Open, NEW from \in 1..Ticks
  PROVE  LET starts == {b \in Metric \X (from..Ticks) : Intervals!Begins(b[1], b[2])}
         IN /\ Intervals!Total(Intervals!fetch_alarm_history(from)) = Intervals!Cardinality(starts)
            /\ Intervals!Total(Intervals!fetch_alarm_sensor_summary(from)) = Intervals!Cardinality(starts)
<1> DEFINE starts == {b \in Metric \X (from..Ticks) : Intervals!Begins(b[1], b[2])}
           late == {a \in alarms : a.raised >= from}
           place == [a \in late |-> <<a.metric, a.raised>>]
<1>0. /\ Ticks \in Nat /\ Intervals!Open = Ticks + 1 /\ from \in Nat
      /\ Intervals!Codes = {"single", "composite"} /\ IsFiniteSet(Metric)
  BY IntervalConstants
<1>1. \A m \in Metric, i \in Nat : Coded[m][i] \in Intervals!Codes \cup {"none"}
  BY CodedTypes
<1>2. \A m \in Metric : Coded[m][Ticks + 1] = "none"
  <2>1. DOMAIN series = 1..Ticks
    BY <1>0 DEF IntervalsInv, SeriesInv
  <2>2. Ticks + 1 \in Nat /\ Ticks + 1 \notin 1..Ticks
    BY <1>0
  <2> QED BY <2>1, <2>2, CodedForm
<1>3. \A m \in Metric, i \in Nat \ {0} :
        Intervals!Begins(m, i) <=> Coded[m][i] # "none" /\ Coded[m][i - 1] # Coded[m][i]
  BY DEF Intervals!Begins, Coded
<1>4. \A a \in alarms : a \in IntervalRow /\ IsRun(Coded, a)
  BY DEF IntervalsInv, RunsUpTo
<1>5. \A a \in IntervalRow : IsRun(Coded, a) => a \in alarms
  BY <1>0 DEF IntervalsInv, RunsUpTo, IntervalRow
<1>6. IsFiniteSet(starts)
  <2>1. IsFiniteSet(from..Ticks)
    BY <1>0, FS_Interval
  <2>2. IsFiniteSet(Metric \X (from..Ticks))
    BY <1>0, <2>1, FS_Product
  <2> QED BY <2>2, FS_Subset
<1>7. \A a \in late : /\ a.metric \in Metric /\ a.raised \in from..Ticks
                        /\ Intervals!Begins(a.metric, a.raised)
  <2> TAKE a \in late
  <2>1. a \in IntervalRow /\ IsRun(Coded, a) /\ a.raised >= from
    BY <1>4
  <2>2. /\ a.metric \in Metric /\ a.raised \in 1..Ticks /\ a.cleared \in Nat
        /\ a.code \in Intervals!Codes
    BY <1>0, <2>1 DEF IntervalRow
  <2>3. Coded[a.metric][a.raised] = a.code /\ Coded[a.metric][a.raised - 1] # a.code
    BY <2>1, <2>2 DEF IsRun
  <2>4. a.raised \in Nat \ {0} /\ a.raised \in from..Ticks /\ a.code # "none"
    BY <1>0, <2>1, <2>2
  <2> QED BY <1>3, <2>2, <2>3, <2>4
<1>8. place \in [late -> starts] /\ \A a \in late : place[a] = <<a.metric, a.raised>>
  BY <1>7
<1>9. ASSUME NEW b \in starts PROVE \E a \in late : place[a] = b
  <2>1. /\ b[1] \in Metric /\ b[2] \in from..Ticks /\ b = <<b[1], b[2]>>
        /\ Intervals!Begins(b[1], b[2])
    OBVIOUS
  <2>2. b[2] \in 1..Ticks /\ b[2] \in Nat \ {0} /\ b[2] >= from
    BY <1>0, <2>1
  <2>3. Coded[b[1]][b[2]] # "none" /\ Coded[b[1]][b[2] - 1] # Coded[b[1]][b[2]]
    BY <1>3, <2>1, <2>2
  <2>4. PICK a \in IntervalRow : IsRun(Coded, a) /\ a.metric = b[1] /\ a.raised = b[2]
    BY <1>1, <1>2, <2>1, <2>2, <2>3, RunFromBegin
  <2>5. a \in late
    BY <1>5, <2>2, <2>4
  <2>6. place[a] = <<a.metric, a.raised>>
    BY <1>8, <2>5
  <2> QED BY <2>1, <2>4, <2>5, <2>6
<1> HIDE DEF place
<1>10. ASSUME NEW a \in late, NEW d \in late, place[a] = place[d] PROVE a = d
  <2>1. a.metric = d.metric /\ a.raised = d.raised
    BY <1>8, <1>10
  <2> QED BY <1>4, <2>1, RunByBegin
<1> DEFINE kept == late
           began == starts
<1>11. /\ place \in [kept -> began]
       /\ \A b \in began : \E a \in kept : place[a] = b
       /\ \A a, d \in kept : place[a] = place[d] => a = d
  BY <1>8, <1>9, <1>10
<1>12. IsFiniteSet(began)
  BY <1>6
<1>13. \A a \in kept : a.code \in Intervals!Codes /\ a.metric \in Metric
  BY <1>4 DEF IntervalRow
<1>14. \A x : /\ {a \in alarms : a.code = x /\ a.raised >= from} = {a \in kept : a.code = x}
               /\ {a \in alarms : a.metric = x /\ a.raised >= from} = {a \in kept : a.metric = x}
  OBVIOUS
<1> HIDE DEF kept, began, late, starts
<1>15. place \in Injection(kept, began) /\ place \in Surjection(kept, began)
  BY <1>11 DEF Injection, Surjection, IsInjective
<1>16. IsFiniteSet(kept) /\ Cardinality(kept) = Cardinality(began)
  BY <1>12, <1>15, FS_Injection
<1> DEFINE codes == [a \in kept |-> a.code]
           metrics == [a \in kept |-> a.metric]
<1>17. Intervals!Total(Intervals!fetch_alarm_history(from)) = Cardinality(kept)
  <2> DEFINE count == Intervals!fetch_alarm_history(from)
  <2>1. codes \in [kept -> Intervals!Codes] /\ \A a \in kept : codes[a] = a.code
    BY <1>13
  <2>2. DOMAIN count = Intervals!Codes
    BY DEF Intervals!fetch_alarm_history
  <2> HIDE DEF codes
  <2>3. \A x : {a \in kept : codes[a] = x} = {a \in kept : a.code = x}
    BY <2>1
  <2>4. \A x \in Intervals!Codes : count[x] = Cardinality({a \in kept : codes[a] = x})
    BY <1>14, <2>3, IntervalsCardinality DEF Intervals!fetch_alarm_history
  <2> HIDE DEF count
  <2>5. Cardinality(UNION {{<<x, n>> : n \in 1..count[x]} : x \in DOMAIN count}) = Cardinality(kept)
    BY <1>16, <2>1, <2>2, <2>4, TotalOfKeyed
  <2> QED BY <2>5, IntervalsCardinality DEF Intervals!Total, count
<1>18. Intervals!Total(Intervals!fetch_alarm_sensor_summary(from)) = Cardinality(kept)
  <2> DEFINE count == Intervals!fetch_alarm_sensor_summary(from)
  <2>1. metrics \in [kept -> Metric] /\ \A a \in kept : metrics[a] = a.metric
    BY <1>13
  <2>2. DOMAIN count = Metric
    BY DEF Intervals!fetch_alarm_sensor_summary
  <2> HIDE DEF metrics
  <2>3. \A x : {a \in kept : metrics[a] = x} = {a \in kept : a.metric = x}
    BY <2>1
  <2>4. \A x \in Metric : count[x] = Cardinality({a \in kept : metrics[a] = x})
    BY <1>14, <2>3, IntervalsCardinality DEF Intervals!fetch_alarm_sensor_summary
  <2> HIDE DEF count
  <2>5. Cardinality(UNION {{<<x, n>> : n \in 1..count[x]} : x \in DOMAIN count}) = Cardinality(kept)
    BY <1>16, <2>1, <2>2, <2>4, TotalOfKeyed
  <2> QED BY <2>5, IntervalsCardinality DEF Intervals!Total, count
<1> QED BY <1>16, <1>17, <1>18, IntervalsCardinality DEF began, starts

\* Nothing has been replayed.
LEMMA IntervalsStarts == Intervals!Init => IntervalsInv
<1> SUFFICES ASSUME Intervals!Init PROVE IntervalsInv
  OBVIOUS
<1>1. /\ tick = 0 /\ series = <<>> /\ alarms = {} /\ report = Intervals!None
      /\ totals = Intervals!NoTotals /\ active = [m \in Metric |-> Intervals!Closed]
      /\ prev = [m \in Metric |-> "none"] /\ prevComposite = FALSE
  BY DEF Intervals!Init
<1>2. tick # Intervals!Open /\ tick \in 0..Intervals!Open
  BY <1>1, IntervalConstants
<1>3. SeriesInv
  <2>1. series \in Seq(SeriesEntry) /\ Len(series) = 0
    BY <1>1
  <2>2. Len(series) = IF tick = Intervals!Open THEN Ticks ELSE tick
    BY <1>1, <1>2, <2>1
  <2>3. /\ prev = IF series = <<>> THEN [m \in Metric |-> "none"] ELSE series[Len(series)].cands
        /\ prevComposite = IF series = <<>> THEN FALSE ELSE series[Len(series)].composite
    BY <1>1
  <2> QED BY <1>2, <2>1, <2>2, <2>3 DEF SeriesInv
<1>4. \A m \in Metric : IsCurrent(Coded, m, tick, active[m])
  <2> TAKE m \in Metric
  <2>1. 0 \notin DOMAIN series
    BY <1>1
  <2>2. Coded[m][0] = "none"
    BY <2>1, CodedForm
  <2> QED BY <1>1, <2>2 DEF IsCurrent
<1>5. RunsUpTo(Coded, tick) = {}
  BY <1>1, IntervalConstants DEF RunsUpTo, IntervalRow, IsRun
<1>6. ReportInv
  BY <1>1 DEF ReportInv, Intervals!None
<1> QED BY <1>1, <1>3, <1>4, <1>5, <1>6 DEF IntervalsInv, TotalsInv

\* What is open at the end is a run that ends with the series.
LEMMA StoreRunsKeeps ==
  ASSUME IntervalsInv, Intervals!Store
  PROVE  IntervalsInv'
<1>0. /\ tick = Ticks /\ tick' = Intervals!Open /\ Intervals!Open = Ticks + 1 /\ Ticks \in Nat
      /\ Ticks # Ticks + 1 /\ Ticks \in 0..Ticks
  BY IntervalConstants DEF Intervals!Store
<1>1. /\ report = Intervals!None /\ totals = Intervals!NoTotals
      /\ \A m \in Metric : IsCurrent(Coded, m, Ticks, active[m])
      /\ alarms = RunsUpTo(Coded, Ticks) /\ SeriesInv
  BY <1>0 DEF IntervalsInv
<1>2. UNCHANGED <<prev, prevComposite, active, shadow, report, totals, series>>
  BY DEF Intervals!Store
<1>3. \A m \in Metric : Coded[m][Ticks + 1] = "none"
  <2>1. DOMAIN series = 1..Ticks
    BY <1>0, <1>1 DEF SeriesInv
  <2>2. Ticks + 1 \in Nat /\ Ticks + 1 \notin 1..Ticks
    BY <1>0
  <2> QED BY <2>1, <2>2, CodedForm
<1>4. {m \in Metric : active[m] # Intervals!Closed} =
        {k \in Metric : active[k].code # "none" /\ Coded[k][Ticks + 1] # active[k].code}
  <2>1. ASSUME NEW m \in Metric
        PROVE  active[m] # Intervals!Closed <=> active[m].code # "none"
    <3>1. CASE Coded[m][Ticks] = "none"
      BY <1>1, <3>1 DEF IsCurrent, Intervals!Closed
    <3>2. CASE Coded[m][Ticks] # "none"
      BY <1>1, <3>2 DEF IsCurrent, Intervals!Closed
    <3> QED BY <3>1, <3>2
  <2> QED BY <1>3, <2>1
<1>5. RunsUpTo(Coded, Ticks + 1) =
        RunsUpTo(Coded, Ticks) \cup
          {Intervals!Row(m, active[m], Ticks + 1) :
             m \in {k \in Metric : active[k].code # "none" /\ Coded[k][Ticks + 1] # active[k].code}}
  <2> DEFINE c == Coded
             ended == {k \in Metric : active[k].code # "none" /\ c[k][Ticks + 1] # active[k].code}
  <2>1. /\ \A m \in Metric : IsCurrent(c, m, Ticks, active[m])
        /\ \A m \in Metric, i \in Nat : c[m][i] \in Intervals!Codes \cup {"none"}
    BY <1>1, CodedTypes
  <2> HIDE DEF c
  <2>2. ended = {k \in Metric : active[k].code # "none" /\ c[k][Ticks + 1] # active[k].code}
    OBVIOUS
  <2> HIDE DEF ended
  <2>3. RunsUpTo(c, Ticks + 1) =
          RunsUpTo(c, Ticks) \cup {Intervals!Row(m, active[m], Ticks + 1) : m \in ended}
    BY <1>0, <2>1, <2>2, RunsGrow
  <2> QED BY <2>2, <2>3 DEF c
<1>6. alarms' = RunsUpTo(Coded, Ticks + 1)
  BY <1>0, <1>1, <1>4, <1>5 DEF Intervals!Store
<1>7. Coded' = Coded
  BY <1>2 DEF Coded, Intervals!CodeAt, Intervals!Composite, Intervals!Single
<1>8. SeriesInv'
  <2>1. tick' \in 0..Intervals!Open
    BY <1>0
  <2> QED BY <1>0, <1>1, <1>2, <2>1 DEF SeriesInv, SeriesEntry, Intervals!Open
<1>9. TotalsInv' /\ ReportInv'
  BY <1>1, <1>2 DEF TotalsInv, ReportInv, Intervals!None, Intervals!NoTotals
<1>10. (alarms = RunsUpTo(Coded, tick))'
  BY <1>0, <1>6, <1>7 DEF RunsUpTo
<1>11. tick' = Intervals!Open'
  BY <1>0 DEF Intervals!Open
<1> QED BY <1>8, <1>9, <1>10, <1>11 DEF IntervalsInv

\* The one event the report has met no alarm of these days when it counts as
\* the detector's alone.
LEMMA ReportKeeps ==
  ASSUME IntervalsInv, Intervals!Report
  PROVE  IntervalsInv'
<1>1. UNCHANGED <<tick, prev, prevComposite, active, alarms, totals, series>>
      /\ tick = Intervals!Open
  BY DEF Intervals!Report
<1>2. PICK e : shadow' = {e} /\ e.raised \in 1..Ticks
  <2>1. PICK first \in 1..Ticks, final \in 1..Ticks, open \in BOOLEAN :
          shadow' = {[raised |-> first, cleared |-> IF open THEN Intervals!Open ELSE final]}
    BY DEF Intervals!Report
  <2> DEFINE e == [raised |-> first, cleared |-> IF open THEN Intervals!Open ELSE final]
  <2>2. shadow' = {e} /\ e.raised \in 1..Ticks
    BY <2>1
  <2> QED BY <2>2
<1> DEFINE recent == Intervals!Recent(shadow')
           rules == Intervals!Recent(alarms)
           alone == recent \ Intervals!Met(recent, rules)
<1>3. report'.detectorOnly = Cardinality(alone)
  <2>1. report' = Intervals!compare(Intervals!Recent(shadow'), Intervals!Recent(alarms'))
    BY DEF Intervals!Report
  <2> QED BY <1>1, <2>1, IntervalsCardinality DEF Intervals!compare
<1>4. ASSUME report'.detectorOnly > 0, NEW r \in alarms, Intervals!Overlaps(e, r)
      PROVE  r.raised < Ticks - Days
  <2>1. alone # {}
    <3> HIDE DEF alone
    <3> QED BY <1>3, <1>4, FS_EmptySet
  <2>2. e \in recent /\ e \notin Intervals!Met(recent, rules)
    BY <1>2, <2>1 DEF Intervals!Recent
  <2>3. r \notin rules
    BY <1>4, <2>2 DEF Intervals!Met
  <2>4. r.raised \in Int /\ Ticks \in Int /\ Days \in Int
    BY IntervalConstants DEF IntervalsInv, RunsUpTo, IntervalRow
  <2> QED BY <2>3, <2>4 DEF Intervals!Recent
<1>5. ReportInv'
  BY <1>1, <1>2, <1>4 DEF ReportInv, Intervals!Overlaps, Intervals!Until, Intervals!Open
<1>6. SeriesInv' /\ TotalsInv'
  <2>1. SeriesInv'
    BY <1>1 DEF IntervalsInv, SeriesInv, SeriesEntry, Intervals!Open
  <2>2. TotalsInv'
    BY <1>1 DEF IntervalsInv, TotalsInv, Intervals!NoTotals, Intervals!Begins,
      Intervals!CodeAt, Intervals!Composite, Intervals!Single
  <2> QED BY <2>1, <2>2
<1>7. (alarms = RunsUpTo(Coded, tick))'
  BY <1>1 DEF IntervalsInv, RunsUpTo, Coded, Intervals!CodeAt, Intervals!Composite, Intervals!Single
<1>8. tick' = Intervals!Open'
  BY <1>1 DEF Intervals!Open
<1> QED BY <1>5, <1>6, <1>7, <1>8 DEF IntervalsInv

\* The totals count every run once.
LEMMA SummarizeKeeps ==
  ASSUME IntervalsInv, NEW from \in 1..Ticks, Intervals!Summarize(from)
  PROVE  IntervalsInv'
<1>1. UNCHANGED <<tick, prev, prevComposite, active, alarms, shadow, report, series>>
      /\ tick = Intervals!Open
  BY DEF Intervals!Summarize
<1> DEFINE byCode == Intervals!fetch_alarm_history(from)
           bySensor == Intervals!fetch_alarm_sensor_summary(from)
           starts == {b \in Metric \X (from..Ticks) : Intervals!Begins(b[1], b[2])}
<1>2. Intervals!Total(byCode) = Intervals!Cardinality(starts)
      /\ Intervals!Total(bySensor) = Intervals!Cardinality(starts)
  BY <1>1, TotalsAreBegins
<1>3. totals' = [since |-> from, code |-> byCode, metric |-> bySensor]
  BY DEF Intervals!Summarize
<1> HIDE DEF byCode, bySensor
<1>4. totals'.since = from /\ totals'.code = byCode /\ totals'.metric = bySensor
  BY <1>3
<1>5. {b \in Metric \X ((totals'.since)..Ticks) : Intervals!Begins(b[1], b[2])'} = starts
  BY <1>1, <1>4 DEF Intervals!Begins, Intervals!CodeAt, Intervals!Composite, Intervals!Single
<1>6. TotalsInv'
  <2>1. TotalsInv' =
          (totals' # Intervals!NoTotals =>
             LET later == {b \in Metric \X ((totals'.since)..Ticks) : Intervals!Begins(b[1], b[2])'}
             IN /\ Intervals!Total(totals'.code) = Intervals!Cardinality(later)
                /\ Intervals!Total(totals'.metric) = Intervals!Cardinality(later))
    BY DEF TotalsInv, Intervals!Total, Intervals!Cardinality, Intervals!NoTotals, Intervals!Codes
  <2> QED BY <1>2, <1>4, <1>5, <2>1
<1>7. SeriesInv' /\ ReportInv'
  <2>1. SeriesInv'
    BY <1>1 DEF IntervalsInv, SeriesInv, SeriesEntry, Intervals!Open
  <2>2. ReportInv'
    BY <1>1 DEF IntervalsInv, ReportInv, Intervals!Overlaps, Intervals!Until, Intervals!Open
  <2> QED BY <2>1, <2>2
<1>8. (alarms = RunsUpTo(Coded, tick))'
  BY <1>1 DEF IntervalsInv, RunsUpTo, Coded, Intervals!CodeAt, Intervals!Composite, Intervals!Single
<1>9. tick' = Intervals!Open'
  BY <1>1 DEF Intervals!Open
<1> QED BY <1>6, <1>7, <1>8, <1>9 DEF IntervalsInv

\* Every step keeps the rows the runs of the series.
LEMMA IntervalsStep ==
  ASSUME IntervalsInv, [Intervals!Next]_(Intervals!vars)
  PROVE  IntervalsInv'
<1>1. CASE UNCHANGED Intervals!vars
  <2>1. Coded' = Coded /\ SeriesInv' = SeriesInv
    BY <1>1 DEF Intervals!vars, Coded, Intervals!CodeAt, Intervals!Composite, Intervals!Single,
      SeriesInv, SeriesEntry, Intervals!Open
  <2>2. TotalsInv' = TotalsInv
    BY <1>1 DEF Intervals!vars, TotalsInv, Intervals!NoTotals, Intervals!Begins,
      Intervals!CodeAt, Intervals!Composite, Intervals!Single
  <2>3. ReportInv' = ReportInv
    BY <1>1 DEF Intervals!vars, ReportInv, Intervals!Overlaps, Intervals!Until, Intervals!Open
  <2> QED BY <1>1, <2>1, <2>2, <2>3 DEF IntervalsInv, Intervals!vars, RunsUpTo, IsCurrent,
        Intervals!Open, Intervals!None, Intervals!NoTotals, Intervals!Closed
<1>2. CASE \E cands \in [Metric -> {"none", "single"}], composite \in BOOLEAN :
             Intervals!Replay(cands, composite)
  BY <1>2, ReplayKeeps
<1>3. CASE Intervals!Store
  BY <1>3, StoreRunsKeeps
<1>4. CASE Intervals!Report
  BY <1>4, ReportKeeps
<1>5. CASE \E from \in 1..Ticks : Intervals!Summarize(from)
  BY <1>5, SummarizeKeeps
<1> QED BY <1>1, <1>2, <1>3, <1>4, <1>5 DEF Intervals!Next

\* The rows of the whole series are its runs.
LEMMA IntervalsHonest == IntervalsInv => Intervals!IntervalsAreRuns
<1> SUFFICES ASSUME IntervalsInv, tick = Intervals!Open PROVE Intervals!IntervalsAreRuns
  BY DEF Intervals!IntervalsAreRuns
<1> DEFINE claim == {r \in [metric : Metric, code : Intervals!Codes, raised : 1..Ticks,
                            cleared : 1..Intervals!Open] :
                       /\ r.raised < r.cleared
                       /\ \A i \in r.raised..r.cleared - 1 : Intervals!CodeAt(r.metric, i) = r.code
                       /\ Intervals!CodeAt(r.metric, r.raised - 1) # r.code
                       /\ Intervals!CodeAt(r.metric, r.cleared) # r.code}
<1>1. ASSUME NEW r \in IntervalRow PROVE r \in RunsUpTo(Coded, Intervals!Open) <=> r \in claim
  <2>1. /\ r.metric \in Metric /\ r.raised \in Nat \ {0} /\ r.cleared \in Nat
        /\ r.cleared <= Intervals!Open
    BY IntervalConstants DEF IntervalRow
  <2>2. \A i \in Nat : Coded[r.metric][i] = Intervals!CodeAt(r.metric, i)
    BY <2>1 DEF Coded
  <2> QED BY <2>1, <2>2 DEF RunsUpTo, IsRun, IntervalRow
<1>2. alarms = claim
  BY <1>1 DEF IntervalsInv, RunsUpTo, IntervalRow
<1> QED BY <1>2 DEF IntervalsInv, TotalsInv, ReportInv, Intervals!IntervalsAreRuns

\* The alarm rows are the runs of equal codes, every one counted once in the
\* totals, and the report's own events met none of these days, whatever the
\* series (seed_data.py:168-223, repository.py:213-254,
\* shadow_report.py:49-87).
THEOREM IntervalsAlwaysRuns == ServicesSpec => []IntervalsAreRuns
<1> DEFINE I == subject = "intervals" => IntervalsInv
<1>1. ServicesInit => I
  BY IntervalsStarts DEF ServicesInit
<1>2. I /\ [ServicesNext]_servicesVars => I'
  BY SubjectStep, IntervalsStep
<1>3. I => IntervalsAreRuns
  BY IntervalsHonest DEF IntervalsAreRuns
<1> QED BY <1>1, <1>2, <1>3, PTL DEF ServicesSpec

-----------------------------------------------------------------------------
(* The operating point.                                                    *)

\* Every setting has its metrics, and the chosen one is an operating point.
SweepInv ==
  /\ (\E S : sweep \in Seq(S)) /\ detections \in Seq(SUBSET Sweep!Tick)
  /\ Len(sweep) = Len(detections) /\ Len(sweep) <= Settings
  /\ \A i \in 1..Len(sweep) :
       sweep[i].dedup = Cardinality(Sweep!bucket_dedup(Sweep!Outside(detections[i])))
  /\ chosen # 0 => Len(sweep) = Settings /\ chosen \in Sweep!operating_point

\* The library's cardinality is the one of the theorems about finite sets.
LEMMA SweepCardinality == ASSUME NEW S PROVE Sweep!Cardinality(S) = Cardinality(S)
BY DEF Sweep!Cardinality, Cardinality

\* What is assumed of the constants.
LEMMA SweepConstants ==
  /\ Settings \in Nat \ {0} /\ Budget \in Nat /\ EvalBucket \in Nat \ {0}
  /\ IsFiniteSet(Sweep!Tick) /\ Sweep!Tick \subseteq Nat
<1>1. /\ EvalTicks \in Nat \ {0} /\ Settings \in Nat \ {0} /\ Budget \in Nat
      /\ EvalBucket \in Nat \ {0}
  BY ServicesAssumption DEF Sweep!EvaluationAssumption
<1>2. IsFiniteSet(Sweep!Tick)
  BY <1>1, FS_Interval DEF Sweep!Tick
<1> QED BY <1>1, <1>2 DEF Sweep!Tick

\* Of the detections of a bucket one is the first.
LEMMA FirstOfBucket ==
  ASSUME NEW S \in SUBSET Nat, NEW t \in S
  PROVE  \E u \in Sweep!bucket_dedup(S) : u \div EvalBucket = t \div EvalBucket
<1> DEFINE Same == {s \in S : s \div EvalBucket = t \div EvalBucket}
<1>1. PICK u \in Same : \A s \in Same : u <= s
  <2>1. Same \subseteq Nat /\ Same # {}
    OBVIOUS
  <2> HIDE DEF Same
  <2> QED BY <2>1, LeastNatural
<1> QED BY <1>1 DEF Sweep!bucket_dedup

\* A tick is in the clock's bucket of the number of its own, or in the next.
LEMMA BucketsMeet ==
  ASSUME NEW t \in Nat, NEW o \in 0..EvalBucket - 1
  PROVE  LET d == t \div EvalBucket
             c == (t + o) \div EvalBucket
         IN d \in Nat /\ c \in Nat /\ c - d \in {0, 1}
<1> DEFINE d == t \div EvalBucket
           c == (t + o) \div EvalBucket
<1>0. EvalBucket \in Nat \ {0} /\ o \in Nat /\ o < EvalBucket
  BY SweepConstants
<1>1. d \in Nat /\ d * EvalBucket <= t /\ t < d * EvalBucket + EvalBucket
  BY <1>0, Quotient
<1>2. c \in Nat /\ c * EvalBucket <= t + o /\ t + o < c * EvalBucket + EvalBucket
  BY <1>0, Quotient
<1> HIDE DEF c, d
<1>3. c >= d
  <2>1. CASE c + 1 <= d
    <3>1. (c + 1) * EvalBucket <= d * EvalBucket
      BY <1>0, <1>1, <1>2, <2>1, ProductGrows
    <3>2. (c + 1) * EvalBucket = c * EvalBucket + EvalBucket
      BY <1>0, <1>2
    <3> QED BY <1>0, <1>1, <1>2, <3>1, <3>2
  <2> QED BY <1>1, <1>2, <2>1
<1>4. c <= d + 1
  <2>1. CASE d + 2 <= c
    <3>1. (d + 2) * EvalBucket <= c * EvalBucket
      BY <1>0, <1>1, <1>2, <2>1, ProductGrows
    <3>2. (d + 2) * EvalBucket = d * EvalBucket + 2 * EvalBucket
      BY <1>0, <1>1
    <3> QED BY <1>0, <1>1, <1>2, <3>1, <3>2
  <2> QED BY <1>1, <1>2, <2>1
<1> QED BY <1>1, <1>2, <1>3, <1>4 DEF c, d

\* What is kept of the buckets and the buckets of the clock.
LEMMA TwiceAtMost ==
  ASSUME NEW S \in SUBSET Sweep!Tick, NEW o \in 0..EvalBucket - 1
  PROVE  LET kept == Cardinality(Sweep!bucket_dedup(S))
         IN /\ kept \in Nat /\ Sweep!Notices(S, o) \in Nat
            /\ Sweep!Notices(S, o) <= 2 * kept
            /\ kept <= 2 * Sweep!Notices(S, o)
<1> DEFINE firsts == Sweep!bucket_dedup(S)
           clock == {(t + o) \div EvalBucket : t \in S}
           own(t) == t \div EvalBucket
<1>0. S \subseteq Nat /\ IsFiniteSet(S) /\ EvalBucket \in Nat \ {0}
  BY SweepConstants, FS_Subset
<1>1. /\ firsts \subseteq S
      /\ \A t, u \in firsts : own(t) = own(u) => t = u
  BY <1>0 DEF Sweep!bucket_dedup
<1>2. \A t \in S : \E u \in firsts : own(u) = own(t)
  BY <1>0, FirstOfBucket
<1>3. \A t \in S : own(t) \in Nat /\ (t + o) \div EvalBucket - own(t) \in {0, 1}
                   /\ (t + o) \div EvalBucket \in Nat
  BY <1>0, BucketsMeet
<1>4. IsFiniteSet(firsts) /\ Cardinality(firsts) \in Nat
  BY <1>0, <1>1, FS_Subset, FS_CardinalityType
<1>5. IsFiniteSet({0, 1}) /\ Cardinality({0, 1}) = 2
  <2>1. IsFiniteSet({0}) /\ Cardinality({0}) = 1
    BY FS_Singleton
  <2>2. {0, 1} = {0} \cup {1} /\ 1 \notin {0}
    OBVIOUS
  <2> QED BY <2>1, <2>2, FS_AddElement
<1>6. IsFiniteSet(clock) /\ Cardinality(clock) \in Nat
  <2> DEFINE f == [t \in S |-> (t + o) \div EvalBucket]
  <2>1. f \in Surjection(S, clock)
    BY DEF Surjection
  <2> HIDE DEF f, clock
  <2> QED BY <1>0, <2>1, FS_Surjection, FS_CardinalityType
<1>7. Sweep!Notices(S, o) = Cardinality(clock)
  BY SweepCardinality DEF Sweep!Notices
<1> HIDE DEF firsts, clock
<1>8. Cardinality(clock) <= Cardinality(firsts \X {0, 1})
  <2> DEFINE home == [c \in clock |-> CHOOSE t \in S : c = (t + o) \div EvalBucket]
             first == [c \in clock |-> CHOOSE u \in firsts : own(u) = own(home[c])]
             f == [c \in clock |-> <<first[c], c - own(home[c])>>]
  <2>1. \A c \in clock : home[c] \in S /\ c = (home[c] + o) \div EvalBucket
    BY DEF clock
  <2> HIDE DEF home
  <2>2. \A c \in clock : first[c] \in firsts /\ own(first[c]) = own(home[c])
    BY <1>2, <2>1
  <2> HIDE DEF first
  <2>3. \A c \in clock : /\ c \in Nat /\ own(home[c]) \in Nat
                         /\ c - own(home[c]) \in {0, 1}
    BY <1>3, <2>1
  <2> HIDE DEF own
  <2>4. \A c \in clock : f[c] = <<first[c], c - own(home[c])>> /\ f[c] \in firsts \X {0, 1}
    BY <2>2, <2>3
  <2>5. \A c, d \in clock : f[c] = f[d] => c = d
    <3> SUFFICES ASSUME NEW c \in clock, NEW d \in clock, f[c] = f[d] PROVE c = d
      OBVIOUS
    <3>1. first[c] = first[d] /\ c - own(home[c]) = d - own(home[d])
      BY <2>4
    <3>2. own(home[c]) = own(home[d])
      BY <2>2, <3>1
    <3> QED BY <2>3, <3>1, <3>2
  <2>6. f \in [clock -> firsts \X {0, 1}]
    BY <2>4
  <2> HIDE DEF f
  <2>7. f \in Injection(clock, firsts \X {0, 1})
    BY <2>5, <2>6 DEF Injection, IsInjective
  <2>8. IsFiniteSet(firsts \X {0, 1})
    BY <1>4, <1>5, FS_Product
  <2> QED BY <2>7, <2>8, FS_Injection
<1>9. Cardinality(firsts) <= Cardinality(clock \X {0, 1})
  <2> DEFINE at(t) == (t + o) \div EvalBucket
             f == [t \in firsts |-> <<at(t), at(t) - own(t)>>]
  <2>1. \A t \in firsts : at(t) \in clock /\ at(t) \in Nat /\ own(t) \in Nat
                          /\ at(t) - own(t) \in {0, 1}
    BY <1>1, <1>3 DEF clock
  <2> HIDE DEF at, own
  <2>2. \A t \in firsts : f[t] = <<at(t), at(t) - own(t)>> /\ f[t] \in clock \X {0, 1}
    BY <2>1
  <2>3. \A t, u \in firsts : f[t] = f[u] => t = u
    <3> SUFFICES ASSUME NEW t \in firsts, NEW u \in firsts, f[t] = f[u] PROVE t = u
      OBVIOUS
    <3>1. at(t) = at(u) /\ at(t) - own(t) = at(u) - own(u)
      BY <2>2
    <3>2. own(t) = own(u)
      BY <2>1, <3>1
    <3> QED BY <1>1, <3>2
  <2>4. f \in [firsts -> clock \X {0, 1}]
    BY <2>2
  <2> HIDE DEF f
  <2>5. f \in Injection(firsts, clock \X {0, 1})
    BY <2>3, <2>4 DEF Injection, IsInjective
  <2>6. IsFiniteSet(clock \X {0, 1})
    BY <1>5, <1>6, FS_Product
  <2> QED BY <2>5, <2>6, FS_Injection
<1>10. Cardinality(firsts \X {0, 1}) = Cardinality(firsts) * 2
  BY <1>4, <1>5, FS_Product
<1>11. Cardinality(clock \X {0, 1}) = Cardinality(clock) * 2
  BY <1>5, <1>6, FS_Product
<1>12. Cardinality(clock) <= 2 * Cardinality(firsts)
       /\ Cardinality(firsts) <= 2 * Cardinality(clock)
  BY <1>4, <1>6, <1>8, <1>9, <1>10, <1>11
<1> QED BY <1>4, <1>6, <1>7, <1>12 DEF firsts

\* Nothing is scored.
LEMMA SweepStarts == Sweep!Init => SweepInv
<1> SUFFICES ASSUME Sweep!Init PROVE SweepInv
  OBVIOUS
<1>1. sweep = <<>> /\ detections = <<>> /\ chosen = 0
  BY DEF Sweep!Init
<1>2. sweep \in Seq({}) /\ Len(sweep) = 0 /\ Len(detections) = 0
      /\ detections \in Seq(SUBSET Sweep!Tick)
  BY <1>1
<1> QED BY <1>1, <1>2, SweepConstants DEF SweepInv

\* One more setting is scored.
LEMMA ScoreKeeps == SweepInv /\ Sweep!Score => SweepInv'
<1> SUFFICES ASSUME SweepInv, Sweep!Score PROVE SweepInv'
  OBVIOUS
<1>1. PICK caught \in {Sweep!Fired(over, masked) : over, masked \in SUBSET Sweep!Tick} :
        /\ sweep' = Append(sweep, Sweep!summarize(caught))
        /\ detections' = Append(detections, caught)
  BY DEF Sweep!Score
<1> DEFINE n == Len(sweep)
           new == Sweep!summarize(caught)
<1>2. /\ n \in Nat /\ n < Settings /\ Len(detections) = n /\ Settings \in Nat
      /\ events' = events /\ chosen' = 0
  BY SweepConstants DEF SweepInv, Sweep!Score
<1>3. caught \in SUBSET Sweep!Tick
  BY DEF Sweep!Fired
<1>4. new.dedup = Cardinality(Sweep!bucket_dedup(Sweep!Outside(caught)))
  BY SweepCardinality DEF Sweep!summarize
<1>5. PICK S : sweep \in Seq(S)
  BY DEF SweepInv
<1> DEFINE T == S \cup {new}
<1> HIDE DEF new
<1>6. /\ sweep' \in Seq(T) /\ Len(sweep') = n + 1
      /\ \A i \in 1..n : sweep'[i] = sweep[i]
      /\ sweep'[n + 1] = new
  <2>1. sweep \in Seq(T)
    BY <1>5
  <2>2. new \in T /\ sweep' = Append(sweep, new)
    BY <1>1 DEF new
  <2> HIDE DEF T
  <2> QED BY <2>1, <2>2
<1>7. /\ detections' \in Seq(SUBSET Sweep!Tick) /\ Len(detections') = n + 1
      /\ \A i \in 1..n : detections'[i] = detections[i]
      /\ detections'[n + 1] = caught
  <2>1. detections \in Seq(SUBSET Sweep!Tick)
    BY DEF SweepInv
  <2> QED BY <1>1, <1>2, <1>3, <2>1
<1>8. \A ticked : Sweep!Outside(ticked)' = Sweep!Outside(ticked)
  BY <1>2 DEF Sweep!Outside
<1> HIDE DEF n
<1>9. ASSUME NEW i \in 1..(n + 1)
      PROVE  sweep'[i].dedup
               = Cardinality(Sweep!bucket_dedup(Sweep!Outside(detections[i])))'
  <2> DEFINE of(x) == Cardinality(Sweep!bucket_dedup({t \in x : \A e \in events : t < e.from \/ e.to < t}))
  <2>1. \A x : Cardinality(Sweep!bucket_dedup(Sweep!Outside(x))) = of(x)
    BY DEF Sweep!Outside
  <2>2. Cardinality(Sweep!bucket_dedup(Sweep!Outside(detections[i])))' = of(detections'[i])
    BY <1>2 DEF Sweep!Outside, Sweep!bucket_dedup
  <2> HIDE DEF of
  <2>3. CASE i \in 1..n
    <3>1. sweep[i].dedup = Cardinality(Sweep!bucket_dedup(Sweep!Outside(detections[i])))
      BY <2>3 DEF SweepInv, n
    <3>2. sweep[i].dedup = of(detections[i])
      BY <2>1, <3>1
    <3> QED BY <1>6, <1>7, <2>2, <2>3, <3>2
  <2>4. CASE i = n + 1
    <3>1. sweep'[i].dedup = of(caught)
      BY <1>4, <1>6, <2>1, <2>4
    <3> QED BY <1>7, <2>2, <2>4, <3>1
  <2> QED BY <1>2, <2>3, <2>4
<1>10. n + 1 <= Settings /\ Sweep!Tick' = Sweep!Tick
  BY <1>2 DEF Sweep!Tick
<1> QED BY <1>2, <1>6, <1>7, <1>9, <1>10 DEF SweepInv

\* Scoring and choosing keep the metrics of every setting.
LEMMA SweepStep == SweepInv /\ [Sweep!Next]_(Sweep!vars) => SweepInv'
<1> SUFFICES ASSUME SweepInv, [Sweep!Next]_(Sweep!vars) PROVE SweepInv'
  OBVIOUS
<1>1. ASSUME UNCHANGED <<events, sweep, detections>>, NEW i
      PROVE  /\ Sweep!operating_point' = Sweep!operating_point /\ Sweep!Tick' = Sweep!Tick
             /\ Sweep!Outside(detections[i])' = Sweep!Outside(detections[i])
  BY <1>1 DEF Sweep!operating_point, Sweep!Pool, Sweep!Eligible, Sweep!Preferred,
    Sweep!Outside, Sweep!Tick
<1>2. CASE UNCHANGED Sweep!vars
  <2>1. UNCHANGED <<events, sweep, detections, chosen>>
    BY <1>2 DEF Sweep!vars
  <2> QED BY <1>1, <2>1 DEF SweepInv, Sweep!bucket_dedup
<1>3. CASE Sweep!Choose
  <2>1. /\ chosen' \in Sweep!operating_point /\ Len(sweep) = Settings
        /\ UNCHANGED <<events, sweep, detections>>
    BY <1>3 DEF Sweep!Choose
  <2>2. chosen' \in Sweep!operating_point' /\ Len(sweep)' = Settings /\ Sweep!Tick' = Sweep!Tick
    BY <1>1, <2>1
  <2>3. \A i \in 1..Len(sweep) :
          Cardinality(Sweep!bucket_dedup(Sweep!Outside(detections[i])))'
            = Cardinality(Sweep!bucket_dedup(Sweep!Outside(detections[i])))
    BY <1>1, <2>1 DEF Sweep!bucket_dedup
  <2>4. \A i \in 1..Len(sweep)' :
          sweep'[i].dedup = Cardinality(Sweep!bucket_dedup(Sweep!Outside(detections[i])))'
    BY <2>1, <2>3 DEF SweepInv
  <2> QED BY <2>1, <2>2, <2>4 DEF SweepInv
<1>4. CASE Sweep!Score
  BY <1>4, ScoreKeeps
<1> QED BY <1>2, <1>3, <1>4 DEF Sweep!Next

\* The metrics give the property, bucket by bucket.
LEMMA SweepHonest == SweepInv => Sweep!BudgetBoundsNotices
<1> SUFFICES ASSUME SweepInv PROVE Sweep!BudgetBoundsNotices
  OBVIOUS
<1>1. DOMAIN sweep = 1..Len(sweep) /\ Budget \in Nat
  BY SweepConstants DEF SweepInv
<1>2. ASSUME NEW i \in DOMAIN sweep, NEW o \in 0..EvalBucket - 1
      PROVE  LET notices == Sweep!Notices(Sweep!Outside(detections[i]), o)
             IN /\ sweep[i].dedup \in Nat /\ notices \in Nat
                /\ notices <= 2 * sweep[i].dedup
                /\ sweep[i].dedup <= 2 * notices
  <2>1. detections[i] \in SUBSET Sweep!Tick
    BY <1>1, <1>2 DEF SweepInv
  <2>2. Sweep!Outside(detections[i]) \in SUBSET Sweep!Tick
    BY <2>1 DEF Sweep!Outside
  <2>3. sweep[i].dedup = Cardinality(Sweep!bucket_dedup(Sweep!Outside(detections[i])))
    BY <1>1, <1>2 DEF SweepInv
  <2> QED BY <2>2, <2>3, TwiceAtMost
<1>3. ASSUME chosen # 0
      PROVE  IF Sweep!Eligible # {}
             THEN /\ \A o \in 0..EvalBucket - 1 :
                       Sweep!Notices(Sweep!Outside(detections[chosen]), o) <= 2 * Budget
                  /\ \A i \in Sweep!Eligible : ~Sweep!Preferred(i, chosen)
             ELSE \A i \in DOMAIN sweep : sweep[chosen].dedup <= sweep[i].dedup
  <2>1. chosen \in Sweep!Pool /\ \A j \in Sweep!Pool : ~Sweep!Preferred(j, chosen)
    BY <1>3 DEF SweepInv, Sweep!operating_point
  <2>2. CASE Sweep!Eligible # {}
    <3>1. Sweep!Pool = Sweep!Eligible
      BY <2>2 DEF Sweep!Pool
    <3>2. chosen \in DOMAIN sweep /\ sweep[chosen].dedup <= Budget
      BY <2>1, <3>1 DEF Sweep!Eligible
    <3>3. ASSUME NEW o \in 0..EvalBucket - 1
          PROVE  Sweep!Notices(Sweep!Outside(detections[chosen]), o) <= 2 * Budget
      <4> DEFINE notices == Sweep!Notices(Sweep!Outside(detections[chosen]), o)
      <4>1. /\ sweep[chosen].dedup \in Nat /\ notices \in Nat
            /\ notices <= 2 * sweep[chosen].dedup
        BY <1>2, <3>2
      <4> HIDE DEF notices
      <4>2. notices <= 2 * Budget
        BY <1>1, <3>2, <4>1
      <4> QED BY <4>2 DEF notices
    <3> QED BY <2>1, <2>2, <3>1, <3>3
  <2>3. CASE Sweep!Eligible = {}
    BY <2>1, <2>3 DEF Sweep!Pool
  <2> QED BY <2>2, <2>3
<1> QED BY <1>2, <1>3 DEF Sweep!BudgetBoundsNotices

\* The false alarms a setting is judged by stand for its notifications, and the
\* chosen setting keeps twice the budget in them, for every segment, mask,
\* bucket and number of settings (evaluation.py:77-90, 186-206).
THEOREM BudgetAlwaysBounds == ServicesSpec => []BudgetBoundsNotices
<1> DEFINE I == subject = "evaluation" => SweepInv
<1>1. ServicesInit => I
  BY SweepStarts DEF ServicesInit
<1>2. I /\ [ServicesNext]_servicesVars => I'
  BY SubjectStep, SweepStep
<1>3. I => BudgetBoundsNotices
  BY SweepHonest DEF BudgetBoundsNotices
<1> QED BY <1>1, <1>2, <1>3, PTL DEF ServicesSpec

-----------------------------------------------------------------------------
(* Pages of events.                                                        *)

\* A row of the table.
PageRow == [at : Nat, id : Nat, code : PageCode]

\* Rows are numbered.
RowsInv ==
  /\ rows \in SUBSET PageRow /\ IsFiniteSet(rows)
  /\ \A r \in rows : r.id \in 1..Cardinality(rows)
  /\ \A r, s \in rows : r.id = s.id => r = s

\* What was expected and has not been shown lies behind the cursor, which is the
\* item shown last.
CursorInv ==
  IF last.more
  THEN IF delivered = <<>> THEN before = Pages!None
       ELSE /\ before = Pages!Cursor(delivered[Len(delivered)])
            /\ last.size = Pages!PageSize /\ Pages!Behind(before) # {}
            /\ \A r \in expected : r \in Pages!Behind(before) \/ \E i \in DOMAIN delivered : delivered[i] = r
  ELSE \A r \in expected : \E i \in DOMAIN delivered : delivered[i] = r

\* A summary counts no more rows than the window, and none that is not there.
SummaryInv ==
  /\ summary \in [PageCode -> Nat] /\ Pages!Total(summary) <= SummaryWindow
  /\ \A c \in PageCode : summary[c] <= Pages!Counts(rows)[c]

\* The pages shown are in order, and lack nothing before the cursor.
PagesInv ==
  /\ RowsInv
  /\ limit \in Nat
  /\ delivered \in Seq(rows) /\ Pages!InOrder(delivered)
  /\ CursorInv
  /\ SummaryInv

\* The library's cardinality is the one of the theorems about finite sets.
LEMMA PagesCardinality == ASSUME NEW S PROVE Pages!Cardinality(S) = Cardinality(S)
BY DEF Pages!Cardinality, Cardinality

\* What is assumed of the constants.
LEMMA PagesConstants == SummaryWindow \in Nat \ {0} /\ MaxPage \in Nat \ {0} /\ PageTime \in Nat
BY ServicesAssumption DEF Pages!PagesAssumption

\* Newer orders the rows.
LEMMA NewerOrders ==
  ASSUME RowsInv
  PROVE  /\ \A r \in rows : ~Pages!Newer(r, r)
         /\ \A r, s \in rows : r # s => Pages!Newer(r, s) \/ Pages!Newer(s, r)
         /\ \A r, s, t \in rows : Pages!Newer(r, s) /\ Pages!Newer(s, t) => Pages!Newer(r, t)
         /\ \A r, s \in rows : ~(Pages!Newer(r, s) /\ Pages!Newer(s, r))
<1>1. \A r \in rows : r.at \in Nat /\ r.id \in Nat
  BY DEF RowsInv, PageRow
<1>2. \A r, s \in rows : r # s => r.id # s.id
  BY DEF RowsInv
<1> QED BY <1>1, <1>2 DEF Pages!Newer

\* A cursor compares like the row it was taken from, and is no empty cursor.
LEMMA CursorCompares ==
  ASSUME NEW r \in PageRow
  PROVE  /\ \A s : Pages!Newer(Pages!Cursor(r), s) <=> Pages!Newer(r, s)
         /\ Pages!Cursor(r) # Pages!None
<1>1. Pages!Cursor(r).at = r.at /\ Pages!Cursor(r).id = r.id
  BY DEF Pages!Cursor
<1>2. r.at # -1 /\ Pages!None.at = -1
  BY DEF PageRow, Pages!None
<1> QED BY <1>1, <1>2 DEF Pages!Newer

\* The latest rows are no more than the window.
LEMMA LatestFew ==
  ASSUME RowsInv
  PROVE  /\ Pages!Latest \subseteq rows /\ IsFiniteSet(Pages!Latest)
         /\ Cardinality(Pages!Latest) <= SummaryWindow
<1> DEFINE newer(r) == {s \in rows : Pages!Newer(s, r)}
           latest == Pages!Latest
           rank == [r \in latest |-> Cardinality(newer(r))]
<1>1. /\ IsFiniteSet(rows) /\ SummaryWindow \in Nat \ {0}
      /\ latest = {r \in rows : Cardinality(newer(r)) < SummaryWindow}
  BY PagesConstants, PagesCardinality DEF RowsInv, Pages!Latest
<1>2. latest \subseteq rows /\ IsFiniteSet(latest)
  BY <1>1, FS_Subset
<1>3. ASSUME NEW r \in rows, NEW s \in rows, Pages!Newer(r, s)
      PROVE  Cardinality(newer(r)) < Cardinality(newer(s))
  <2>1. newer(r) \subseteq newer(s) /\ r \in newer(s) /\ r \notin newer(r)
    BY <1>3, NewerOrders
  <2>2. IsFiniteSet(newer(s)) /\ newer(r) # newer(s)
    BY <1>1, <2>1, FS_Subset
  <2> DEFINE a == newer(r)
             b == newer(s)
  <2> HIDE DEF a, b
  <2>3. a \subseteq b /\ IsFiniteSet(b) /\ a # b
    BY <2>1, <2>2 DEF a, b
  <2>4. Cardinality(a) < Cardinality(b)
    BY <2>3, FS_Subset, FS_CardinalityType
  <2> QED BY <2>4 DEF a, b
<1>4. \A r \in rows : Cardinality(newer(r)) \in Nat
  <2> TAKE r \in rows
  <2>1. newer(r) \subseteq rows
    OBVIOUS
  <2> HIDE DEF newer
  <2> QED BY <1>1, <2>1, FS_Subset, FS_CardinalityType
<1> HIDE DEF newer, latest
<1>5. \A r \in latest : rank[r] = Cardinality(newer(r)) /\ rank[r] \in 0..(SummaryWindow - 1)
  BY <1>1, <1>4
<1>6. ASSUME NEW r \in latest, NEW s \in latest, rank[r] = rank[s] PROVE r = s
  <2>1. ~Pages!Newer(r, s) /\ ~Pages!Newer(s, r)
    BY <1>2, <1>3, <1>4, <1>5, <1>6
  <2> QED BY <1>2, <2>1, NewerOrders
<1>7. rank \in [latest -> 0..(SummaryWindow - 1)]
  BY <1>5
<1> HIDE DEF rank
<1>8. rank \in Injection(latest, 0..(SummaryWindow - 1))
  BY <1>6, <1>7 DEF Injection, IsInjective
<1>9. /\ IsFiniteSet(0..(SummaryWindow - 1)) /\ Cardinality(0..(SummaryWindow - 1)) = SummaryWindow
  BY <1>1, FS_Interval
<1>10. Cardinality(latest) <= SummaryWindow
  BY <1>8, <1>9, FS_Injection
<1> QED BY <1>2, <1>10 DEF latest

\* Nothing is shown.
LEMMA PagesStarts == Pages!Init => PagesInv
<1> SUFFICES ASSUME Pages!Init PROVE PagesInv
  OBVIOUS
<1>1. /\ rows = {} /\ limit \in 0..(MaxPage + 1) /\ summary = Pages!Unread
      /\ before = Pages!None /\ expected = {} /\ delivered = <<>> /\ last.more
  BY DEF Pages!Init
<1>2. RowsInv
  BY <1>1, FS_EmptySet DEF RowsInv
<1>3. limit \in Nat
  BY <1>1, PagesConstants
<1>4. delivered \in Seq(rows) /\ Pages!InOrder(delivered)
  BY <1>1 DEF Pages!InOrder
<1>5. CursorInv
  BY <1>1 DEF CursorInv
<1>6. /\ summary \in [PageCode -> Nat] /\ \A c \in PageCode : summary[c] = 0
      /\ DOMAIN summary = PageCode
  BY <1>1 DEF Pages!Unread
<1>7. Pages!Total(summary) = 0
  <2>1. \A c \in PageCode : {<<c, n>> : n \in 1..summary[c]} = {}
    BY <1>6
  <2>2. UNION {{<<c, n>> : n \in 1..summary[c]} : c \in DOMAIN summary} = {}
    BY <1>6, <2>1
  <2> QED BY <2>2, PagesCardinality, FS_EmptySet DEF Pages!Total
<1>8. \A c \in PageCode : Pages!Counts(rows)[c] = 0
  <2> TAKE c \in PageCode
  <2>1. {r \in rows : r.code = c} = {}
    BY <1>1
  <2> QED BY <2>1, PagesCardinality, FS_EmptySet DEF Pages!Counts
<1>9. SummaryInv
  BY <1>6, <1>7, <1>8, PagesConstants DEF SummaryInv
<1> QED BY <1>2, <1>3, <1>4, <1>5, <1>9 DEF PagesInv

\* A row that commits is behind the cursor or not: nothing else changes.
LEMMA InsertRowKeeps ==
  ASSUME PagesInv, Pages!Insert
  PROVE  PagesInv'
<1>1. UNCHANGED <<limit, wanted, summary, before, expected, delivered, last>>
  BY DEF Pages!Insert
<1>2. PICK at \in 0..PageTime, kind \in PageCode :
        rows' = rows \cup {[at |-> at, id |-> Cardinality(rows) + 1, code |-> kind]}
  BY PagesCardinality DEF Pages!Insert
<1> DEFINE new == [at |-> at, id |-> Cardinality(rows) + 1, code |-> kind]
           n == Cardinality(rows)
<1>3. IsFiniteSet(rows) /\ n \in Nat
  BY FS_CardinalityType DEF PagesInv, RowsInv
<1>4. new \in PageRow /\ new.id = n + 1
  BY <1>3, PagesConstants DEF PageRow
<1>5. \A r \in rows : r \in PageRow /\ r.id \in 1..n
  BY DEF PagesInv, RowsInv
<1>6. rows' = rows \cup {new}
  BY <1>2
<1> HIDE DEF new, n
<1>7. new \notin rows
  BY <1>3, <1>4, <1>5
<1>8. IsFiniteSet(rows') /\ Cardinality(rows') = n + 1
  BY <1>3, <1>6, <1>7, FS_AddElement DEF n
<1>9. RowsInv'
  <2>1. rows' \in SUBSET PageRow
    BY <1>4, <1>5, <1>6
  <2>2. \A r \in rows' : r.id \in 1..(n + 1)
    BY <1>3, <1>4, <1>5, <1>6
  <2>3. \A r, s \in rows' : r.id = s.id => r = s
    <3>1. \A r \in rows : r.id # n + 1
      BY <1>3, <1>5
    <3> QED BY <1>4, <1>6, <3>1 DEF PagesInv, RowsInv
  <2> QED BY <1>8, <2>1, <2>2, <2>3 DEF RowsInv, PageRow
<1>10. delivered' \in Seq(rows') /\ Pages!InOrder(delivered)'
  <2>1. delivered \in Seq(rows) /\ rows \subseteq rows'
    BY <1>6 DEF PagesInv
  <2>2. Pages!InOrder(delivered)' = Pages!InOrder(delivered)
    BY <1>1 DEF Pages!InOrder, Pages!Newer
  <2> QED BY <1>1, <2>1, <2>2 DEF PagesInv
<1>11. Pages!Behind(before) \subseteq Pages!Behind(before)'
  BY <1>1, <1>6 DEF Pages!Behind, Pages!Matching, Pages!Newer, Pages!None
<1>12. CursorInv'
  <2>1. Pages!PageSize' = Pages!PageSize /\ Pages!None' = Pages!None
    BY <1>1 DEF Pages!PageSize, Pages!None
  <2>2. Pages!Cursor(delivered[Len(delivered)])' = Pages!Cursor(delivered[Len(delivered)])
    BY <1>1 DEF Pages!Cursor
  <2> DEFINE later == Pages!Behind(before)'
             earlier == Pages!Behind(before)
  <2>3. earlier # {} => later # {}
    BY <1>11
  <2> HIDE DEF later, earlier
  <2> QED BY <1>1, <1>11, <2>1, <2>2, <2>3 DEF CursorInv, PagesInv, later, earlier
<1>13. SummaryInv'
  <2>1. ASSUME NEW c \in PageCode
        PROVE  Pages!Counts(rows)[c] <= Pages!Counts(rows')[c]
               /\ Pages!Counts(rows)[c] \in Nat /\ Pages!Counts(rows')[c] \in Nat
    <3> DEFINE a == {r \in rows : r.code = c}
               b == {r \in rows' : r.code = c}
    <3>1. a \subseteq b /\ b \subseteq rows'
      BY <1>6
    <3>2. Pages!Counts(rows)[c] = Cardinality(a) /\ Pages!Counts(rows')[c] = Cardinality(b)
      BY PagesCardinality DEF Pages!Counts
    <3> HIDE DEF a, b
    <3>3. IsFiniteSet(b) /\ IsFiniteSet(a)
      BY <1>8, <3>1, FS_Subset
    <3> QED BY <3>1, <3>2, <3>3, FS_Subset, FS_CardinalityType
  <2>2. SummaryInv' =
          (/\ summary' \in [PageCode -> Nat] /\ Pages!Total(summary') <= SummaryWindow
           /\ \A c \in PageCode : summary'[c] <= Pages!Counts(rows')[c])
    BY DEF SummaryInv, Pages!Total, Pages!Counts, Pages!Cardinality
  <2>3. /\ summary \in [PageCode -> Nat] /\ Pages!Total(summary) <= SummaryWindow
        /\ \A c \in PageCode : summary[c] <= Pages!Counts(rows)[c]
    BY DEF PagesInv, SummaryInv
  <2>4. \A c \in PageCode : summary[c] <= Pages!Counts(rows')[c]
    BY <2>1, <2>3
  <2> QED BY <1>1, <2>2, <2>3, <2>4
<1>14. limit' \in Nat
  BY <1>1 DEF PagesInv
<1> QED BY <1>9, <1>10, <1>12, <1>13, <1>14 DEF PagesInv

\* A summary counts every row of the latest once.
LEMMA SummarizeRowsKeeps ==
  ASSUME PagesInv, Pages!Summarize
  PROVE  PagesInv'
<1>1. /\ UNCHANGED <<rows, limit, wanted, before, expected, delivered, last>>
      /\ summary' = Pages!Counts(Pages!Latest)
  BY DEF Pages!Summarize
<1> DEFINE latest == Pages!Latest
           count == Pages!Counts(latest)
           codes == [r \in latest |-> r.code]
<1>2. latest \subseteq rows /\ IsFiniteSet(latest) /\ Cardinality(latest) <= SummaryWindow
  BY LatestFew DEF PagesInv
<1> HIDE DEF latest
<1>3. codes \in [latest -> PageCode] /\ \A r \in latest : codes[r] = r.code
  BY <1>2 DEF PagesInv, RowsInv, PageRow
<1>4. /\ DOMAIN count = PageCode
      /\ \A c \in PageCode : count[c] = Cardinality({r \in latest : r.code = c})
  BY PagesCardinality DEF Pages!Counts
<1> HIDE DEF codes, count
<1>5. \A c \in PageCode : {r \in latest : r.code = c} = {r \in latest : codes[r] = c}
  BY <1>3
<1>6. \A c \in PageCode : count[c] = Cardinality({r \in latest : codes[r] = c})
  BY <1>4, <1>5
<1>7. Pages!Total(count) = Cardinality(latest)
  <2>1. Cardinality(UNION {{<<x, n>> : n \in 1..count[x]} : x \in DOMAIN count}) = Cardinality(latest)
    BY <1>2, <1>3, <1>4, <1>6, TotalOfKeyed
  <2> QED BY <2>1, PagesCardinality DEF Pages!Total
<1>8. ASSUME NEW c \in PageCode
      PROVE  count[c] \in Nat /\ count[c] <= Pages!Counts(rows)[c]
  <2> DEFINE a == {r \in latest : r.code = c}
             b == {r \in rows : r.code = c}
  <2>1. a \subseteq b /\ b \subseteq rows /\ IsFiniteSet(rows)
    BY <1>2 DEF PagesInv, RowsInv
  <2>2. count[c] = Cardinality(a) /\ Pages!Counts(rows)[c] = Cardinality(b)
    BY <1>4, PagesCardinality DEF Pages!Counts
  <2> HIDE DEF a, b
  <2>3. IsFiniteSet(b) /\ IsFiniteSet(a)
    BY <2>1, FS_Subset
  <2> QED BY <2>1, <2>2, <2>3, FS_Subset, FS_CardinalityType
<1>9. count \in [PageCode -> Nat]
  <2>1. count = [c \in PageCode |-> count[c]]
    BY DEF count, Pages!Counts
  <2> QED BY <1>8, <2>1
<1>10. SummaryInv'
  <2>1. SummaryInv' =
          (/\ summary' \in [PageCode -> Nat] /\ Pages!Total(summary') <= SummaryWindow
           /\ \A c \in PageCode : summary'[c] <= Pages!Counts(rows')[c])
    BY DEF SummaryInv, Pages!Total, Pages!Counts, Pages!Cardinality
  <2>2. summary' = count
    BY <1>1 DEF count, latest
  <2> QED BY <1>1, <1>2, <1>7, <1>8, <1>9, <2>1, <2>2
<1>11. RowsInv'
  BY <1>1 DEF PagesInv, RowsInv, PageRow
<1>12. CursorInv'
  BY <1>1 DEF PagesInv, CursorInv, Pages!None, Pages!Cursor, Pages!PageSize, Pages!Behind,
    Pages!Matching, Pages!Newer
<1>13. limit' \in Nat /\ delivered' \in Seq(rows') /\ Pages!InOrder(delivered)'
  BY <1>1 DEF PagesInv, Pages!InOrder, Pages!Newer
<1> QED BY <1>10, <1>11, <1>12, <1>13 DEF PagesInv

\* A page goes on behind the cursor, in order, and shows all of what it leaves
\* no cursor for.
LEMMA ReadPageKeeps ==
  ASSUME PagesInv, Pages!ReadPage
  PROVE  PagesInv'
<1> DEFINE rest == Pages!Behind(before)
           size == Pages!PageSize
           most == size + 1
           k == IF Cardinality(rest) < most THEN Cardinality(rest) ELSE most
<1>1. /\ last.more /\ UNCHANGED <<rows, limit, wanted, summary>>
      /\ expected' = IF delivered = <<>> THEN Pages!Behind(Pages!None) ELSE expected
  BY DEF Pages!ReadPage
<1>2. PICK fetched \in Pages!Fetched :
        IF Len(fetched) > size THEN Pages!Show(SubSeq(fetched, 1, size), TRUE)
        ELSE Pages!Show(fetched, FALSE)
  BY DEF Pages!ReadPage
<1>3. /\ fetched \in [1..k -> rest] /\ Pages!InOrder(fetched)
      /\ \A r \in rest \ Pages!Range(fetched), i \in DOMAIN fetched : Pages!Newer(fetched[i], r)
  BY PagesCardinality DEF Pages!Fetched, Pages!Answers
<1>4. size \in Nat \ {0}
  BY PagesConstants DEF PagesInv, Pages!PageSize
<1>5. rest \subseteq rows /\ IsFiniteSet(rest) /\ Cardinality(rest) \in Nat
  <2>1. rest \subseteq rows
    BY DEF Pages!Behind, Pages!Matching
  <2>2. IsFiniteSet(rest)
    BY <2>1, FS_Subset DEF PagesInv, RowsInv
  <2> QED BY <2>1, <2>2, FS_CardinalityType
<1>6. k \in Nat /\ (k = size + 1 \/ (k = Cardinality(rest) /\ k <= size))
  <2> HIDE DEF rest, size
  <2> QED BY <1>4, <1>5
<1>7. rows \subseteq PageRow /\ delivered \in Seq(rows) /\ Pages!InOrder(delivered)
  BY DEF PagesInv, RowsInv
\* Everything expected was shown or is still to come.
<1>8. \A r \in expected' : r \in rest \/ \E i \in DOMAIN delivered : delivered[i] = r
  BY <1>1 DEF PagesInv, CursorInv
\* What is still to come is older than everything shown.
<1>9. ASSUME NEW r \in rest, NEW i \in DOMAIN delivered PROVE Pages!Newer(delivered[i], r)
  <2> DEFINE end == delivered[Len(delivered)]
  <2>1. delivered # <<>> /\ Len(delivered) \in DOMAIN delivered /\ i <= Len(delivered)
        /\ i \in Nat /\ Len(delivered) \in Nat
    BY <1>7
  <2>2. end \in rows /\ delivered[i] \in rows /\ r \in rows
    BY <1>5, <1>7, <2>1
  <2>3. before = Pages!Cursor(end) /\ before # Pages!None
    BY <1>1, <1>7, <2>1, <2>2, CursorCompares DEF PagesInv, CursorInv
  <2>4. Pages!Newer(end, r)
    BY <1>7, <2>2, <2>3, CursorCompares DEF Pages!Behind
  <2>5. i # Len(delivered) => Pages!Newer(delivered[i], end)
    BY <1>7, <2>1 DEF Pages!InOrder
  <2> HIDE DEF end
  <2>6. i = Len(delivered) => delivered[i] = end
    BY DEF end
  <2> QED BY <2>2, <2>4, <2>5, <2>6, NewerOrders DEF PagesInv
<1> HIDE DEF rest, size
\* The items of a page follow what was shown.
<1>10. ASSUME NEW items \in Seq(rest), delivered' = delivered \o items,
              \A i, j \in DOMAIN items : i < j => Pages!Newer(items[i], items[j])
       PROVE  /\ delivered' \in Seq(rows')
              /\ \A i \in DOMAIN delivered : i \in DOMAIN delivered' /\ delivered'[i] = delivered[i]
              /\ \A i \in DOMAIN items : /\ Len(delivered) + i \in DOMAIN delivered'
                                         /\ delivered'[Len(delivered) + i] = items[i]
              /\ Len(delivered') = Len(delivered) + Len(items)
              /\ \A i, j \in DOMAIN delivered' : i < j => Pages!Newer(delivered'[i], delivered'[j])
  <2> DEFINE d == Len(delivered)
             m == Len(items)
  <2>1. /\ d \in Nat /\ m \in Nat /\ DOMAIN delivered = 1..d /\ DOMAIN items = 1..m
        /\ items \in Seq(rows) /\ rows' = rows
    BY <1>1, <1>5, <1>7, <1>10
  <2>2. /\ delivered' \in Seq(rows) /\ Len(delivered') = d + m
        /\ \A i \in 1..(d + m) : delivered'[i] = IF i <= d THEN delivered[i] ELSE items[i - d]
    BY <1>7, <1>10, <2>1
  <2>3. DOMAIN delivered' = 1..(d + m)
    BY <2>1, <2>2
  <2> HIDE DEF d, m
  <2>4. ASSUME NEW i \in 1..(d + m), NEW j \in 1..(d + m), i < j
        PROVE  Pages!Newer(delivered'[i], delivered'[j])
    <3>1. CASE j <= d
      <4>1. i \in 1..d /\ j \in 1..d
        BY <2>1, <2>4, <3>1
      <4>2. Pages!Newer(delivered[i], delivered[j])
        BY <1>7, <2>1, <2>4, <4>1 DEF Pages!InOrder
      <4> QED BY <2>2, <2>1, <4>1, <4>2
    <3>2. CASE i <= d /\ ~(j <= d)
      <4>1. i \in 1..d /\ j - d \in 1..m
        BY <2>1, <2>4, <3>2
      <4>2. items[j - d] \in rest
        BY <1>10, <2>1, <4>1
      <4>3. Pages!Newer(delivered[i], items[j - d])
        BY <1>9, <2>1, <4>1, <4>2
      <4> QED BY <2>2, <3>2, <4>3
    <3>3. CASE ~(i <= d)
      <4>1. i - d \in 1..m /\ j - d \in 1..m /\ i - d < j - d /\ ~(j <= d)
        BY <2>1, <2>4, <3>3
      <4>2. Pages!Newer(items[i - d], items[j - d])
        BY <1>10, <2>1, <4>1
      <4> QED BY <2>2, <3>3, <4>1, <4>2
    <3> QED BY <3>1, <3>2, <3>3
  <2>5. \A i \in 1..d : i \in 1..(d + m) /\ delivered'[i] = delivered[i]
    BY <2>1, <2>2
  <2>6. \A i \in 1..m : d + i \in 1..(d + m) /\ delivered'[d + i] = items[i]
    <3> TAKE i \in 1..m
    <3>1. d + i \in 1..(d + m) /\ ~(d + i <= d) /\ (d + i) - d = i
      BY <2>1
    <3> QED BY <2>2, <3>1
  <2> QED BY <2>1, <2>2, <2>3, <2>4, <2>5, <2>6 DEF d, m
<1>11. \A i, j \in 1..k : i < j => Pages!Newer(fetched[i], fetched[j])
  BY <1>3 DEF Pages!InOrder
<1>12. fetched \in Seq(rest) /\ Len(fetched) = k /\ DOMAIN fetched = 1..k
  BY <1>3, <1>6
<1> HIDE DEF k
<1>13. RowsInv'
  BY <1>1 DEF PagesInv, RowsInv, PageRow
<1>14. SummaryInv'
  <2>1. SummaryInv' = SummaryInv
    BY <1>1 DEF SummaryInv, Pages!Total, Pages!Counts, Pages!Cardinality
  <2> QED BY <2>1 DEF PagesInv
<1>15. Pages!PageSize' = size
  BY <1>1 DEF Pages!PageSize, size
<1>16. CASE k > size
  <2> DEFINE items == SubSeq(fetched, 1, size)
  <2>1. k = size + 1 /\ size \in 1..k /\ size + 1 \in 1..k /\ size < size + 1
    BY <1>4, <1>6, <1>16
  <2>2. items \in Seq(rest) /\ Len(items) = size /\ DOMAIN items = 1..size
        /\ \A i \in 1..size : items[i] = fetched[i]
    BY <1>4, <1>12, <2>1
  <2>3. Pages!Show(items, TRUE)
    BY <1>2, <1>12, <1>16
  <2> HIDE DEF items
  <2>4. /\ delivered' = delivered \o items /\ last' = [size |-> size, more |-> TRUE]
        /\ before' = Pages!Cursor(items[size])
    BY <2>2, <2>3 DEF Pages!Show
  <2>5. \A i, j \in DOMAIN items : i < j => Pages!Newer(items[i], items[j])
    <3>1. \A i \in 1..size : i \in 1..k
      BY <1>4, <2>1
    <3> QED BY <1>11, <2>2, <3>1
  <2>6. /\ delivered' \in Seq(rows')
        /\ \A i \in DOMAIN delivered : i \in DOMAIN delivered' /\ delivered'[i] = delivered[i]
        /\ \A i \in 1..size : /\ Len(delivered) + i \in DOMAIN delivered'
                              /\ delivered'[Len(delivered) + i] = items[i]
        /\ Len(delivered') = Len(delivered) + size
        /\ \A i, j \in DOMAIN delivered' : i < j => Pages!Newer(delivered'[i], delivered'[j])
    BY <1>10, <2>2, <2>4, <2>5
  <2> DEFINE end == fetched[size]
             over == fetched[size + 1]
  <2>7. /\ end = items[size] /\ end \in rest /\ over \in rest /\ Pages!Newer(end, over)
        /\ end \in PageRow
    BY <1>4, <1>5, <1>7, <1>11, <1>3, <2>1, <2>2
  <2>8. delivered'[Len(delivered')] = end /\ delivered' # <<>>
    <3>1. size \in 1..size
      BY <1>4
    <3> QED BY <2>6, <2>7, <3>1
  <2> HIDE DEF end, over
  <2>9. \A r \in rest : Pages!Newer(end, r) => r \in Pages!Behind(before)'
    <3> TAKE r \in rest
    <3>1. Pages!Newer(before', r) <=> Pages!Newer(end, r)
      BY <2>4, <2>7, CursorCompares
    <3>2. r \in Pages!Matching'
      BY <1>1 DEF rest, Pages!Behind, Pages!Matching
    <3> QED BY <3>1, <3>2 DEF Pages!Behind, Pages!Newer, Pages!None
  <2>10. \A r \in rest : Pages!Newer(end, r) \/ \E i \in 1..size : fetched[i] = r
    <3> TAKE r \in rest
    <3>1. CASE r \in Pages!Range(fetched)
      <4>1. PICK i \in 1..k : fetched[i] = r
        BY <1>12, <3>1 DEF Pages!Range
      <4>2. i \in 1..size \/ i = size + 1
        BY <1>4, <2>1, <4>1
      <4> QED BY <2>7, <4>1, <4>2 DEF over
    <3>2. CASE r \notin Pages!Range(fetched)
      BY <1>3, <1>12, <2>1, <3>2 DEF end
    <3> QED BY <3>1, <3>2
  <2>11. \A r \in rest : r \in Pages!Behind(before)' \/ \E i \in DOMAIN delivered' : delivered'[i] = r
    BY <2>2, <2>6, <2>9, <2>10
  <2>12. \A r \in expected' : r \in Pages!Behind(before)'
                              \/ \E i \in DOMAIN delivered' : delivered'[i] = r
    BY <1>8, <2>6, <2>11
  <2>13. over \in Pages!Behind(before)'
    BY <2>7, <2>9
  <2>14. before' = Pages!Cursor(delivered'[Len(delivered')])
    BY <2>4, <2>7, <2>8
  <2>15. last'.more /\ last'.size = Pages!PageSize'
    BY <1>15, <2>4
  <2> DEFINE later == Pages!Behind(before)'
  <2>16. later # {} /\ \A r \in expected' : r \in later \/ \E i \in DOMAIN delivered' : delivered'[i] = r
    BY <2>12, <2>13
  <2> HIDE DEF later
  <2>17. CursorInv'
    BY <2>8, <2>14, <2>15, <2>16 DEF CursorInv, Pages!Cursor, later
  <2>18. Pages!InOrder(delivered)'
    BY <2>6 DEF Pages!InOrder, Pages!Newer
  <2> QED BY <1>1, <1>13, <1>14, <2>6, <2>17, <2>18 DEF PagesInv
<1>17. CASE ~(k > size)
  <2>1. Pages!Show(fetched, FALSE)
    BY <1>2, <1>12, <1>17
  <2>2. delivered' = delivered \o fetched /\ ~last'.more
    BY <2>1 DEF Pages!Show
  <2>3. /\ delivered' \in Seq(rows')
        /\ \A i \in DOMAIN delivered : i \in DOMAIN delivered' /\ delivered'[i] = delivered[i]
        /\ \A i \in 1..k : /\ Len(delivered) + i \in DOMAIN delivered'
                           /\ delivered'[Len(delivered) + i] = fetched[i]
        /\ \A i, j \in DOMAIN delivered' : i < j => Pages!Newer(delivered'[i], delivered'[j])
    BY <1>10, <1>11, <1>12, <2>2
  <2>4. \A r \in rest : \E i \in 1..k : fetched[i] = r
    <3>1. k = Cardinality(rest)
      BY <1>4, <1>6, <1>17
    <3>2. \A i, j \in 1..k : fetched[i] = fetched[j] => i = j
      <4>1. ASSUME NEW i \in 1..k, NEW j \in 1..k, fetched[i] = fetched[j] PROVE ~(i < j)
        <5>1. fetched[i] \in rows
          BY <1>3, <1>5, <1>12
        <5> QED BY <1>11, <4>1, <5>1, NewerOrders DEF PagesInv
      <4>2. \A i \in 1..k : i \in Nat
        OBVIOUS
      <4> QED BY <4>1, <4>2
    <3>3. fetched \in Injection(1..k, rest)
      BY <1>3, <1>12, <3>2 DEF Injection, IsInjective, k
    <3>4. Cardinality(1..k) = k
      BY <1>6, FS_Interval
    <3>5. fetched \in Surjection(1..k, rest)
      BY <1>5, <3>1, <3>3, <3>4, FS_Injection
    <3> QED BY <3>5 DEF Surjection
  <2>5. \A r \in expected' : \E i \in DOMAIN delivered' : delivered'[i] = r
    BY <1>8, <2>3, <2>4
  <2>6. CursorInv'
    BY <2>2, <2>5 DEF CursorInv
  <2>7. Pages!InOrder(delivered)'
    BY <2>3 DEF Pages!InOrder, Pages!Newer
  <2> QED BY <1>1, <1>13, <1>14, <2>3, <2>6, <2>7 DEF PagesInv
<1> QED BY <1>16, <1>17

\* Commits, summaries and pages keep the pages complete.
LEMMA PagesStep ==
  ASSUME PagesInv, [Pages!Next]_(Pages!vars)
  PROVE  PagesInv'
<1>1. CASE UNCHANGED Pages!vars
  <2>1. RowsInv' = RowsInv /\ Pages!InOrder(delivered)' = Pages!InOrder(delivered)
    BY <1>1 DEF Pages!vars, RowsInv, PageRow, Pages!InOrder, Pages!Newer
  <2>2. CursorInv' = CursorInv
    BY <1>1 DEF Pages!vars, CursorInv, Pages!None, Pages!Cursor, Pages!PageSize, Pages!Behind,
      Pages!Matching, Pages!Newer
  <2>3. SummaryInv' = SummaryInv
    BY <1>1 DEF Pages!vars, SummaryInv, Pages!Total, Pages!Counts, Pages!Cardinality
  <2> QED BY <1>1, <2>1, <2>2, <2>3 DEF PagesInv, Pages!vars
<1>2. CASE Pages!Insert
  BY <1>2, InsertRowKeeps
<1>3. CASE Pages!Summarize
  BY <1>3, SummarizeRowsKeeps
<1>4. CASE Pages!ReadPage
  BY <1>4, ReadPageKeeps
<1> QED BY <1>1, <1>2, <1>3, <1>4 DEF Pages!Next

\* What the invariant says of the cursor is what the property says of the pages.
LEMMA PagesHonest == PagesInv => Pages!PagesComplete
<1> SUFFICES ASSUME PagesInv PROVE Pages!PagesComplete
  OBVIOUS
<1>1. last.more /\ delivered # <<>> => (last.size = Pages!PageSize /\ Pages!Behind(before) # {})
  BY DEF PagesInv, CursorInv
<1>2. ~last.more => expected \subseteq Pages!Range(delivered)
  BY DEF PagesInv, CursorInv, Pages!Range
<1> QED BY <1>1, <1>2 DEF PagesInv, SummaryInv, Pages!PagesComplete

\* Pages show every row that was there at the first, once and in order, however
\* many rows commit between them; a summary counts the latest alone
\* (telemetry/service.py:248-258, mcp_maintenance/server.py:64-103).
THEOREM PagesAlwaysComplete == ServicesSpec => []PagesComplete
<1> DEFINE I == subject = "pages" => PagesInv
<1>1. ServicesInit => I
  BY PagesStarts DEF ServicesInit
<1>2. I /\ [ServicesNext]_servicesVars => I'
  BY SubjectStep, PagesStep
<1>3. I => PagesComplete
  BY PagesHonest DEF PagesComplete
<1> QED BY <1>1, <1>2, <1>3, PTL DEF ServicesSpec

-----------------------------------------------------------------------------
(* Score fusion.                                                           *)

\* What is returned is the cut of the ranking.
FusionInv ==
  /\ dense \in Fusion!Lists /\ sparse \in Fusion!Lists /\ alpha \in 0..2
  /\ topK \in Nat \ {0}
  /\ fused # Fusion!None => fused \in Fusion!Cut

\* The library's cardinality is the one of the theorems about finite sets.
LEMMA FusionCardinality == ASSUME NEW S PROVE Fusion!Cardinality(S) = Cardinality(S)
BY DEF Fusion!Cardinality, Cardinality

\* What is assumed of the constants.
LEMMA FusionConstants ==
  /\ FusionChunk \subseteq Nat /\ IsFiniteSet(FusionChunk)
  /\ FusionScore \in Nat /\ ScoreUnit \in Nat \ {0}
  /\ \A d \in 1..FusionScore : ScoreUnit % (2 * d) = 0
BY ServicesAssumption DEF Fusion!FusionAssumption, Fusion!IsFiniteSet, IsFiniteSet

\* Nothing is fused.
LEMMA FusionStarts == Fusion!Init => FusionInv
<1> SUFFICES ASSUME Fusion!Init PROVE FusionInv
  OBVIOUS
<1>1. topK \in 1..Cardinality(FusionChunk) /\ Cardinality(FusionChunk) \in Nat
  BY FusionCardinality, FusionConstants, FS_CardinalityType DEF Fusion!Init
<1>2. topK \in Nat \ {0}
  BY <1>1
<1> QED BY <1>2 DEF Fusion!Init, FusionInv

\* What is fused is a cut of lists that do not change.
LEMMA FusionStep == FusionInv /\ [Fusion!Next]_(Fusion!vars) => FusionInv'
<1> SUFFICES ASSUME FusionInv, [Fusion!Next]_(Fusion!vars) PROVE FusionInv'
  OBVIOUS
<1>1. UNCHANGED <<dense, sparse, alpha, topK>>
  BY DEF Fusion!Next, Fusion!Fuse, Fusion!vars
<1>2. /\ Fusion!Lists' = Fusion!Lists /\ Fusion!None' = Fusion!None
  BY DEF Fusion!Lists, Fusion!None
<1>3. Fusion!Cut' = Fusion!Cut
  BY <1>1 DEF Fusion!Cut, Fusion!Found, Fusion!Ranked, Fusion!Listed, Fusion!KeyBefore,
    Fusion!Score, Fusion!Weight, Fusion!Normalized, Fusion!NoList, Fusion!Floor,
    Fusion!Cardinality, Fusion!Range, Fusion!Min, Fusion!Max
<1>4. fused' = fused \/ fused' \in Fusion!Cut
  BY DEF Fusion!Next, Fusion!Fuse, Fusion!vars
<1> QED BY <1>1, <1>2, <1>3, <1>4 DEF FusionInv

\* The lists of candidates.
LEMMA ListTypes ==
  ASSUME NEW list \in Fusion!Lists
  PROVE  /\ DOMAIN list \subseteq FusionChunk /\ list \in [DOMAIN list -> 0..FusionScore]
         /\ \A c \in DOMAIN list : list[c] \in Nat /\ c \in Nat
BY FusionConstants DEF Fusion!Lists

\* The least and the greatest score of a list.
LEMMA ListBounds ==
  ASSUME NEW list \in Fusion!Lists, DOMAIN list # {}
  PROVE  LET low == Fusion!Min({list[x] : x \in DOMAIN list})
             high == Fusion!Max({list[x] : x \in DOMAIN list})
         IN /\ low \in 0..FusionScore /\ high \in 0..FusionScore
            /\ \A x \in DOMAIN list : low <= list[x] /\ list[x] <= high
<1> DEFINE S == {list[x] : x \in DOMAIN list}
           T == {v \in Nat : \A x \in DOMAIN list : list[x] <= v}
<1>0. /\ FusionScore \in Nat /\ S # {}
      /\ \A x \in DOMAIN list : list[x] \in S
      /\ S \subseteq 0..FusionScore
  BY FusionConstants, ListTypes
<1>1. \A v \in S : \E x \in DOMAIN list : v = list[x]
  OBVIOUS
<1> HIDE DEF S
<1>2. PICK low \in S : \A v \in S : low <= v
  <2>1. S \subseteq Nat
    BY <1>0
  <2> QED BY <1>0, <2>1, LeastNatural
<1>3. Fusion!Min(S) \in S /\ \A v \in S : Fusion!Min(S) <= v
  BY <1>2 DEF Fusion!Min
<1> DEFINE Back == {v \in Nat : FusionScore - v \in S}
<1>4. PICK back \in Back : \A v \in Back : back <= v
  <2>1. PICK v \in S : TRUE
    BY <1>0
  <2>2. FusionScore - v \in Nat /\ FusionScore - (FusionScore - v) = v
    BY <1>0
  <2>3. FusionScore - v \in Back
    BY <2>1, <2>2
  <2>4. Back \subseteq Nat
    OBVIOUS
  <2> HIDE DEF Back
  <2> QED BY <2>3, <2>4, LeastNatural
<1>5. \A v \in S : FusionScore - back >= v
  <2> TAKE v \in S
  <2>1. FusionScore - v \in Nat /\ FusionScore - (FusionScore - v) = v /\ v \in Nat
    BY <1>0
  <2>2. FusionScore - v \in Back
    BY <2>1
  <2>3. back <= FusionScore - v /\ back \in Nat
    BY <1>4, <2>2
  <2> QED BY <1>0, <2>1, <2>3
<1>6. FusionScore - back \in S
  BY <1>4
<1>7. Fusion!Max(S) \in S /\ \A v \in S : Fusion!Max(S) >= v
  BY <1>5, <1>6 DEF Fusion!Max
<1>8. \A x \in DOMAIN list : Fusion!Min(S) <= list[x] /\ list[x] <= Fusion!Max(S)
  BY <1>0, <1>3, <1>7
<1> QED BY <1>0, <1>3, <1>7, <1>8 DEF S

\* A difference of scores is worth two units at least.
LEMMA UnitWorth ==
  ASSUME NEW d \in 1..FusionScore
  PROVE  ScoreUnit \div d \in Nat /\ ScoreUnit \div d >= 2
<1>0. /\ d \in Nat \ {0} /\ ScoreUnit \in Nat \ {0} /\ ScoreUnit % (2 * d) = 0
  BY FusionConstants
<1> DEFINE q == ScoreUnit \div d
           r == ScoreUnit \div (2 * d)
<1>1. q \in Nat /\ ScoreUnit < q * d + d
  BY <1>0, Quotient
<1>2. 2 * d \in Nat \ {0}
  BY <1>0
<1>3. r \in Nat /\ ScoreUnit = r * (2 * d) + (ScoreUnit % (2 * d))
  BY <1>0, <1>2
<1>4. r # 0
  BY <1>0, <1>3
<1> HIDE DEF q, r
<1>5. 1 * (2 * d) <= r * (2 * d)
  BY <1>2, <1>3, <1>4, ProductGrows
<1>6. 2 * d <= ScoreUnit
  BY <1>0, <1>3, <1>5
<1>7. CASE q <= 1
  <2>1. q * d <= 1 * d
    BY <1>0, <1>1, <1>7, ProductGrows
  <2> QED BY <1>0, <1>1, <1>6, <2>1
<1>8. CASE q > 1
  BY <1>1, <1>8 DEF q
<1> QED BY <1>1, <1>7, <1>8

\* A normalized score grows with the score.
LEMMA NormalizedGrows ==
  ASSUME NEW list \in Fusion!Lists, NEW c \in DOMAIN list, NEW d \in DOMAIN list
  PROVE  /\ Fusion!Normalized(list, c) \in Nat
         /\ list[c] >= list[d] => Fusion!Normalized(list, c) >= Fusion!Normalized(list, d)
         /\ list[c] > list[d] => Fusion!Normalized(list, c) >= Fusion!Normalized(list, d) + 2
<1> DEFINE low == Fusion!Min({list[x] : x \in DOMAIN list})
           high == Fusion!Max({list[x] : x \in DOMAIN list})
           unit == ScoreUnit \div (high - low)
           a == list[c] - low
           b == list[d] - low
<1>1. /\ low \in 0..FusionScore /\ high \in 0..FusionScore
      /\ low <= list[c] /\ list[c] <= high /\ low <= list[d] /\ list[d] <= high
  BY ListBounds
<1>2. Fusion!Normalized(list, c) = (IF high = low THEN ScoreUnit ELSE a * unit)
      /\ Fusion!Normalized(list, d) = (IF high = low THEN ScoreUnit ELSE b * unit)
  BY DEF Fusion!Normalized
<1>3. ScoreUnit \in Nat /\ FusionScore \in Nat /\ list[c] \in Nat /\ list[d] \in Nat
  BY FusionConstants, ListTypes
<1> HIDE DEF low, high
<1>4. CASE high = low
  <2>1. list[c] = list[d]
    BY <1>1, <1>3, <1>4
  <2> QED BY <1>2, <1>3, <1>4, <2>1
<1>5. CASE high # low
  <2>1. high - low \in 1..FusionScore
    BY <1>1, <1>3, <1>5
  <2>2. unit \in Nat /\ unit >= 2
    BY <2>1, UnitWorth
  <2>3. a \in Nat /\ b \in Nat
    BY <1>1, <1>3
  <2>4. /\ list[c] >= list[d] => a >= b
        /\ list[c] > list[d] => a >= b + 1
    BY <1>1, <1>3
  <2> HIDE DEF unit, a, b
  <2>5. a * unit \in Nat
    BY <2>2, <2>3
  <2>6. a >= b => b * unit <= a * unit
    BY <2>2, <2>3, ProductGrows
  <2>7. a >= b + 1 => a * unit >= b * unit + 2
    <3>1. ASSUME a >= b + 1 PROVE a * unit >= b * unit + 2
      <4>1. (b + 1) * unit <= a * unit
        BY <2>2, <2>3, <3>1, ProductGrows
      <4>2. (b + 1) * unit = b * unit + unit
        BY <2>2, <2>3
      <4>3. b * unit \in Nat
        BY <2>2, <2>3
      <4> QED BY <2>2, <2>5, <4>1, <4>2, <4>3
    <3> QED BY <3>1
  <2> QED BY <1>2, <1>5, <2>4, <2>5, <2>6, <2>7
<1> QED BY <1>4, <1>5

\* So does the weight, and a candidate that is there weighs more than one that
\* is not.
LEMMA WeightGrows ==
  ASSUME NEW list \in Fusion!Lists, NEW c, NEW d
  PROVE  /\ Fusion!Weight(list, c) \in Nat
         /\ Fusion!NotWorse(list, c, d) => Fusion!Weight(list, c) >= Fusion!Weight(list, d)
         /\ Fusion!Better(list, c, d) => Fusion!Weight(list, c) > Fusion!Weight(list, d)
<1>1. ASSUME NEW x \in DOMAIN list
      PROVE  Fusion!Normalized(list, x) \in Nat
  BY NormalizedGrows
<1>2. \A x \in DOMAIN list :
        /\ Fusion!Weight(list, x) \in Nat /\ Fusion!Weight(list, x) >= 1
        /\ Fusion!Weight(list, x) >= Fusion!Normalized(list, x)
        /\ Fusion!Normalized(list, x) < 1 => Fusion!Weight(list, x) = 1
        /\ Fusion!Normalized(list, x) >= 1 => Fusion!Weight(list, x) = Fusion!Normalized(list, x)
  BY <1>1 DEF Fusion!Weight, Fusion!Floor
<1>3. \A x : x \notin DOMAIN list => Fusion!Weight(list, x) = 0
  BY DEF Fusion!Weight
<1>4. Fusion!Weight(list, c) \in Nat /\ Fusion!Weight(list, d) \in Nat
  BY <1>2, <1>3
<1>5. CASE c \in DOMAIN list /\ d \in DOMAIN list
  <2>1. /\ list[c] >= list[d] => Fusion!Normalized(list, c) >= Fusion!Normalized(list, d)
        /\ list[c] > list[d] => Fusion!Normalized(list, c) >= Fusion!Normalized(list, d) + 2
    BY <1>5, NormalizedGrows
  <2> QED BY <1>1, <1>2, <1>4, <1>5, <2>1 DEF Fusion!NotWorse, Fusion!Better
<1>6. CASE ~(c \in DOMAIN list /\ d \in DOMAIN list)
  BY <1>2, <1>3, <1>4, <1>6 DEF Fusion!NotWorse, Fusion!Better
<1> QED BY <1>4, <1>5, <1>6

\* c is better in a list that has weight, and not worse in the other.
Beats(c, d) ==
  \/ alpha > 0 /\ Fusion!Better(dense, c, d) /\ (alpha < 2 => Fusion!NotWorse(sparse, c, d))
  \/ alpha < 2 /\ Fusion!Better(sparse, c, d) /\ (alpha > 0 => Fusion!NotWorse(dense, c, d))

\* A chunk that beats another is ranked before it.
LEMMA BeatsRanks ==
  ASSUME FusionInv, NEW c \in Fusion!Found, NEW d \in Fusion!Found, Beats(c, d)
  PROVE  Fusion!Ranked(c, d)
<1>1. CASE dense = Fusion!NoList
  <2>1. DOMAIN dense = {}
    BY <1>1 DEF Fusion!NoList
  <2>2. d \in DOMAIN sparse /\ Fusion!Better(sparse, c, d)
    BY <2>1 DEF Beats, Fusion!Better, Fusion!Found
  <2> QED BY <1>1, <2>2 DEF Fusion!Ranked, Fusion!Listed, Fusion!Better
<1>2. CASE dense # Fusion!NoList /\ sparse = Fusion!NoList
  <2>1. DOMAIN sparse = {}
    BY <1>2 DEF Fusion!NoList
  <2>2. d \in DOMAIN dense /\ Fusion!Better(dense, c, d)
    BY <2>1 DEF Beats, Fusion!Better, Fusion!Found
  <2> QED BY <1>2, <2>2 DEF Fusion!Ranked, Fusion!Listed, Fusion!Better
<1>3. CASE dense # Fusion!NoList /\ sparse # Fusion!NoList
  <2> DEFINE cd == Fusion!Weight(dense, c)
             dd == Fusion!Weight(dense, d)
             cs == Fusion!Weight(sparse, c)
             ds == Fusion!Weight(sparse, d)
  <2>1. /\ cd \in Nat /\ dd \in Nat /\ cs \in Nat /\ ds \in Nat
        /\ Fusion!NotWorse(dense, c, d) => cd >= dd
        /\ Fusion!Better(dense, c, d) => cd > dd
        /\ Fusion!NotWorse(sparse, c, d) => cs >= ds
        /\ Fusion!Better(sparse, c, d) => cs > ds
    BY WeightGrows DEF FusionInv
  <2>2. Fusion!Score(c) = alpha * cd + (2 - alpha) * cs
        /\ Fusion!Score(d) = alpha * dd + (2 - alpha) * ds
    BY DEF Fusion!Score
  <2> HIDE DEF cd, dd, cs, ds
  <2>3. \/ alpha > 0 /\ cd > dd /\ (alpha < 2 => cs >= ds)
        \/ alpha < 2 /\ cs > ds /\ (alpha > 0 => cd >= dd)
    BY <2>1 DEF Beats
  <2>4. alpha = 0 \/ alpha = 1 \/ alpha = 2
    BY DEF FusionInv
  <2>5. Fusion!Score(c) > Fusion!Score(d)
    BY <2>1, <2>2, <2>3, <2>4
  <2> QED BY <1>3, <2>5 DEF Fusion!Ranked
<1> QED BY <1>1, <1>2, <1>3

\* No two chunks are ranked before each other.
LEMMA RankedOnce ==
  ASSUME FusionInv, NEW c \in Fusion!Found, NEW d \in Fusion!Found,
         Fusion!Ranked(c, d), Fusion!Ranked(d, c)
  PROVE  FALSE
<1>1. ASSUME NEW list \in Fusion!Lists, c \in DOMAIN list, d \in DOMAIN list,
             Fusion!Listed(list, c, d), Fusion!Listed(list, d, c)
      PROVE  FALSE
  <2>1. list[c] \in Nat /\ list[d] \in Nat /\ c \in Nat /\ d \in Nat
    BY <1>1, ListTypes
  <2> QED BY <1>1, <2>1 DEF Fusion!Listed
<1>2. dense \in Fusion!Lists /\ sparse \in Fusion!Lists
  BY DEF FusionInv
<1>3. CASE dense = Fusion!NoList
  <2>1. c \in DOMAIN sparse /\ d \in DOMAIN sparse
    BY <1>3 DEF Fusion!NoList, Fusion!Found
  <2> QED BY <1>1, <1>2, <1>3, <2>1 DEF Fusion!Ranked
<1>4. CASE dense # Fusion!NoList /\ sparse = Fusion!NoList
  <2>1. c \in DOMAIN dense /\ d \in DOMAIN dense
    BY <1>4 DEF Fusion!NoList, Fusion!Found
  <2> QED BY <1>1, <1>2, <1>4, <2>1 DEF Fusion!Ranked
<1>5. CASE dense # Fusion!NoList /\ sparse # Fusion!NoList
  <2>1. \A x : Fusion!Score(x) \in Int
    <3> TAKE x
    <3>1. Fusion!Weight(dense, x) \in Nat /\ Fusion!Weight(sparse, x) \in Nat
      BY <1>2, WeightGrows
    <3>2. alpha = 0 \/ alpha = 1 \/ alpha = 2
      BY DEF FusionInv
    <3> QED BY <3>1, <3>2 DEF Fusion!Score
  <2>2. Fusion!Score(c) \in Int /\ Fusion!Score(d) \in Int
    BY <2>1
  <2>3. Fusion!KeyBefore(c, d) /\ Fusion!KeyBefore(d, c)
    BY <1>5, <2>2 DEF Fusion!Ranked
  <2>4. CASE c \in DOMAIN sparse /\ d \in DOMAIN sparse
    BY <1>1, <1>2, <2>3, <2>4 DEF Fusion!KeyBefore
  <2>5. CASE ~(c \in DOMAIN sparse /\ d \in DOMAIN sparse)
    BY <1>1, <1>2, <2>3, <2>5 DEF Fusion!KeyBefore, Fusion!Found
  <2> QED BY <2>4, <2>5
<1> QED BY <1>3, <1>4, <1>5

\* With all weight on one list the ranking is its order, but for equal dense
\* scores.
LEMMA AloneRanks ==
  ASSUME FusionInv, NEW c \in Fusion!Found, NEW d \in Fusion!Found, Fusion!Ranked(c, d)
  PROVE  /\ alpha = 0 /\ {c, d} \subseteq DOMAIN sparse => Fusion!Listed(sparse, c, d)
         /\ alpha = 2 /\ {c, d} \subseteq DOMAIN dense =>
              \/ dense[c] > dense[d]
              \/ dense[c] = dense[d] /\ (d \in DOMAIN sparse => c \in DOMAIN sparse)
<1>1. /\ \A x \in DOMAIN dense : dense[x] \in Nat
      /\ \A x \in DOMAIN sparse : sparse[x] \in Nat
  BY ListTypes DEF FusionInv
<1>2. CASE dense = Fusion!NoList
  BY <1>2 DEF Fusion!Ranked, Fusion!NoList
<1>3. CASE dense # Fusion!NoList /\ sparse = Fusion!NoList
  BY <1>1, <1>3 DEF Fusion!Ranked, Fusion!Listed, Fusion!NoList
<1>4. CASE dense # Fusion!NoList /\ sparse # Fusion!NoList
  <2> DEFINE cd == Fusion!Weight(dense, c)
             dd == Fusion!Weight(dense, d)
             cs == Fusion!Weight(sparse, c)
             ds == Fusion!Weight(sparse, d)
  <2>1. /\ cd \in Nat /\ dd \in Nat /\ cs \in Nat /\ ds \in Nat
        /\ Fusion!NotWorse(dense, c, d) => cd >= dd
        /\ Fusion!NotWorse(dense, d, c) => dd >= cd
        /\ Fusion!Better(dense, d, c) => dd > cd
        /\ Fusion!NotWorse(sparse, c, d) => cs >= ds
        /\ Fusion!NotWorse(sparse, d, c) => ds >= cs
        /\ Fusion!Better(sparse, d, c) => ds > cs
    BY WeightGrows DEF FusionInv
  <2>2. Fusion!Score(c) = alpha * cd + (2 - alpha) * cs
        /\ Fusion!Score(d) = alpha * dd + (2 - alpha) * ds
    BY DEF Fusion!Score
  <2>3. \/ Fusion!Score(c) > Fusion!Score(d)
        \/ Fusion!Score(c) = Fusion!Score(d) /\ Fusion!KeyBefore(c, d)
    BY <1>4 DEF Fusion!Ranked
  <2> HIDE DEF cd, dd, cs, ds
  <2>4. ASSUME alpha = 0, c \in DOMAIN sparse, d \in DOMAIN sparse
        PROVE  Fusion!Listed(sparse, c, d)
    <3>1. cs > ds \/ (cs = ds /\ Fusion!Listed(sparse, c, d))
      BY <2>1, <2>2, <2>3, <2>4 DEF Fusion!KeyBefore
    <3>2. sparse[c] \in Nat /\ sparse[d] \in Nat
      BY <1>1, <2>4
    <3> QED BY <2>1, <2>4, <3>1, <3>2 DEF Fusion!Listed, Fusion!NotWorse
  <2>5. ASSUME alpha = 2, c \in DOMAIN dense, d \in DOMAIN dense
        PROVE  \/ dense[c] > dense[d]
               \/ dense[c] = dense[d] /\ (d \in DOMAIN sparse => c \in DOMAIN sparse)
    <3>1. cd > dd \/ (cd = dd /\ (d \in DOMAIN sparse => c \in DOMAIN sparse))
      BY <2>1, <2>2, <2>3, <2>5 DEF Fusion!KeyBefore
    <3>2. dense[c] \in Nat /\ dense[d] \in Nat
      BY <1>1, <2>5
    <3> QED BY <2>1, <2>5, <3>1, <3>2 DEF Fusion!Better, Fusion!NotWorse
  <2> QED BY <2>4, <2>5
<1> QED BY <1>2, <1>3, <1>4

\* The cut of the ranking is faithful to both lists.
LEMMA FusionHonest == FusionInv => Fusion!FusionFaithful
<1> SUFFICES ASSUME FusionInv, fused # Fusion!None PROVE Fusion!FusionFaithful
  BY DEF Fusion!FusionFaithful
<1> DEFINE n == IF Fusion!Cardinality(Fusion!Found) < topK THEN Fusion!Cardinality(Fusion!Found)
                ELSE topK
<1>1. /\ fused \in [1..n -> Fusion!Found]
      /\ \A i, j \in DOMAIN fused : i < j => Fusion!Ranked(fused[i], fused[j])
      /\ \A c \in Fusion!Found \ Fusion!Range(fused), i \in DOMAIN fused : Fusion!Ranked(fused[i], c)
  BY DEF FusionInv, Fusion!Cut
<1>2. Fusion!Cardinality(Fusion!Found) \in Nat
  <2>1. Fusion!Found \subseteq FusionChunk
    BY ListTypes DEF FusionInv, Fusion!Found
  <2> QED BY <2>1, FusionConstants, FusionCardinality, FS_Subset, FS_CardinalityType
<1>3. n \in Nat /\ topK \in Nat
  BY <1>2 DEF FusionInv
<1>4. n = Fusion!Min({topK, Fusion!Cardinality(Fusion!Found)})
  <2> DEFINE k == Fusion!Cardinality(Fusion!Found)
  <2>1. k \in Nat /\ n = IF k < topK THEN k ELSE topK
    BY <1>2
  <2> HIDE DEF k
  <2>2. n \in {topK, k} /\ \A y \in {topK, k} : n <= y
    BY <1>3, <2>1
  <2> HIDE DEF n
  <2>3. \A x \in {topK, k} : (\A y \in {topK, k} : x <= y) => x = n
    BY <1>3, <2>1, <2>2
  <2>4. n = Fusion!Min({topK, k})
    BY <2>2, <2>3 DEF Fusion!Min
  <2> QED BY <2>4 DEF k
<1> HIDE DEF n
<1>5. \A i \in 1..n : fused[i] \in Fusion!Found /\ i \in Nat
  BY <1>1, <1>3
<1>6. DOMAIN fused = 1..n /\ Len(fused) = n
  BY <1>1, <1>3
<1>7. Fusion!IsInjective(fused)
  <2>1. ASSUME NEW a \in 1..n, NEW b \in 1..n, fused[a] = fused[b] PROVE a = b
    <3>1. a < b => FALSE
      BY <1>1, <1>5, <1>6, <2>1, RankedOnce
    <3>2. b < a => FALSE
      BY <1>1, <1>5, <1>6, <2>1, RankedOnce
    <3> QED BY <1>5, <3>1, <3>2
  <2> QED BY <1>6, <2>1 DEF Fusion!IsInjective
<1>8. ASSUME NEW c \in Fusion!Found, NEW d \in Fusion!Found, Beats(c, d),
             d \in Fusion!Range(fused)
      PROVE  c \in Fusion!Range(fused)
  <2>1. PICK i \in 1..n : d = fused[i]
    BY <1>6, <1>8 DEF Fusion!Range
  <2>2. Fusion!Ranked(c, d)
    BY <1>8, BeatsRanks
  <2>3. CASE c \notin Fusion!Range(fused)
    <3>1. Fusion!Ranked(d, c)
      BY <1>1, <1>6, <2>1, <2>3
    <3> QED BY <2>2, <3>1, RankedOnce
  <2> QED BY <2>3 DEF Fusion!Range
<1>9. ASSUME NEW i \in 1..n, NEW j \in 1..n, Beats(fused[i], fused[j]) PROVE i < j
  <2>1. Fusion!Ranked(fused[i], fused[j])
    BY <1>5, <1>9, BeatsRanks
  <2>2. ~(j < i) /\ i # j
    BY <1>1, <1>5, <1>6, <2>1, RankedOnce
  <2> QED BY <1>5, <2>2
<1>10. ASSUME NEW i \in 1..n, NEW j \in 1..n, i < j
       PROVE  LET c == fused[i]
                  d == fused[j]
              IN /\ alpha = 0 /\ {c, d} \subseteq DOMAIN sparse => Fusion!Listed(sparse, c, d)
                 /\ alpha = 2 /\ {c, d} \subseteq DOMAIN dense =>
                      \/ dense[c] > dense[d]
                      \/ dense[c] = dense[d] /\ (d \in DOMAIN sparse => c \in DOMAIN sparse)
  <2>1. Fusion!Ranked(fused[i], fused[j])
    BY <1>1, <1>6, <1>10
  <2> QED BY <1>5, <2>1, AloneRanks
<1> QED BY <1>4, <1>6, <1>7, <1>8, <1>9, <1>10 DEF Fusion!FusionFaithful, Beats

\* Fusing keeps the order in which chunks beat each other, whatever the lists,
\* the weights and the number of results; of one list alone it keeps the order,
\* but for equal dense scores (rag/fusion.py:1-15, 37-64).
THEOREM FusionAlwaysFaithful == ServicesSpec => []FusionFaithful
<1> DEFINE I == subject = "fusion" => FusionInv
<1>1. ServicesInit => I
  BY FusionStarts DEF ServicesInit
<1>2. I /\ [ServicesNext]_servicesVars => I'
  BY SubjectStep, FusionStep
<1>3. I => FusionFaithful
  BY FusionHonest DEF FusionFaithful
<1> QED BY <1>1, <1>2, <1>3, PTL DEF ServicesSpec

-----------------------------------------------------------------------------
(* Tables in the answer.                                                   *)

\* The role of a line, from the role of the line before.
RoleAfter(previous, i) ==
  IF i = 0 THEN "prose"
  ELSE IF previous = "header" THEN "rule"
  ELSE IF previous \in {"rule", "body"} /\ Table!IsRow(text.lines[i]) THEN "body"
  ELSE IF text.lines[i] = "row" /\ i < Len(text.lines) /\ Table!IsSeparator(text.lines[i + 1])
       THEN "header"
  ELSE "prose"

\* The roles of the first n lines.
RolesUpTo(n, role) == role = [i \in 0..n |-> RoleAfter(role[i - 1], i)]

\* The lines of the answer.
TextInv == text.lines \in Seq(Table!Kind)

\* The answer as it should look, its first m lines.
WholeUpTo(m) == [i \in 1..m |-> Table!Reference[i]]

\* After k lines the normalizer holds back the last, a row that may be a header,
\* or none; it is in a table when the last line was; and it has emitted all
\* lines but the one held back.
StateAt(k, s) ==
  /\ s = [held |-> s.held, inTable |-> s.inTable, out |-> s.out]
  /\ \/ /\ s.held = 0 /\ Table!Role[k] # "header"
        /\ s.inTable \in BOOLEAN /\ (s.inTable <=> Table!Role[k] \in {"rule", "body"})
        /\ s.out = WholeUpTo(k)
     \/ /\ s.held = k /\ k # 0 /\ s.inTable = FALSE
        /\ Table!Role[k] \in {"header", "prose"} /\ text.lines[k] = "row"
        /\ s.out = WholeUpTo(k - 1)

\* Until flush the state is the one after the lines fed.
TableInv ==
  /\ TextInv /\ fed \in 0..Len(text.lines)
  /\ ~flushed => StateAt(fed, [held |-> held, inTable |-> inTable, out |-> out])
  /\ flushed => out = Table!Reference

\* Every line has a role.
LEMMA RolesExist ==
  ASSUME NEW n \in Nat
  PROVE  \E role : RolesUpTo(n, role)
<1> DEFINE Bad == {k \in Nat : ~ \E role : RolesUpTo(k, role)}
<1>1. SUFFICES ASSUME Bad # {} PROVE FALSE
  OBVIOUS
<1>2. PICK k \in Bad : \A m \in Bad : k <= m
  <2> HIDE DEF Bad
  <2>1. Bad \subseteq Nat
    BY DEF Bad
  <2> QED BY <1>1, <2>1, LeastNatural
<1>3. k # 0
  <2>1. RolesUpTo(0, [i \in 0..0 |-> "prose"])
    BY DEF RolesUpTo, RoleAfter
  <2> QED BY <2>1
<1>4. k \in Nat /\ k - 1 \in Nat /\ k - 1 \notin Bad
  BY <1>2, <1>3
<1>5. PICK role : RolesUpTo(k - 1, role)
  BY <1>4
<1> DEFINE more == [i \in 0..k |-> IF i < k THEN role[i] ELSE RoleAfter(role[k - 1], k)]
<1>6. \A i \in 0..(k - 1) : more[i] = role[i]
  BY <1>4
<1>7. \A i \in 0..k : more[i] = RoleAfter(more[i - 1], i)
  <2> TAKE i \in 0..k
  <2>1. CASE i < k
    <3>1. i \in 0..(k - 1) /\ (i # 0 => i - 1 \in 0..(k - 1))
      BY <1>4, <2>1
    <3>2. role[i] = RoleAfter(role[i - 1], i)
      BY <1>5, <3>1 DEF RolesUpTo
    <3> HIDE DEF more
    <3>3. i = 0 \/ more[i - 1] = role[i - 1]
      BY <1>6, <3>1
    <3> QED BY <1>6, <3>1, <3>2, <3>3 DEF RoleAfter
  <2>2. CASE i = k
    <3>1. more[k] = RoleAfter(role[k - 1], k)
      BY <1>4
    <3>2. more[k - 1] = role[k - 1]
      BY <1>4, <1>6
    <3> HIDE DEF more
    <3> QED BY <2>2, <3>1, <3>2
  <2> QED BY <1>4, <2>1, <2>2
<1>8. RolesUpTo(k, more)
  <2>1. more = [i \in 0..k |-> more[i]]
    OBVIOUS
  <2> HIDE DEF more
  <2> QED BY <1>7, <2>1 DEF RolesUpTo
<1> QED BY <1>2, <1>8

\* The definition of Role, unfolded.
LEMMA RoleForm ==
  ASSUME TextInv
  PROVE  /\ Table!Role[0] = "prose"
         /\ \A i \in 1..Len(text.lines) : Table!Role[i] = RoleAfter(Table!Role[i - 1], i)
<1>0. Len(text.lines) \in Nat
  BY DEF TextInv
<1>1. PICK role : RolesUpTo(Len(text.lines), role)
  BY <1>0, RolesExist
<1>2. Table!Role = CHOOSE f : RolesUpTo(Len(text.lines), f)
  BY DEF Table!Role, RolesUpTo, RoleAfter
<1>3. RolesUpTo(Len(text.lines), Table!Role)
  BY <1>1, <1>2
<1>4. \A i \in 0..Len(text.lines) : Table!Role[i] = RoleAfter(Table!Role[i - 1], i)
  BY <1>3 DEF RolesUpTo
<1>5. 0 \in 0..Len(text.lines) /\ \A i \in 1..Len(text.lines) : i \in 0..Len(text.lines)
  BY <1>0
<1>6. Table!Role[0] = RoleAfter(Table!Role[0 - 1], 0)
  BY <1>4, <1>5
<1> QED BY <1>4, <1>5, <1>6 DEF RoleAfter

\* One more line is emitted as it should look.
LEMMA WholeGrows ==
  ASSUME NEW m \in Nat
  PROVE  /\ WholeUpTo(m) \in Seq({Table!Reference[i] : i \in 1..(m + 1)})
         /\ Len(WholeUpTo(m)) = m
         /\ Append(WholeUpTo(m), Table!Reference[m + 1]) = WholeUpTo(m + 1)
         /\ WholeUpTo(0) = <<>>
<1> DEFINE R == Table!Reference
           S == {R[i] : i \in 1..(m + 1)}
           w == [i \in 1..m |-> R[i]]
           v == [i \in 1..(m + 1) |-> R[i]]
<1> HIDE DEF R
<1>1. w \in [1..m -> S] /\ v \in [1..(m + 1) -> S] /\ R[m + 1] \in S
  OBVIOUS
<1>2. w \in Seq(S) /\ Len(w) = m /\ v \in Seq(S) /\ Len(v) = m + 1
  BY <1>1
<1>3. Append(w, R[m + 1]) = v
  <2>1. Append(w, R[m + 1]) \in Seq(S) /\ Len(Append(w, R[m + 1])) = m + 1
    BY <1>1, <1>2
  <2>2. \A i \in 1..(m + 1) : Append(w, R[m + 1])[i] = v[i]
    BY <1>1, <1>2
  <2> QED BY <1>2, <2>1, <2>2
<1>4. [i \in 1..0 |-> R[i]] = <<>>
  OBVIOUS
<1> QED BY <1>2, <1>3, <1>4 DEF WholeUpTo, R

\* The whole is the answer.
LEMMA WholeIsReference ==
  ASSUME TextInv
  PROVE  /\ WholeUpTo(Len(text.lines)) = Table!Reference
         /\ \A i \in 1..Len(text.lines) :
              Table!Reference[i] = IF Table!Role[i] = "rule" THEN Table!AsRule(i, i - 1)
                                   ELSE IF Table!Role[i] \in {"header", "body"} THEN Table!AsRow(i)
                                   ELSE Table!AsIs(i)
BY DEF WholeUpTo, Table!Reference

\* Nothing is held back.
LEMMA EmittedState ==
  ASSUME NEW k, NEW s, NEW inside \in BOOLEAN,
         s = [held |-> 0, inTable |-> inside, out |-> WholeUpTo(k)],
         Table!Role[k] # "header", inside <=> Table!Role[k] \in {"rule", "body"}
  PROVE  StateAt(k, s)
<1> DEFINE whole == WholeUpTo(k)
<1> HIDE DEF whole
<1>1. s = [held |-> 0, inTable |-> inside, out |-> whole]
  BY DEF whole
<1>2. s.held = 0 /\ s.out = whole /\ s = [held |-> s.held, inTable |-> s.inTable, out |-> s.out]
  BY <1>1
<1>3. s.inTable = inside
  BY <1>1
<1> QED BY <1>2, <1>3 DEF StateAt, whole

\* One more line is judged as with its neighbours.
LEMMA ConsumeKeeps ==
  ASSUME TextInv, NEW k \in 0..(Len(text.lines) - 1), NEW s, StateAt(k, s)
  PROVE  StateAt(k + 1, Table!Consume(s, k + 1))
<1> DEFINE n == Len(text.lines)
           i == k + 1
           kind == text.lines[i]
           role == Table!Role
           R == Table!Reference
<1>0. n \in Nat /\ k \in Nat /\ i \in 1..n /\ i - 1 = k /\ kind \in Table!Kind
      /\ (k # 0 => k \in 1..n /\ k - 1 \in Nat /\ (k - 1) + 1 = k)
  BY DEF TextInv
<1>1. role[i] = RoleAfter(role[k], i)
  BY <1>0, RoleForm
<1>2. role[k] = "header" => k # 0 /\ Table!IsSeparator(kind)
  <2>1. k = 0 => role[k] = "prose"
    BY RoleForm
  <2>2. ASSUME k # 0, role[k] = "header" PROVE Table!IsSeparator(kind)
    <3>1. role[k] = RoleAfter(role[k - 1], k)
      BY <1>0, <2>2, RoleForm
    <3> QED BY <1>0, <2>2, <3>1 DEF RoleAfter
  <2> QED BY <2>1, <2>2
<1>3. ASSUME k # 0, role[k] = "prose", text.lines[k] = "row"
      PROVE  ~Table!IsSeparator(kind)
  <2>1. role[k] = RoleAfter(role[k - 1], k)
    BY <1>0, <1>3, RoleForm
  <2>2. k < n /\ i = k + 1
    BY <1>0
  <2> QED BY <1>0, <1>3, <2>1, <2>2 DEF RoleAfter, Table!IsRow
<1>4. /\ role[i] = "rule" => R[i] = Table!AsRule(i, k)
      /\ role[i] \in {"header", "body"} => R[i] = Table!AsRow(i)
      /\ role[i] = "prose" => R[i] = Table!AsIs(i)
      /\ k # 0 /\ role[k] = "header" => R[k] = Table!AsRow(k)
      /\ k # 0 /\ role[k] = "prose" => R[k] = Table!AsIs(k)
  BY <1>0, WholeIsReference
<1>5. /\ Append(WholeUpTo(k), R[i]) = WholeUpTo(i)
      /\ k # 0 => Append(WholeUpTo(k - 1), R[k]) = WholeUpTo(k)
  BY <1>0, WholeGrows
<1>6. kind \in {"row", "rule", "dash", "prose"}
  BY <1>0 DEF Table!Kind
<1> HIDE DEF n, i, kind, role, R
<1>7. CASE s.inTable /\ Table!IsRow(kind)
  <2>1. /\ s.held = 0 /\ role[k] \in {"rule", "body"} /\ s.out = WholeUpTo(k)
        /\ s.inTable = TRUE
    BY <1>7 DEF StateAt, role
  <2>2. Table!Consume(s, i) = [held |-> 0, inTable |-> TRUE, out |-> Append(s.out, Table!AsRow(i))]
    BY <1>7, <2>1 DEF Table!Consume, kind
  <2>3. role[i] = "body"
    BY <1>0, <1>1, <1>7, <2>1 DEF RoleAfter, kind
  <2>4. Table!Consume(s, i) = [held |-> 0, inTable |-> TRUE, out |-> WholeUpTo(i)]
    BY <1>4, <1>5, <2>1, <2>2, <2>3
  <2> QED BY <2>3, <2>4, EmittedState DEF i, role
<1>8. CASE ~(s.inTable /\ Table!IsRow(kind)) /\ s.held # 0 /\ Table!IsSeparator(kind)
  <2>1. /\ s.held = k /\ k # 0 /\ s.out = WholeUpTo(k - 1)
        /\ role[k] \in {"header", "prose"} /\ text.lines[k] = "row"
    BY <1>8 DEF StateAt, role
  <2>2. role[k] = "header"
    BY <1>3, <1>8, <2>1
  <2>3. Table!Consume(s, i) = [held |-> 0, inTable |-> TRUE,
                               out |-> s.out \o <<Table!AsRow(k), Table!AsRule(i, k)>>]
    BY <1>8, <2>1 DEF Table!Consume, kind
  <2>4. role[i] = "rule"
    BY <1>0, <1>1, <2>2 DEF RoleAfter
  <2>5. s.out \o <<R[k], R[i]>> = WholeUpTo(i)
    <3> DEFINE w == WholeUpTo(k - 1)
               S == {R[j] : j \in 1..((k - 1) + 1)} \cup {R[i]}
    <3>1. w \in Seq(S) /\ R[k] \in S /\ R[i] \in S
      <4>1. w \in Seq({R[j] : j \in 1..((k - 1) + 1)})
        BY <1>0, <2>1, WholeGrows DEF R
      <4>2. R[k] \in {R[j] : j \in 1..((k - 1) + 1)}
        BY <1>0, <2>1
      <4> QED BY <4>1, <4>2
    <3> HIDE DEF S, w
    <3>2. w \o <<R[k], R[i]>> = Append(Append(w, R[k]), R[i])
      BY <3>1
    <3> QED BY <1>5, <2>1, <3>2 DEF w
  <2>6. s.out \o <<Table!AsRow(k), Table!AsRule(i, k)>> = WholeUpTo(i)
    BY <1>4, <2>1, <2>2, <2>4, <2>5
  <2>7. Table!Consume(s, i) = [held |-> 0, inTable |-> TRUE, out |-> WholeUpTo(i)]
    BY <2>3, <2>6
  <2> QED BY <2>4, <2>7, EmittedState DEF i, role
<1>9. CASE ~(s.inTable /\ Table!IsRow(kind)) /\ ~(s.held # 0 /\ Table!IsSeparator(kind))
  <2> DEFINE released == IF s.held # 0 THEN Append(s.out, Table!AsIs(s.held)) ELSE s.out
             judged == Table!Judge(s, i)
  <2>1. Table!Consume(s, i) = judged
    BY <1>9 DEF Table!Consume, kind
  <2>2. role[k] # "header" /\ (s.held = 0 \/ role[k] = "prose")
        /\ (s.held = 0 => (s.inTable <=> role[k] \in {"rule", "body"}))
        /\ released = WholeUpTo(k)
    <3>1. CASE s.held = 0
      BY <3>1, <1>9 DEF StateAt, role
    <3>2. CASE s.held # 0
      <4>1. /\ s.held = k /\ k # 0 /\ s.out = WholeUpTo(k - 1)
            /\ role[k] \in {"header", "prose"} /\ text.lines[k] = "row"
        BY <3>2 DEF StateAt, role
      <4>2. role[k] = "prose"
        BY <1>2, <1>9, <3>2, <4>1
      <4> QED BY <1>4, <1>5, <3>2, <4>1, <4>2
    <3> QED BY <3>1, <3>2
  <2>3. ~(role[k] \in {"rule", "body"} /\ Table!IsRow(kind))
    BY <1>9, <2>2
  <2>4. role[i] \in {"header", "prose"}
        /\ (role[i] = "header" => kind = "row" /\ i < n)
    BY <1>0, <1>1, <2>2, <2>3 DEF RoleAfter, kind, n
  <2> HIDE DEF released
  <2>5. judged = IF Table!HasNewline(i) /\ Table!IsRow(kind) /\ ~Table!IsSeparator(kind)
                 THEN [held |-> i, inTable |-> FALSE, out |-> released]
                 ELSE [held |-> 0, inTable |-> FALSE, out |-> Append(released, Table!AsIs(i))]
    BY DEF Table!Judge, released, kind
  <2> HIDE DEF judged
  <2>6. CASE Table!HasNewline(i) /\ Table!IsRow(kind) /\ ~Table!IsSeparator(kind)
    <3>1. kind = "row" /\ i # 0 /\ i - 1 = k
      BY <1>0, <1>6, <2>6 DEF Table!IsRow, Table!IsSeparator
    <3>2. judged = [held |-> i, inTable |-> FALSE, out |-> WholeUpTo(k)]
      BY <2>2, <2>5, <2>6
    <3>3. StateAt(i, judged)
      BY <2>4, <3>1, <3>2 DEF StateAt, role, kind
    <3> QED BY <2>1, <3>3 DEF i
  <2>7. CASE ~(Table!HasNewline(i) /\ Table!IsRow(kind) /\ ~Table!IsSeparator(kind))
    <3>1. role[i] = "prose"
      <4>1. kind = "row" => ~Table!HasNewline(i)
        BY <2>7 DEF Table!IsRow, Table!IsSeparator
      <4>2. i < n => Table!HasNewline(i)
        BY DEF Table!HasNewline, n
      <4> QED BY <2>4, <4>1, <4>2
    <3>2. judged = [held |-> 0, inTable |-> FALSE, out |-> WholeUpTo(i)]
      BY <1>4, <1>5, <2>2, <2>5, <2>7, <3>1
    <3>3. StateAt(i, judged)
      BY <3>1, <3>2, EmittedState DEF role
    <3> QED BY <2>1, <3>3 DEF i
  <2> QED BY <2>6, <2>7
<1> QED BY <1>7, <1>8, <1>9 DEF i

\* The states after each of the lines fed.
AfterEach(from, to, after) ==
  after = [i \in from..to |->
             IF i = from THEN [held |-> held, inTable |-> inTable, out |-> out]
             ELSE Table!Consume(after[i - 1], i)]

\* Every line fed has a state after it.
LEMMA AfterExists ==
  ASSUME NEW from \in Nat, NEW d \in Nat
  PROVE  \E after : AfterEach(from, from + d, after)
<1> DEFINE Bad == {k \in Nat : ~ \E after : AfterEach(from, from + k, after)}
           first == [held |-> held, inTable |-> inTable, out |-> out]
<1>1. SUFFICES ASSUME Bad # {} PROVE FALSE
  OBVIOUS
<1>2. PICK k \in Bad : \A m \in Bad : k <= m
  <2> HIDE DEF Bad
  <2>1. Bad \subseteq Nat
    BY DEF Bad
  <2> QED BY <1>1, <2>1, LeastNatural
<1>3. k # 0
  <2> HIDE DEF first
  <2>1. AfterEach(from, from + 0, [i \in from..(from + 0) |-> first])
    BY DEF AfterEach, first
  <2> QED BY <2>1
<1>4. k \in Nat /\ k - 1 \in Nat /\ k - 1 \notin Bad
  BY <1>2, <1>3
<1> DEFINE finish == from + k
<1>5. PICK after : AfterEach(from, finish - 1, after)
  <2>1. from + (k - 1) = finish - 1
    BY <1>4
  <2> QED BY <1>4, <2>1
<1>6. finish \in Nat /\ finish - 1 \in from..(finish - 1) /\ from < finish
  BY <1>3, <1>4
<1> DEFINE more == [i \in from..finish |->
                      IF i < finish THEN after[i] ELSE Table!Consume(after[finish - 1], finish)]
<1> HIDE DEF finish, first
<1>7. \A i \in from..(finish - 1) : more[i] = after[i]
  BY <1>6
<1>8. \A i \in from..finish : more[i] = IF i = from THEN first ELSE Table!Consume(more[i - 1], i)
  <2> TAKE i \in from..finish
  <2>1. CASE i < finish
    <3>1. i \in from..(finish - 1) /\ (i # from => i - 1 \in from..(finish - 1))
      BY <1>6, <2>1
    <3>2. after[i] = IF i = from THEN first ELSE Table!Consume(after[i - 1], i)
      BY <1>5, <3>1 DEF AfterEach, first
    <3> HIDE DEF more
    <3> QED BY <1>7, <3>1, <3>2
  <2>2. CASE i = finish
    <3>1. more[finish] = Table!Consume(after[finish - 1], finish)
      BY <1>6
    <3>2. more[finish - 1] = after[finish - 1]
      BY <1>6, <1>7
    <3> HIDE DEF more
    <3> QED BY <1>6, <2>2, <3>1, <3>2
  <2> QED BY <1>6, <2>1, <2>2
<1>9. AfterEach(from, finish, more)
  <2>1. more = [i \in from..finish |-> more[i]]
    OBVIOUS
  <2> HIDE DEF more
  <2> QED BY <1>8, <2>1 DEF AfterEach, first
<1> QED BY <1>2, <1>9 DEF finish

\* The lines fed are judged one by one.
LEMMA ConsumedKeeps ==
  ASSUME TextInv, NEW from \in 0..Len(text.lines), NEW to \in from..Len(text.lines),
         StateAt(from, [held |-> held, inTable |-> inTable, out |-> out])
  PROVE  StateAt(to, Table!Consumed(from, to))
<1> DEFINE n == Len(text.lines)
           first == [held |-> held, inTable |-> inTable, out |-> out]
<1>0. n \in Nat /\ from \in Nat /\ to \in Nat /\ to - from \in Nat /\ from + (to - from) = to
      /\ from <= to /\ to <= n
  BY DEF TextInv
<1>1. \E f : AfterEach(from, to, f)
  BY <1>0, AfterExists
<1> DEFINE after == CHOOSE f : AfterEach(from, to, f)
<1>2. Table!Consumed(from, to) = after[to]
  BY DEF Table!Consumed, AfterEach
<1>3. AfterEach(from, to, after)
  BY <1>1
<1> HIDE DEF after
<1>4. \A i \in from..to : after[i] = IF i = from THEN first ELSE Table!Consume(after[i - 1], i)
  BY <1>3 DEF AfterEach
<1> HIDE DEF first
<1> DEFINE Bad == {i \in from..to : ~StateAt(i, after[i])}
<1>5. Bad = {}
  <2>1. SUFFICES ASSUME Bad # {} PROVE FALSE
    OBVIOUS
  <2>2. Bad \subseteq Nat
    BY <1>0
  <2>3. PICK i \in Bad : \A m \in Bad : i <= m
    <3> HIDE DEF Bad
    <3> QED BY <2>1, <2>2, LeastNatural
  <2>4. i # from
    BY <1>0, <1>4, <2>3 DEF first
  <2>5. i \in from..to /\ i - 1 \in from..to /\ i - 1 \in 0..(n - 1) /\ (i - 1) + 1 = i
        /\ i - 1 \notin Bad
    BY <1>0, <2>3, <2>4
  <2>6. StateAt(i - 1, after[i - 1])
    BY <2>5
  <2>7. StateAt(i, Table!Consume(after[i - 1], i))
    BY <2>5, <2>6, ConsumeKeeps
  <2>8. StateAt(i, after[i])
    BY <1>4, <2>4, <2>5, <2>7
  <2> QED BY <2>3, <2>8
<1> QED BY <1>0, <1>2, <1>5

\* The lines of an answer.
LEMMA TextStarts ==
  ASSUME Table!Init
  PROVE  TextInv
<1>1. PICK n \in 0..TableLines, closed \in BOOLEAN :
        \E lines \in [1..n -> Table!Kind] :
          text = [lines |-> lines, closed |-> closed \/ lines = <<>>]
  BY DEF Table!Init, Table!Start
<1>2. PICK lines \in [1..n -> Table!Kind] :
        text = [lines |-> lines, closed |-> closed \/ lines = <<>>]
  BY <1>1
<1>3. text.lines = lines /\ lines \in Seq(Table!Kind)
  BY <1>2
<1> QED BY <1>3 DEF TextInv

\* Nothing is fed, nothing emitted.
LEMMA TableStarts ==
  ASSUME Table!Init
  PROVE  TableInv
<1>1. TextInv
  BY TextStarts
<1>2. fed = 0 /\ held = 0 /\ inTable = FALSE /\ out = <<>> /\ flushed = FALSE
  BY DEF Table!Init, Table!Start
<1>3. Len(text.lines) \in Nat
  BY <1>1 DEF TextInv
<1>4. Table!Role[0] = "prose" /\ WholeUpTo(0) = <<>>
  BY <1>1, RoleForm, WholeGrows
<1>5. StateAt(0, [held |-> held, inTable |-> inTable, out |-> out])
  BY <1>2, <1>4, EmittedState
<1> QED BY <1>1, <1>2, <1>3, <1>5 DEF TableInv

\* A token is fed, its complete lines consumed.
LEMMA TableFeed ==
  ASSUME TableInv, Table!Feed
  PROVE  TableInv'
<1>1. ~flushed /\ text' = text /\ flushed' = flushed
  BY DEF Table!Feed
<1>2. PICK to \in fed..Len(text.lines) :
        /\ fed' = to
        /\ held' = Table!Consumed(fed, to).held
        /\ out' = Table!Consumed(fed, to).out
        /\ inTable' = Table!Consumed(fed, to).inTable
  BY DEF Table!Feed, Table!Take
<1> DEFINE s == Table!Consumed(fed, to)
<1>3. StateAt(to, s)
  BY <1>1, ConsumedKeeps DEF TableInv
<1> HIDE DEF s
<1>4. s = [held |-> held', inTable |-> inTable', out |-> out']
  BY <1>2, <1>3 DEF StateAt, s
<1>5. Table!Role' = Table!Role /\ Table!Reference' = Table!Reference
  BY <1>1 DEF Table!Role, Table!Reference
<1>6. StateAt(fed, [held |-> held, inTable |-> inTable, out |-> out])'
  BY <1>1, <1>2, <1>3, <1>4, <1>5 DEF StateAt, WholeUpTo
<1>7. TextInv' /\ fed' \in 0..Len(text'.lines)
  BY <1>1, <1>2 DEF TableInv, TextInv
<1> QED BY <1>1, <1>6, <1>7 DEF TableInv

\* The last line is consumed, and a row held back leaves as it came.
LEMMA TableFlush ==
  ASSUME TableInv, Table!Flush
  PROVE  TableInv'
<1> DEFINE n == Len(text.lines)
           s == Table!Consumed(fed, n)
<1>1. /\ ~flushed /\ text' = text /\ flushed' = TRUE /\ fed' = n
      /\ out' = IF s.held # 0 THEN Append(s.out, Table!AsIs(s.held)) ELSE s.out
  BY DEF Table!Flush
<1>2. n \in Nat /\ fed \in 0..n /\ n \in fed..n /\ TextInv
  BY DEF TableInv, TextInv
<1>3. StateAt(n, s)
  BY <1>1, <1>2, ConsumedKeeps DEF TableInv
<1>4. WholeUpTo(n) = Table!Reference
  BY <1>2, WholeIsReference
<1> HIDE DEF s
<1>5. out' = Table!Reference
  <2>1. CASE s.held = 0
    <3>1. s.out = WholeUpTo(n)
      BY <1>3, <2>1 DEF StateAt
    <3> QED BY <1>1, <1>4, <2>1, <3>1
  <2>2. CASE s.held # 0
    <3>1. s.held = n /\ n # 0 /\ s.out = WholeUpTo(n - 1)
          /\ Table!Role[n] \in {"header", "prose"}
      BY <1>3, <2>2 DEF StateAt
    <3>2. n \in 1..n /\ n - 1 \in Nat /\ (n - 1) + 1 = n
      BY <1>2, <3>1
    <3>3. Table!Role[n] = RoleAfter(Table!Role[n - 1], n)
      BY <1>2, <3>2, RoleForm
    <3>4. Table!Role[n] = "prose"
      BY <1>2, <3>1, <3>2, <3>3 DEF RoleAfter
    <3>5. Table!Reference[n] = Table!AsIs(n)
      BY <1>2, <3>2, <3>4, WholeIsReference
    <3>6. Append(WholeUpTo(n - 1), Table!Reference[n]) = WholeUpTo(n)
      BY <3>2, WholeGrows
    <3> QED BY <1>1, <1>4, <2>2, <3>1, <3>5, <3>6
  <2> QED BY <2>1, <2>2
<1>6. Table!Reference' = Table!Reference
  BY <1>1 DEF Table!Reference, Table!Role
<1>7. TextInv' /\ fed' \in 0..Len(text'.lines)
  BY <1>1, <1>2 DEF TextInv
<1> QED BY <1>1, <1>5, <1>6, <1>7 DEF TableInv

\* Other steps of the services.
LEMMA TableRests ==
  ASSUME TableInv, UNCHANGED Table!vars
  PROVE  TableInv'
<1>1. /\ text' = text /\ fed' = fed /\ held' = held /\ inTable' = inTable
      /\ out' = out /\ flushed' = flushed
  BY DEF Table!vars
<1>2. Table!Role' = Table!Role /\ Table!Reference' = Table!Reference
  BY <1>1 DEF Table!Role, Table!Reference
<1>3. TextInv' /\ fed' \in 0..Len(text'.lines)
  BY <1>1 DEF TableInv, TextInv
<1>4. ~flushed => StateAt(fed, [held |-> held, inTable |-> inTable, out |-> out])'
  BY <1>1, <1>2 DEF TableInv, StateAt, WholeUpTo
<1> QED BY <1>1, <1>2, <1>3, <1>4 DEF TableInv

\* A beginning of the answer, at most a line behind.
LEMMA TableHonest ==
  ASSUME TableInv
  PROVE  Table!TablesAsWhole
<1> DEFINE n == Len(text.lines)
           R == Table!Reference
<1>1. n \in Nat /\ fed \in 0..n /\ TextInv
  BY DEF TableInv, TextInv
<1>2. \E m \in 0..n : out = WholeUpTo(m) /\ m >= fed - 1 /\ (flushed => m = n)
  <2>1. CASE flushed
    BY <1>1, <2>1, WholeIsReference DEF TableInv
  <2>2. CASE ~flushed
    <3> DEFINE s == [held |-> held, inTable |-> inTable, out |-> out]
    <3>1. s.out = out /\ StateAt(fed, s)
      BY <2>2 DEF TableInv
    <3> HIDE DEF s
    <3>2. out = WholeUpTo(fed) \/ (fed # 0 /\ out = WholeUpTo(fed - 1))
      BY <3>1 DEF StateAt
    <3> QED BY <1>1, <2>2, <3>2
  <2> QED BY <2>1, <2>2
<1>3. PICK m \in 0..n : out = WholeUpTo(m) /\ m >= fed - 1 /\ (flushed => m = n)
  BY <1>2
<1>4. Len(out) = m
  <2>1. m \in Nat
    BY <1>1, <1>3
  <2>2. Len(WholeUpTo(m)) = m
    BY <2>1, WholeGrows
  <2> QED BY <1>3, <2>2
<1>5. WholeUpTo(n) = R
  BY <1>1, WholeIsReference
<1>6. Len(R) = n
  BY <1>1, <1>5, WholeGrows
<1>7. out = SubSeq(R, 1, m)
  <2>1. SubSeq(R, 1, m) = [i \in 1..m |-> R[i]]
    <3>1. R = [i \in 1..n |-> R[i]]
      BY <1>5 DEF WholeUpTo
    <3> HIDE DEF R, n
    <3>2. R \in Seq({R[i] : i \in 1..n})
      BY <1>1, <3>1
    <3> QED BY <1>1, <1>3, <1>6, <3>2
  <2> QED BY <1>3, <2>1 DEF WholeUpTo
<1>8. Len(out) <= Len(R) /\ out = SubSeq(R, 1, Len(out))
  BY <1>1, <1>3, <1>4, <1>6, <1>7
<1>9. flushed => out = R
  BY <1>3, <1>5
<1> QED BY <1>1, <1>3, <1>4, <1>8, <1>9 DEF Table!TablesAsWhole

\* However the tokens of an answer are cut, the normalizer emits a beginning of
\* the answer formatted as a whole (table_format.py:62-109), for answers of any
\* length.
THEOREM TablesAlwaysWhole == ServicesSpec => []TablesAsWhole
<1> DEFINE Inv == subject = "table" => TableInv
<1>1. ServicesInit => Inv
  BY TableStarts DEF ServicesInit
<1>2. Inv /\ [ServicesNext]_servicesVars => Inv'
  <2> SUFFICES ASSUME Inv, [ServicesNext]_servicesVars, subject' = "table" PROVE TableInv'
    OBVIOUS
  <2>1. subject = "table" /\ [Table!Next]_(Table!vars)
    BY SubjectStep
  <2>2. CASE Table!Feed
    BY <2>1, <2>2, TableFeed
  <2>3. CASE Table!Flush
    BY <2>1, <2>3, TableFlush
  <2>4. CASE UNCHANGED Table!vars
    BY <2>1, <2>4, TableRests
  <2> QED BY <2>1, <2>2, <2>3, <2>4 DEF Table!Next
<1>3. Inv => TablesAsWhole
  BY TableHonest DEF TablesAsWhole
<1> QED BY <1>1, <1>2, <1>3, PTL DEF ServicesSpec

-----------------------------------------------------------------------------
(* Sensor values of a range of time.                                       *)

\* A range that was answered is whole, and before nothing is shown.
SensorInv ==
  /\ stored \subseteq Sensor!Row /\ IsFiniteSet(stored)
  /\ IsFiniteSet(request.equipment) /\ request.start \in Int /\ request.end \in Int
  /\ IF stage = "answered" THEN Sensor!WholeRange ELSE answer = <<>>

\* The library's cardinality is the one of the theorems about finite sets.
LEMMA SensorCardinality == ASSUME NEW S PROVE Sensor!Cardinality(S) = Cardinality(S)
BY DEF Sensor!Cardinality, Cardinality

\* What is assumed of the constants.
LEMMA SensorConstants ==
  /\ SensorLine \subseteq SensorEquipment /\ IsFiniteSet(SensorLine)
  /\ Interval \in Nat \ {0} /\ SensorRows \in Nat \ {0} /\ SeriesWindow \in Nat \ {0}
  /\ SensorRows <= 2 * Interval /\ Horizon \in Nat
  /\ \A table \in SensorTables : table \subseteq Sensor!Row /\ IsFiniteSet(table)
BY ServicesAssumption DEF Sensor!SensorAssumption, Sensor!IsFiniteSet, IsFiniteSet

\* What is in the range, of how many, and how long it is.
LEMMA RangeTypes ==
  ASSUME SensorInv
  PROVE  /\ Sensor!InRange \subseteq stored /\ IsFiniteSet(Sensor!InRange)
         /\ Sensor!Count \in Nat \ {0} /\ Sensor!Span \in Nat
         /\ request.equipment # {} => Sensor!Count = Cardinality(request.equipment)
         /\ \A r \in Sensor!InRange :
              /\ r \in Sensor!Row /\ r = [equipment |-> r.equipment, at |-> r.at] /\ r.at \in Int
              /\ r.equipment \in request.equipment /\ r.at - request.start \in 0..Sensor!Span
<1>1. Sensor!InRange \subseteq stored /\ IsFiniteSet(Sensor!InRange)
  BY FS_Subset DEF SensorInv, Sensor!InRange
<1>2. Sensor!Count \in Nat \ {0} /\ (request.equipment # {} => Sensor!Count = Cardinality(request.equipment))
  BY SensorCardinality, FS_EmptySet, FS_CardinalityType DEF SensorInv, Sensor!Count
<1>3. Sensor!Span \in Nat
  BY DEF SensorInv, Sensor!Span
<1>4. ASSUME NEW r \in Sensor!InRange
      PROVE  /\ r \in Sensor!Row /\ r = [equipment |-> r.equipment, at |-> r.at] /\ r.at \in Int
             /\ r.equipment \in request.equipment /\ r.at - request.start \in 0..Sensor!Span
  <2>1. r \in Sensor!Row /\ r.equipment \in request.equipment
        /\ request.start <= r.at /\ r.at <= request.end
    BY <1>4 DEF SensorInv, Sensor!InRange
  <2>2. r = [equipment |-> r.equipment, at |-> r.at] /\ r.at \in Int
    BY <2>1, SensorConstants DEF Sensor!Row, Sensor!Time
  <2> QED BY <2>1, <2>2 DEF SensorInv, Sensor!Span
<1> QED BY <1>1, <1>2, <1>3, <1>4

\* A sequence of a finite set in some order has its members and its length.
LEMMA OrderedHas ==
  ASSUME NEW items, IsFiniteSet(items), NEW s \in Sensor!Ordered(items)
  PROVE  /\ Len(s) = Cardinality(items) /\ Sensor!InOrder(s)
         /\ \A x : x \in items <=> \E i \in DOMAIN s : s[i] = x
<1>1. /\ s \in [1..Cardinality(items) -> items] /\ Sensor!Range(s) = items
      /\ Sensor!InOrder(s)
  BY SensorCardinality DEF Sensor!Ordered
<1>2. Cardinality(items) \in Nat
  BY FS_CardinalityType
<1>3. Len(s) = Cardinality(items)
  BY <1>1, <1>2
<1> QED BY <1>1, <1>3 DEF Sensor!Range

\* A number is a quotient and what is left of it.
LEMMA Remainder ==
  ASSUME NEW a \in Nat, NEW b \in Nat \ {0}
  PROVE  /\ a \div b \in Nat /\ a % b \in 0..(b - 1)
         /\ a = (a \div b) * b + (a % b)
OBVIOUS

\* Rounding the width of a bucket leaves the buckets longer than the range, when
\* each is longer than half the number of buckets.
LEMMA RoundedCovers ==
  ASSUME NEW i \in Nat \ {0}, NEW n \in Nat, n >= 2, n <= 2 * i, NEW a \in Nat, n * i < a
  PROVE  /\ Sensor!Rounded(a, n - 1) \in Nat \ {0}
         /\ a < n * Sensor!Rounded(a, n - 1)
<1> DEFINE d == n - 1
           q == a \div d
           m == a % d
<1>1. d \in Nat \ {0} /\ n = d + 1
  OBVIOUS
<1>2. q \in Nat /\ m \in 0..(d - 1) /\ a = q * d + m
  <2>1. d \in Nat \ {0}
    BY <1>1
  <2> HIDE DEF d
  <2> QED BY <2>1, Remainder
<1>3. Sensor!Rounded(a, d) = IF 2 * m > d \/ (2 * m = d /\ q % 2 = 1) THEN q + 1 ELSE q
  BY DEF Sensor!Rounded
<1> HIDE DEF q, m
<1>4. CASE Sensor!Rounded(a, d) = q + 1
  <2>1. n * (q + 1) = q * d + q + d + 1
    BY <1>1, <1>2
  <2> QED BY <1>1, <1>2, <1>4, <2>1
<1>5. CASE 2 * m <= d /\ Sensor!Rounded(a, d) = q
  <2>1. i <= q
    <3> SUFFICES ASSUME q < i PROVE FALSE
      BY <1>2
    <3>1. (q + 1) * d <= i * d
      BY <1>1, <1>2, ProductGrows
    <3>2. (q + 1) * d = q * d + d /\ n * i = i * d + i
      BY <1>1, <1>2
    <3> QED BY <1>1, <1>2, <3>1, <3>2
  <2>2. m < q
    BY <1>1, <1>2, <1>5, <2>1
  <2>3. n * q = q * d + q
    BY <1>1, <1>2
  <2> QED BY <1>1, <1>2, <1>5, <2>1, <2>2, <2>3
<1> QED BY <1>1, <1>2, <1>3, <1>4, <1>5

\* The buckets of a range with too many rows reach over its end, and those of all
\* equipment keep the limit.
LEMMA BucketsCover ==
  ASSUME SensorInv, Sensor!TooMany, 2 * Sensor!Count <= SensorRows
  PROVE  /\ Sensor!Width \in Nat \ {0} /\ Sensor!Buckets \in Nat \ {0}
         /\ Sensor!Buckets * Sensor!Count <= SensorRows
         /\ Sensor!Span < Sensor!Buckets * Sensor!Width
<1> DEFINE c == Sensor!Count
           n == SensorRows \div c
<1>1. c \in Nat \ {0} /\ Sensor!Span \in Nat /\ 2 * c <= SensorRows
  BY RangeTypes
<1>2. SensorRows \in Nat \ {0} /\ Interval \in Nat \ {0} /\ SensorRows <= 2 * Interval
  BY SensorConstants
<1>3. Sensor!Span * c > SensorRows * Interval
  BY DEF Sensor!TooMany
<1> HIDE DEF c
<1>4. n \in Nat /\ n * c <= SensorRows /\ SensorRows < n * c + c
  BY <1>1, <1>2, Quotient
<1> HIDE DEF n
<1>5. 2 <= n
  <2> SUFFICES ASSUME n <= 1 PROVE FALSE
    BY <1>4
  <2> QED BY <1>1, <1>2, <1>4
<1>6. Sensor!Buckets = n
  BY <1>4, <1>5 DEF Sensor!Buckets, n, c
<1>7. n <= 2 * Interval
  <2>1. 1 * n <= c * n
    BY <1>1, <1>4, ProductGrows
  <2> QED BY <1>1, <1>2, <1>4, <2>1
<1>8. n * Interval < Sensor!Span
  <2> SUFFICES ASSUME Sensor!Span <= n * Interval PROVE FALSE
    BY <1>1, <1>2, <1>4
  <2>1. n * Interval \in Nat
    BY <1>2, <1>4
  <2>2. Sensor!Span * c <= (n * Interval) * c
    BY <1>1, <2>1, ProductGrows
  <2>3. (n * c) * Interval <= SensorRows * Interval
    BY <1>1, <1>2, <1>4, ProductGrows
  <2>4. (n * Interval) * c = (n * c) * Interval
    BY <1>1, <1>2, <1>4
  <2> QED BY <1>1, <1>2, <1>3, <1>4, <2>2, <2>3, <2>4
<1>9. Sensor!Width = Sensor!Rounded(Sensor!Span, n - 1)
  BY <1>6 DEF Sensor!Width
<1>10. Sensor!Width \in Nat \ {0} /\ Sensor!Span < n * Sensor!Width
  BY <1>1, <1>2, <1>4, <1>5, <1>7, <1>8, <1>9, RoundedCovers
<1> QED BY <1>1, <1>4, <1>5, <1>6, <1>10 DEF c

\* The buckets with rows are no more than the limit.
LEMMA BinsFew ==
  ASSUME SensorInv, Sensor!TooMany, 2 * Sensor!Count <= SensorRows
  PROVE  IsFiniteSet(Sensor!Bins) /\ Cardinality(Sensor!Bins) <= SensorRows
<1> DEFINE width == Sensor!Width
           n == Sensor!Buckets
           places == request.equipment \X (0..(n - 1))
           place(p) == [equipment |-> p[1], at |-> request.start + p[2] * width]
           at(p) == [bin |-> place(p), rows |-> {x \in Sensor!InRange : Sensor!BinOf(x) = place(p)}]
           fill == [p \in places |-> at(p)]
           all == {at(p) : p \in places}
<1>1. /\ width \in Nat \ {0} /\ n \in Nat \ {0} /\ n * Sensor!Count <= SensorRows
      /\ Sensor!Span < n * width
  BY BucketsCover
<1>2. IsFiniteSet(places) /\ Cardinality(places) = Cardinality(request.equipment) * n
  <2>1. IsFiniteSet(0..(n - 1)) /\ Cardinality(0..(n - 1)) = n
    BY <1>1, FS_Interval
  <2>2. IsFiniteSet(request.equipment)
    BY DEF SensorInv
  <2> QED BY <2>1, <2>2, FS_Product
<1>3. fill \in Surjection(places, all)
  BY DEF Surjection
<1>4. IsFiniteSet(all) /\ Cardinality(all) <= Cardinality(places)
  BY <1>2, <1>3, FS_Surjection
<1>5. ASSUME NEW r \in Sensor!InRange
      PROVE  \E p \in places : place(p) = Sensor!BinOf(r)
  <2> DEFINE k == (r.at - request.start) \div width
  <2>1. r.equipment \in request.equipment /\ r.at - request.start \in 0..Sensor!Span
    BY RangeTypes
  <2>2. Sensor!Span \in Nat
    BY RangeTypes
  <2>3. k \in Nat /\ k * width <= r.at - request.start
    BY <1>1, <2>1, <2>2, Quotient
  <2> HIDE DEF k
  <2>4. k < n
    <3> SUFFICES ASSUME n <= k PROVE FALSE
      BY <1>1, <2>3
    <3>1. n * width <= k * width
      BY <1>1, <2>3, ProductGrows
    <3> QED BY <1>1, <2>1, <2>2, <2>3, <3>1
  <2>5. <<r.equipment, k>> \in places
    BY <1>1, <2>1, <2>3, <2>4
  <2>6. place(<<r.equipment, k>>) = Sensor!BinOf(r)
    BY DEF Sensor!BinOf, k
  <2> QED BY <2>5, <2>6
<1>6. Sensor!Bins \subseteq all
  <2> SUFFICES ASSUME NEW b \in Sensor!Bins PROVE b \in all
    OBVIOUS
  <2>1. PICK r \in Sensor!InRange :
          b = [bin |-> Sensor!BinOf(r),
               rows |-> {x \in Sensor!InRange : Sensor!BinOf(x) = Sensor!BinOf(r)}]
    BY DEF Sensor!Bins
  <2>2. PICK p \in places : place(p) = Sensor!BinOf(r)
    BY <1>5
  <2> QED BY <2>1, <2>2
<1>7. IsFiniteSet(Sensor!Bins) /\ Cardinality(Sensor!Bins) <= Cardinality(all)
  BY <1>4, <1>6, FS_Subset
<1>8. Cardinality(request.equipment) * n <= SensorRows
  <2>1. CASE request.equipment = {}
    <3>1. Cardinality(request.equipment) * n = 0
      BY <1>1, <2>1, FS_EmptySet
    <3> QED BY <3>1, SensorConstants
  <2>2. CASE request.equipment # {}
    <3>1. Sensor!Count = Cardinality(request.equipment) /\ Sensor!Count \in Nat
      BY <2>2, RangeTypes
    <3> QED BY <1>1, <3>1
  <2> QED BY <2>1, <2>2
<1> QED BY <1>2, <1>4, <1>7, <1>8, FS_CardinalityType, SensorConstants

\* Cut to the limit, the buckets are all there, and every row is in one.
LEMMA BinsWhole ==
  ASSUME SensorInv, Sensor!TooMany, 2 * Sensor!Count <= SensorRows,
         NEW items \in Sensor!Oldest(Sensor!Bins)
  PROVE  /\ IsFiniteSet(items) /\ Cardinality(items) <= SensorRows
         /\ \A r : (\E b \in items : r \in b.rows) <=> r \in Sensor!InRange
<1>1. items \subseteq Sensor!Bins
      /\ Cardinality(items) = Sensor!Limited(Cardinality(Sensor!Bins))
  BY SensorCardinality DEF Sensor!Oldest
<1>2. IsFiniteSet(Sensor!Bins) /\ Cardinality(Sensor!Bins) <= SensorRows
      /\ Cardinality(Sensor!Bins) \in Nat
  BY BinsFew, FS_CardinalityType
<1>3. Sensor!Limited(Cardinality(Sensor!Bins)) = Cardinality(Sensor!Bins)
  BY <1>2, SensorConstants DEF Sensor!Limited
<1>4. items = Sensor!Bins
  BY <1>1, <1>2, <1>3, FS_Subset
<1>5. ASSUME NEW r, NEW b \in items, r \in b.rows PROVE r \in Sensor!InRange
  BY <1>4, <1>5 DEF Sensor!Bins
<1>6. ASSUME NEW r \in Sensor!InRange PROVE \E b \in items : r \in b.rows
  <2> DEFINE b == [bin |-> Sensor!BinOf(r),
                   rows |-> {x \in Sensor!InRange : Sensor!BinOf(x) = Sensor!BinOf(r)}]
  <2>1. b \in items /\ r \in b.rows
    BY <1>4 DEF Sensor!Bins
  <2> QED BY <2>1
<1> QED BY <1>2, <1>4, <1>5, <1>6

\* Spaced rows of a range that is not cut are no more than the limit and one of
\* each equipment: an interval has one row, and the start may have another.
LEMMA RangeFew ==
  ASSUME SensorInv, ~Sensor!TooMany, Sensor!Spaced(stored)
  PROVE  Cardinality(Sensor!InRange) <= SensorRows + Sensor!Count
<1> DEFINE c == Sensor!Count
           k == Sensor!Span \div Interval
           places == request.equipment \X (0..k)
           slot(r) == (r.at - request.start) \div Interval
           place == [r \in Sensor!InRange |-> <<r.equipment, slot(r)>>]
<1>1. /\ Interval \in Nat \ {0} /\ SensorRows \in Nat \ {0}
      /\ c \in Nat \ {0} /\ Sensor!Span \in Nat
  BY SensorConstants, RangeTypes
<1>2. k \in Nat /\ k * Interval <= Sensor!Span /\ Sensor!Span < k * Interval + Interval
  BY <1>1, Quotient
<1>3. Sensor!Span * c <= SensorRows * Interval
  <2>1. Sensor!Span * c \in Nat /\ SensorRows * Interval \in Nat
    BY <1>1
  <2>2. Sensor!Span = 0 => Sensor!Span * c = 0
    BY <1>1
  <2> QED BY <1>1, <2>1, <2>2 DEF Sensor!TooMany
<1> HIDE DEF c, k
<1>4. k * c <= SensorRows
  <2> SUFFICES ASSUME SensorRows + 1 <= k * c PROVE FALSE
    BY <1>1, <1>2
  <2>1. k * c \in Nat /\ k * Interval \in Nat
    BY <1>1, <1>2
  <2>2. (SensorRows + 1) * Interval <= (k * c) * Interval
    BY <1>1, <2>1, ProductGrows
  <2>3. (k * Interval) * c <= Sensor!Span * c
    BY <1>1, <1>2, <2>1, ProductGrows
  <2>4. (k * Interval) * c = (k * c) * Interval
    BY <1>1, <1>2
  <2>5. (SensorRows + 1) * Interval = SensorRows * Interval + Interval
    BY <1>1
  <2> QED BY <1>1, <1>2, <1>3, <2>1, <2>2, <2>3, <2>4, <2>5
<1>5. ASSUME NEW r \in Sensor!InRange
      PROVE  /\ r.equipment \in request.equipment /\ slot(r) \in 0..k
             /\ slot(r) * Interval <= r.at - request.start
             /\ r.at - request.start < slot(r) * Interval + Interval
  <2>1. r.equipment \in request.equipment /\ r.at - request.start \in Nat
        /\ r.at - request.start <= Sensor!Span
    BY <1>1, RangeTypes
  <2>2. /\ slot(r) \in Nat /\ slot(r) * Interval <= r.at - request.start
        /\ r.at - request.start < slot(r) * Interval + Interval
    BY <1>1, <2>1, Quotient
  <2> HIDE DEF slot
  <2>3. slot(r) <= k
    <3> SUFFICES ASSUME k + 1 <= slot(r) PROVE FALSE
      BY <1>2, <2>2
    <3>1. (k + 1) * Interval <= slot(r) * Interval
      BY <1>1, <1>2, <2>2, ProductGrows
    <3>2. (k + 1) * Interval = k * Interval + Interval
      BY <1>1, <1>2
    <3> QED BY <1>1, <1>2, <2>1, <2>2, <3>1, <3>2
  <2> QED BY <1>2, <2>1, <2>2, <2>3
<1> HIDE DEF slot
<1>6. ASSUME NEW r \in Sensor!InRange, NEW t \in Sensor!InRange,
             r.equipment = t.equipment, slot(r) = slot(t)
      PROVE  r = t
  <2>1. r.at \in Int /\ t.at \in Int /\ r \in stored /\ t \in stored /\ request.start \in Int
    BY RangeTypes DEF SensorInv
  <2>2. slot(r) \in Nat /\ slot(r) * Interval \in Nat
    BY <1>1, <1>2, <1>5
  <2>3. r.at < t.at + Interval /\ t.at < r.at + Interval
    BY <1>1, <1>5, <1>6, <2>1, <2>2
  <2>4. ~(r.at < t.at) /\ ~(t.at < r.at)
    BY <1>1, <1>6, <2>1, <2>3 DEF Sensor!Spaced
  <2>5. r.at = t.at
    BY <2>1, <2>4
  <2> QED BY <1>6, <2>5, RangeTypes
<1>7. place \in Injection(Sensor!InRange, places)
  BY <1>5, <1>6 DEF Injection, IsInjective
<1>8. IsFiniteSet(places) /\ Cardinality(places) = Cardinality(request.equipment) * (k + 1)
  <2>1. IsFiniteSet(0..k) /\ Cardinality(0..k) = k + 1
    BY <1>2, FS_Interval
  <2>2. IsFiniteSet(request.equipment)
    BY DEF SensorInv
  <2> QED BY <2>1, <2>2, FS_Product
<1>9. Cardinality(Sensor!InRange) <= Cardinality(places)
  BY <1>7, <1>8, FS_Injection
<1>10. Cardinality(places) <= SensorRows + c
  <2>1. CASE request.equipment = {}
    <3>1. Cardinality(request.equipment) * (k + 1) = 0
      BY <1>2, <2>1, FS_EmptySet
    <3> QED BY <1>1, <1>8, <3>1
  <2>2. CASE request.equipment # {}
    <3>1. Cardinality(request.equipment) = c
      BY <2>2, RangeTypes DEF c
    <3>2. c * (k + 1) = k * c + c
      BY <1>1, <1>2
    <3>3. k * c \in Nat
      BY <1>1, <1>2
    <3> QED BY <1>1, <1>4, <1>8, <3>1, <3>2, <3>3
  <2> QED BY <2>1, <2>2
<1>11. Cardinality(Sensor!InRange) \in Nat /\ Cardinality(places) \in Nat
  BY <1>8, RangeTypes, FS_CardinalityType
<1> QED BY <1>1, <1>9, <1>10, <1>11 DEF c

\* Newer than a row that is not of the latest of its equipment are as many of
\* the latest as the limit.
LEMMA LatestEnough ==
  ASSUME SensorInv, NEW r \in Sensor!InRange, r \notin Sensor!Latest
  PROVE  \E N \in SUBSET Sensor!Latest :
           /\ IsFiniteSet(N) /\ SensorRows <= Cardinality(N)
           /\ \A x \in N : r.at < x.at
<1> DEFINE above(x) == {y \in Sensor!InRange : y.equipment = x.equipment /\ y.at > x.at}
           old == {x \in Sensor!InRange : /\ x \notin Sensor!Latest /\ r.at <= x.at}
           counts == {Cardinality(above(x)) : x \in old}
<1>1. /\ IsFiniteSet(Sensor!InRange) /\ \A x \in Sensor!InRange : x.at \in Int
      /\ SensorRows \in Nat
  BY RangeTypes, SensorConstants
<1>2. \A x \in Sensor!InRange :
        IsFiniteSet(above(x)) /\ Cardinality(above(x)) \in Nat
  BY <1>1, FS_Subset, FS_CardinalityType
<1>3. Sensor!Latest = {x \in Sensor!InRange : Cardinality(above(x)) < SensorRows}
  BY SensorCardinality DEF Sensor!Latest
<1>4. counts \in SUBSET Nat /\ counts # {}
  <2>1. r \in old
    BY <1>1
  <2> HIDE DEF above
  <2> QED BY <1>2, <2>1
<1>5. PICK m \in counts : \A n \in counts : m <= n
  BY <1>4, LeastNatural
<1>6. PICK x \in old : m = Cardinality(above(x))
  BY <1>5
<1> HIDE DEF above
<1>7. ASSUME NEW y \in above(x) PROVE y \in Sensor!Latest /\ r.at < y.at
  <2>1. y \in Sensor!InRange /\ y.equipment = x.equipment /\ y.at > x.at
    BY <1>7 DEF above
  <2>2. r.at < y.at /\ r.at <= y.at
    BY <1>1, <1>6, <2>1
  <2>3. above(y) \subseteq above(x) /\ y \notin above(y)
    BY <1>1, <1>6, <2>1 DEF above
  <2>4. Cardinality(above(y)) < Cardinality(above(x))
    <3>1. Cardinality(above(y)) <= Cardinality(above(x))
          /\ (Cardinality(above(x)) = Cardinality(above(y)) => above(x) = above(y))
      BY <1>2, <1>6, <2>3, FS_Subset
    <3> QED BY <1>2, <1>6, <1>7, <2>1, <2>3, <3>1
  <2>5. y \notin old
    BY <1>2, <1>5, <1>6, <2>1, <2>4
  <2> QED BY <2>1, <2>2, <2>5
<1>8. SensorRows <= Cardinality(above(x))
  BY <1>1, <1>2, <1>3, <1>6
<1> QED BY <1>2, <1>6, <1>7, <1>8

\* Raw rows are what they show: as many as the limit, and when spaced all but one
\* row of each equipment, each missing one no newer than those shown.
LEMMA RawWhole ==
  ASSUME SensorInv, ~Sensor!TooMany, NEW items \in Sensor!Raw
  PROVE  /\ IsFiniteSet(items) /\ Cardinality(items) <= SensorRows
         /\ \E S \in SUBSET Sensor!InRange :
              /\ \A r : (\E b \in items : r \in b.rows) <=> r \in S
              /\ Sensor!Spaced(stored) => Cardinality(Sensor!InRange \ S) <= Sensor!Count
              /\ \A r \in Sensor!InRange \ S, t \in S : r.at <= t.at
<1>1. PICK S \in Sensor!Newest(Sensor!Latest) :
        items = {[bin |-> r, rows |-> {r}] : r \in S}
  BY DEF Sensor!Raw
<1>2. /\ IsFiniteSet(Sensor!InRange) /\ Sensor!Count \in Nat /\ SensorRows \in Nat
      /\ \A r \in Sensor!InRange : r.at \in Int
  BY RangeTypes, SensorConstants
<1>3. Sensor!Latest \subseteq Sensor!InRange /\ IsFiniteSet(Sensor!Latest)
      /\ Cardinality(Sensor!Latest) \in Nat
  <2>1. Sensor!Latest \subseteq Sensor!InRange
    BY DEF Sensor!Latest
  <2> QED BY <1>2, <2>1, FS_Subset, FS_CardinalityType
<1>4. /\ S \subseteq Sensor!Latest
      /\ Cardinality(S) = Sensor!Limited(Cardinality(Sensor!Latest))
      /\ \A t \in S, r \in Sensor!Latest \ S : r.at <= t.at
  BY <1>1, SensorCardinality DEF Sensor!Newest
<1>5. IsFiniteSet(S) /\ Cardinality(S) \in Nat /\ Cardinality(S) <= SensorRows
      /\ (Cardinality(S) < SensorRows => Cardinality(S) = Cardinality(Sensor!Latest))
  BY <1>2, <1>3, <1>4, FS_Subset DEF Sensor!Limited
<1>6. IsFiniteSet(items) /\ Cardinality(items) <= SensorRows
  <2> DEFINE item == [r \in S |-> [bin |-> r, rows |-> {r}]]
  <2>1. item \in Surjection(S, items)
    BY <1>1 DEF Surjection
  <2>2. IsFiniteSet(items) /\ Cardinality(items) <= Cardinality(S)
    BY <1>5, <2>1, FS_Surjection
  <2> QED BY <1>2, <1>5, <2>2, FS_CardinalityType
<1>7. \A r : (\E b \in items : r \in b.rows) <=> r \in S
  <2>1. \A r \in S : [bin |-> r, rows |-> {r}] \in items
    BY <1>1
  <2>2. \A b \in items : \E r \in S : b.rows = {r}
    BY <1>1
  <2>3. ASSUME NEW r \in S PROVE \E b \in items : r \in b.rows
    <3> DEFINE b == [bin |-> r, rows |-> {r}]
    <3>1. b \in items /\ r \in b.rows
      BY <2>1
    <3> QED BY <3>1
  <2> QED BY <2>2, <2>3
<1>8. ASSUME NEW r \in Sensor!InRange \ S
      PROVE  Cardinality(S) = SensorRows /\ \A t \in S : r.at <= t.at
  <2>1. CASE r \in Sensor!Latest
    <3>1. Cardinality(S) # Cardinality(Sensor!Latest)
      BY <1>3, <1>4, <1>8, <2>1, FS_Subset
    <3> QED BY <1>2, <1>4, <1>5, <1>8, <2>1, <3>1
  <2>2. CASE r \notin Sensor!Latest
    <3>1. PICK N \in SUBSET Sensor!Latest :
            /\ IsFiniteSet(N) /\ SensorRows <= Cardinality(N)
            /\ \A x \in N : r.at < x.at
      BY <2>2, LatestEnough
    <3>2. Cardinality(N) \in Nat /\ Cardinality(N) <= Cardinality(Sensor!Latest)
      BY <1>3, <3>1, FS_Subset, FS_CardinalityType
    <3>3. Cardinality(S) = SensorRows
      BY <1>2, <1>3, <1>5, <3>1, <3>2
    <3>4. ASSUME NEW t \in S PROVE r.at <= t.at
      <4>1. CASE t \in N
        BY <1>2, <1>3, <1>4, <3>1, <4>1
      <4>2. CASE t \notin N
        <5>1. ~(N \subseteq S)
          <6> SUFFICES ASSUME N \subseteq S PROVE FALSE
            OBVIOUS
          <6>1. Cardinality(N) <= Cardinality(S)
                /\ (Cardinality(S) = Cardinality(N) => S = N)
            BY <1>5, FS_Subset
          <6> QED BY <1>2, <1>5, <3>1, <3>2, <3>3, <4>2, <6>1
        <5>2. PICK x \in N : x \notin S
          BY <5>1
        <5>3. r.at < x.at /\ x.at <= t.at
          BY <1>4, <3>1, <5>2
        <5>4. r.at \in Int /\ x.at \in Int /\ t.at \in Int
          BY <1>2, <1>3, <1>4
        <5> QED BY <5>3, <5>4
      <4> QED BY <4>1, <4>2
    <3> QED BY <3>3, <3>4
  <2> QED BY <2>1, <2>2
<1>9. ASSUME Sensor!Spaced(stored) PROVE Cardinality(Sensor!InRange \ S) <= Sensor!Count
  <2> DEFINE rest == Sensor!InRange \ S
  <2>1. IsFiniteSet(rest) /\ Cardinality(rest) \in Nat
    BY <1>2, FS_Subset, FS_CardinalityType
  <2>2. ASSUME rest # {} PROVE Cardinality(rest) <= Sensor!Count
    <3>1. Cardinality(S) = SensorRows
      BY <1>8, <2>2
    <3>2. Cardinality(S \cup rest) = Cardinality(S) + Cardinality(rest) - Cardinality(S \cap rest)
      BY <1>5, <2>1, FS_Union
    <3>3. S \cup rest = Sensor!InRange /\ S \cap rest = {}
      BY <1>3, <1>4
    <3> HIDE DEF rest
    <3>4. Cardinality(S \cup rest) = Cardinality(Sensor!InRange) /\ Cardinality(S \cap rest) = 0
      BY <3>3, FS_EmptySet
    <3>5. Cardinality(Sensor!InRange) <= SensorRows + Sensor!Count
      BY <1>9, RangeFew
    <3> QED BY <1>2, <2>1, <3>1, <3>2, <3>4, <3>5
  <2>3. rest = {} => Cardinality(rest) = 0
    BY FS_EmptySet
  <2> HIDE DEF rest
  <2>4. Cardinality(rest) <= Sensor!Count
    BY <1>2, <2>2, <2>3
  <2> QED BY <2>4 DEF rest
<1> QED BY <1>3, <1>4, <1>6, <1>7, <1>8, <1>9

\* What is answered is whole.
LEMMA AnswerWhole ==
  ASSUME SensorInv, 2 * Sensor!Count <= SensorRows,
         NEW items \in Sensor!Logs, NEW s \in Sensor!Ordered(items)
  PROVE  LET all == UNION {s[i].rows : i \in DOMAIN s}
             missing == Sensor!InRange \ all
         IN /\ Len(s) <= SensorRows
            /\ all \subseteq Sensor!InRange
            /\ Sensor!Spaced(stored) => Cardinality(missing) <= Sensor!Count
            /\ \A r \in missing, t \in all : r.at <= t.at
            /\ Sensor!InOrder(s)
<1> DEFINE all == UNION {s[i].rows : i \in DOMAIN s}
<1>1. /\ IsFiniteSet(items) /\ Cardinality(items) <= SensorRows
      /\ \E S \in SUBSET Sensor!InRange :
           /\ \A r : (\E b \in items : r \in b.rows) <=> r \in S
           /\ Sensor!Spaced(stored) => Cardinality(Sensor!InRange \ S) <= Sensor!Count
           /\ \A r \in Sensor!InRange \ S, t \in S : r.at <= t.at
  <2>1. CASE Sensor!TooMany
    <3>1. items \in Sensor!Oldest(Sensor!Bins)
      BY <2>1 DEF Sensor!Logs
    <3>2. /\ IsFiniteSet(items) /\ Cardinality(items) <= SensorRows
          /\ \A r : (\E b \in items : r \in b.rows) <=> r \in Sensor!InRange
      BY <2>1, <3>1, BinsWhole
    <3>3. Sensor!InRange \ Sensor!InRange = {} /\ Sensor!Count \in Nat
      BY RangeTypes
    <3>4. Cardinality(Sensor!InRange \ Sensor!InRange) = 0
      BY <3>3, FS_EmptySet
    <3>5. Cardinality(Sensor!InRange \ Sensor!InRange) <= Sensor!Count
      BY <3>3, <3>4
    <3> QED BY <3>2, <3>3, <3>5
  <2>2. CASE ~Sensor!TooMany
    <3>1. items \in Sensor!Raw
      BY <2>2 DEF Sensor!Logs
    <3> QED BY <2>2, <3>1, RawWhole
  <2> QED BY <2>1, <2>2
<1>2. PICK S \in SUBSET Sensor!InRange :
        /\ \A r : (\E b \in items : r \in b.rows) <=> r \in S
        /\ Sensor!Spaced(stored) => Cardinality(Sensor!InRange \ S) <= Sensor!Count
        /\ \A r \in Sensor!InRange \ S, t \in S : r.at <= t.at
  BY <1>1
<1>3. /\ Len(s) = Cardinality(items) /\ Sensor!InOrder(s)
      /\ \A x : x \in items <=> \E i \in DOMAIN s : s[i] = x
  BY <1>1, OrderedHas
<1>4. all = S
  <2>1. \A r : r \in all <=> \E b \in items : r \in b.rows
    BY <1>3
  <2> QED BY <1>2, <2>1
<1> HIDE DEF all
<1>5. /\ Len(s) <= SensorRows /\ all \subseteq Sensor!InRange
      /\ Sensor!Spaced(stored) => Cardinality(Sensor!InRange \ all) <= Sensor!Count
      /\ \A r \in Sensor!InRange \ all, t \in all : r.at <= t.at
      /\ Sensor!InOrder(s)
  BY <1>1, <1>2, <1>3, <1>4
<1> QED BY <1>5 DEF all

\* At the start nothing is answered.
LEMMA SensorStarts == Sensor!Init => SensorInv
<1> SUFFICES ASSUME Sensor!Init PROVE SensorInv
  OBVIOUS
<1>1. stored \subseteq Sensor!Row /\ IsFiniteSet(stored)
  BY SensorConstants DEF Sensor!Init
<1>2. /\ request.start \in Int /\ request.end \in Int
      /\ stage = "asked" /\ answer = <<>>
  BY SensorConstants DEF Sensor!Init, Sensor!Asked, Sensor!Time, Sensor!None
<1>3. request.equipment = SensorLine \/ \E e \in SensorEquipment : request.equipment = {e}
  BY DEF Sensor!Init, Sensor!Asked
<1>4. IsFiniteSet(request.equipment)
  BY <1>3, SensorConstants, FS_Singleton
<1> QED BY <1>1, <1>2, <1>4 DEF SensorInv

\* Every step keeps what was answered whole.
LEMMA SensorStep ==
  ASSUME SensorInv, [Sensor!Next]_(Sensor!vars)
  PROVE  SensorInv'
<1>1. CASE UNCHANGED Sensor!vars
  <2>1. /\ Sensor!InRange' = Sensor!InRange /\ Sensor!Count' = Sensor!Count
        /\ Sensor!InOrder(answer)' = Sensor!InOrder(answer)
        /\ Sensor!Spaced(stored)' = Sensor!Spaced(stored)
        /\ stored' = stored /\ request' = request /\ stage' = stage /\ answer' = answer
    BY <1>1 DEF Sensor!vars, Sensor!InRange, Sensor!Count, Sensor!InOrder, Sensor!Spaced
  <2>2. Sensor!WholeRange' = Sensor!WholeRange
    BY <2>1 DEF Sensor!WholeRange
  <2> QED BY <2>1, <2>2 DEF SensorInv
<1>2. CASE Sensor!Anchor
  <2>1. PICK row \in {r \in stored : r.equipment \in request.equipment} :
          LET end == IF request.end = Sensor!None THEN row.at ELSE request.end
          IN request' = [kind |-> "series", equipment |-> request.equipment, end |-> end,
                         start |-> IF request.start = Sensor!None THEN end - SeriesWindow
                                   ELSE request.start]
    BY <1>2 DEF Sensor!Anchor
  <2>2. row.at \in Int /\ SeriesWindow \in Int
    BY SensorConstants DEF SensorInv, Sensor!Row, Sensor!Time
  <2>3. /\ request'.equipment = request.equipment
        /\ request'.start \in Int /\ request'.end \in Int
    BY <2>1, <2>2 DEF SensorInv
  <2>4. stored' = stored /\ stage' = "anchored" /\ answer' = answer /\ stage = "asked"
    BY <1>2 DEF Sensor!Anchor
  <2> QED BY <2>3, <2>4 DEF SensorInv
<1>3. CASE Sensor!AnchorMissing
  <2>1. /\ stored' = stored /\ request' = request /\ answer' = answer /\ stage' = "answered"
        /\ ~ \E r \in stored : r.equipment \in request.equipment
    BY <1>3 DEF Sensor!AnchorMissing
  <2>2. Sensor!WholeRange'
    <3>1. Sensor!InRange' = {} /\ Sensor!Count' \in Nat /\ SensorRows \in Nat
      BY <2>1, RangeTypes, SensorConstants DEF Sensor!InRange, Sensor!Count
    <3>2. answer' = <<>>
      BY <1>3, <2>1 DEF SensorInv, Sensor!AnchorMissing
    <3>3. UNION {answer'[k].rows : k \in DOMAIN answer'} = {} /\ Len(answer') = 0
          /\ Sensor!InOrder(answer)'
      BY <3>2 DEF Sensor!InOrder
    <3> QED BY <3>1, <3>3, SensorCardinality, FS_EmptySet DEF Sensor!WholeRange
  <2> QED BY <2>1, <2>2 DEF SensorInv
<1>4. CASE Sensor!Answer
  <2>1. PICK items \in Sensor!Logs : answer' \in Sensor!Ordered(items)
    BY <1>4 DEF Sensor!Answer
  <2>2. stored' = stored /\ request' = request /\ stage' = "answered"
    BY <1>4 DEF Sensor!Answer
  <2>3. Sensor!InRange' = Sensor!InRange /\ Sensor!Count' = Sensor!Count
    BY <2>2 DEF Sensor!InRange, Sensor!Count
  <2>4. /\ Sensor!InOrder(answer)' <=> Sensor!InOrder(answer')
        /\ Sensor!Spaced(stored)' <=> Sensor!Spaced(stored)
    BY <2>2 DEF Sensor!InOrder, Sensor!Spaced
  <2>5. Sensor!WholeRange'
    <3> DEFINE all == UNION {answer'[k].rows : k \in DOMAIN answer'}
    <3>1. 2 * Sensor!Count <= SensorRows =>
            /\ Len(answer') <= SensorRows /\ all \subseteq Sensor!InRange
            /\ Sensor!Spaced(stored) => Cardinality(Sensor!InRange \ all) <= Sensor!Count
            /\ \A r \in Sensor!InRange \ all, t \in all : r.at <= t.at
            /\ Sensor!InOrder(answer')
      BY <2>1, AnswerWhole
    <3>2. Sensor!Cardinality(Sensor!InRange \ all) = Cardinality(Sensor!InRange \ all)
      BY SensorCardinality
    <3>3. Sensor!WholeRange' <=>
            ((stage' = "answered" /\ request'.end # Sensor!None /\ 2 * Sensor!Count' <= SensorRows) =>
               /\ Len(answer') <= SensorRows /\ all \subseteq Sensor!InRange'
               /\ Sensor!Spaced(stored)' => Sensor!Cardinality(Sensor!InRange' \ all) <= Sensor!Count'
               /\ \A r \in Sensor!InRange' \ all, t \in all : r.at <= t.at
               /\ Sensor!InOrder(answer)')
      BY DEF Sensor!WholeRange
    <3> HIDE DEF all
    <3> QED BY <2>3, <2>4, <3>1, <3>2, <3>3
  <2> QED BY <2>2, <2>5 DEF SensorInv
<1>5. CASE Sensor!Arrive
  <2>1. PICK e \in SensorEquipment, t \in Sensor!Time :
          stored' = stored \cup {[equipment |-> e, at |-> t]}
    BY <1>5 DEF Sensor!Arrive
  <2>2. [equipment |-> e, at |-> t] \in Sensor!Row /\ IsFiniteSet(stored')
    BY <2>1, FS_AddElement DEF Sensor!Row, SensorInv
  <2>3. request' = request /\ stage' = "late" /\ answer' = answer /\ stage = "anchored"
    BY <1>5 DEF Sensor!Arrive
  <2> QED BY <2>1, <2>2, <2>3 DEF SensorInv
<1> QED BY <1>1, <1>2, <1>3, <1>4, <1>5 DEF Sensor!Next

\* What is answered of a range keeps the limit and lacks only its oldest rows: of
\* spaced ones no more than one of each equipment, whether they are few or averaged
\* (telemetry/repository.py:143-210, service.py:118-153).
THEOREM RangeAlwaysWhole == ServicesSpec => []WholeRange
<1> DEFINE I == subject = "sensor" => SensorInv
<1>1. ServicesInit => I
  BY SensorStarts DEF ServicesInit
<1>2. I /\ [ServicesNext]_servicesVars => I'
  BY SubjectStep, SensorStep
<1>3. I => WholeRange
  BY DEF WholeRange, SensorInv, Sensor!WholeRange
<1> QED BY <1>1, <1>2, <1>3, PTL DEF ServicesSpec

=============================================================================
