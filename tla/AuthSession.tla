----------------------------- MODULE AuthSession -----------------------------
(***************************************************************************)
(* Sign-in and the server-side session: the login state, the callback, the *)
(* refresh, the logout and the check every request passes, over the keys   *)
(* they share in Redis (auth/router.py, service.py, middleware.py,         *)
(* redis_store.py).                                                        *)
(*                                                                         *)
(* Each Redis command is one step; between two of a handler anything may   *)
(* happen.  A session is named by the callback that made it                *)
(* (token_urlsafe), and only its expires_at is kept of its fields.  A key  *)
(* disappears by itself when its deadline (EXPIRE) has come.  What the     *)
(* identity provider answers, and whether its token verifies, is open.     *)
(* One person signs in, by one authorization URL.  Audit events are best   *)
(* effort and left out.                                                    *)
(***************************************************************************)
EXTENDS Integers

CONSTANTS
  Request,     \* callbacks, refreshes, logouts and other calls
  NoSession,
  Ttl,         \* auth_session_ttl_seconds
  StateTtl,    \* auth_state_ttl_seconds
  MaxTime      \* bound: the clock

ASSUME AuthAssumption ==
  /\ NoSession \notin Request
  /\ Ttl \in Nat \ {0} /\ StateTtl \in Nat \ {0} /\ MaxTime \in Nat

VARIABLES
  now,        \* the clock of API and Redis
  stateKey,   \* the login state: "absent", "stored" or "used"
  stateDies,  \* its deadline
  expires,    \* [Request -> expires_at of the session], Absent without a key
  dies,       \* [Request -> deadline of its key]
  issued,     \* sessions whose id was sent as a cookie
  account,    \* the person has a local user and an SSO account
  pc,         \* [Request -> what its handler does next]
  sid,        \* [Request -> the session it works on]
  loggedOut,  \* history: sessions a logout deleted
  overlapped, \* history: those deleted while a refresh was about to write
  cut         \* history: sessions and login states (NoSession) whose writer
              \* was stopped between its two commands

redis == <<stateKey, stateDies, expires, dies>>
ghosts == <<loggedOut, overlapped, cut>>
vars == <<now, redis, issued, account, pc, sid, ghosts>>

Absent == 0
Forever == MaxTime + Ttl + StateTtl + 1   \* no deadline

Init ==
  /\ now = 1
  /\ stateKey = "absent" /\ stateDies = Forever
  /\ expires = [r \in Request |-> Absent] /\ dies = [r \in Request |-> Forever]
  /\ issued = {} /\ account \in BOOLEAN
  /\ pc = [r \in Request |-> "idle"] /\ sid = [r \in Request |-> NoSession]
  /\ loggedOut = {} /\ overlapped = {} /\ cut = {}

Goto(r, from, to) == pc[r] = from /\ pc' = [pc EXCEPT ![r] = to]

Elapse ==
  /\ now < MaxTime
  /\ now' = now + 1
  /\ UNCHANGED <<redis, issued, account, pc, sid, ghosts>>

-----------------------------------------------------------------------------
(* The keys.                                                               *)

Live(s) == expires[s] # Absent /\ now < dies[s]

\* HSET keeps the deadline of a living key; a new key has none.
Hset(s) ==
  /\ expires' = [expires EXCEPT ![s] = now + Ttl]
  /\ dies' = [dies EXCEPT ![s] = IF Live(s) THEN @ ELSE Forever]

\* Mutant of Expire: the remaining life of the key is set, as if it had one.
ExpireLeft(s) == dies' = [dies EXCEPT ![s] = IF Live(s) THEN @ ELSE now + Ttl]

\* EXPIRE does nothing to a key that is not there.
Expire(s) == dies' = [dies EXCEPT ![s] = IF Live(s) THEN now + Ttl ELSE @]

Delete(s) ==
  /\ expires' = [expires EXCEPT ![s] = Absent]
  /\ dies' = [dies EXCEPT ![s] = Forever]

\* get_auth_session checks expires_at as well.
Accepts(s) == Live(s) /\ expires[s] > now

\* Its three outcomes: no session, an expired one it goes on to delete, or
\* the session.
GetSession(r, s, next) ==
  /\ pc' = [pc EXCEPT ![r] = IF Accepts(s) THEN next
                             ELSE IF Live(s) THEN "discarding" ELSE "ended"]
  /\ sid' = [sid EXCEPT ![r] = s]

Discard(r) ==
  /\ Goto(r, "discarding", "ended")
  /\ Delete(sid[r])
  /\ UNCHANGED <<now, stateKey, stateDies, issued, account, sid, ghosts>>

\* The response sets the session cookie.
Issued(r) == issued' = issued \cup {sid[r]}

\* The second command of store_auth_session and update_auth_session.
SetDeadline(r) ==
  /\ Goto(r, "expiring", "ended")
  /\ Expire(sid[r])
  /\ Issued(r)
  /\ UNCHANGED <<now, stateKey, stateDies, expires, account, sid, ghosts>>

-----------------------------------------------------------------------------
(* Login: store_auth_state, then the browser comes back with the state.    *)

StateStored == stateKey = "absent" /\ stateKey' = "stored"

StoreState ==
  /\ StateStored
  /\ UNCHANGED <<now, stateDies, expires, dies, issued, account, pc, sid, ghosts>>

\* The second command of store_auth_state; then the URL is returned.
ExpireState ==
  /\ stateKey = "stored" /\ stateDies = Forever /\ NoSession \notin cut
  /\ stateDies' = now + StateTtl
  /\ UNCHANGED <<now, stateKey, expires, dies, issued, account, pc, sid, ghosts>>

StateLive == stateKey = "stored" /\ now < stateDies

\* pop_auth_state reads; without the state the callback is refused.
PopRead(r) ==
  /\ Goto(r, "idle", IF StateLive THEN "popping" ELSE "ended")
  /\ UNCHANGED <<now, redis, issued, account, sid, ghosts>>

\* Mutant of PopDelete: the key is left to its deadline.
PopDeleteNever(r) ==
  /\ Goto(r, "popping", "exchanging")
  /\ UNCHANGED <<now, redis, issued, account, sid, ghosts>>

PopDelete(r) ==
  /\ Goto(r, "popping", "exchanging")
  /\ stateKey' = "used"
  /\ UNCHANGED <<now, stateDies, expires, dies, issued, account, sid, ghosts>>

\* A callback stores a session, a refresh goes back to the one it read.
AfterVouching(r) == IF sid[r] = NoSession THEN "storing" ELSE "rereading"

\* exchange_authorization_code and refresh_tokens: the provider's tokens, their
\* verification and the look-up of the local user; the request may fail in
\* any of them.
Vouch(r) ==
  /\ pc[r] \in {"exchanging", "refreshing"}
  /\ \/ Goto(r, pc[r], IF account THEN AfterVouching(r) ELSE "provisioning")
     \/ Goto(r, pc[r], "ended")
  /\ UNCHANGED <<now, redis, issued, account, sid, ghosts>>

\* A first sign-in inserts user and account in one transaction; its unique
\* constraints refuse the second of two concurrent ones.
Provision(r) ==
  /\ Goto(r, "provisioning", IF account THEN "ended" ELSE AfterVouching(r))
  /\ account' = TRUE
  /\ UNCHANGED <<now, redis, issued, sid, ghosts>>

StoreSession(r) ==
  /\ Goto(r, "storing", "expiring")
  /\ sid' = [sid EXCEPT ![r] = r]
  /\ Hset(r)
  /\ UNCHANGED <<now, stateKey, stateDies, issued, account, ghosts>>

-----------------------------------------------------------------------------
(* Requests with a session cookie.                                         *)

\* POST /refresh reads the session for its refresh token.
RefreshRead(r, s) ==
  /\ pc[r] = "idle" /\ GetSession(r, s, "refreshing")
  /\ UNCHANGED <<now, redis, issued, account, ghosts>>

\* Mutant of UpdateRead: the fields read at the start are written back.
UpdateReadSkipped(r) ==
  /\ Goto(r, "rereading", "updating")
  /\ UNCHANGED <<now, redis, issued, account, sid, ghosts>>

\* update_auth_session reads again, and gives up if the session is gone.
UpdateRead(r) ==
  /\ pc[r] = "rereading" /\ GetSession(r, sid[r], "updating")
  /\ UNCHANGED <<now, redis, issued, account, ghosts>>

\* It writes all fields, those it read and the new ones.
UpdateSession(r) ==
  /\ Goto(r, "updating", "expiring")
  /\ Hset(sid[r])
  /\ UNCHANGED <<now, stateKey, stateDies, issued, account, sid, ghosts>>

\* oidc_auth_middleware, before any handler that is not public; only the
\* logout does something to the session afterwards.
Authenticate(r, s) ==
  /\ pc[r] = "idle"
  /\ GetSession(r, s, "leaving") \/ GetSession(r, s, "ended")
  /\ UNCHANGED <<now, redis, issued, account, ghosts>>

\* logout asks the provider for its end-session URL first, and fails with it.
LogoutFail(r) ==
  /\ Goto(r, "leaving", "ended")
  /\ UNCHANGED <<now, redis, issued, account, sid, ghosts>>

Logout(r) ==
  /\ Goto(r, "leaving", "ended")
  /\ Delete(sid[r])
  /\ loggedOut' = loggedOut \cup {sid[r]}
  /\ overlapped' = overlapped \cup
       {s \in {sid[r]} : \E q \in Request : pc[q] = "updating" /\ sid[q] = s}
  /\ UNCHANGED <<now, stateKey, stateDies, issued, account, sid, cut>>

-----------------------------------------------------------------------------
\* The API process stops: every handler in progress ends where it is.
Crash ==
  /\ \/ \E r \in Request : pc[r] \notin {"idle", "ended"}
     \/ stateKey = "stored" /\ stateDies = Forever /\ NoSession \notin cut
  /\ pc' = [r \in Request |-> IF pc[r] = "idle" THEN "idle" ELSE "ended"]
  /\ cut' = cut \cup {sid[r] : r \in {q \in Request : pc[q] = "expiring"}}
                \cup {s \in {NoSession} : stateKey = "stored" /\ stateDies = Forever}
  /\ UNCHANGED <<now, redis, issued, account, sid, loggedOut, overlapped>>

Next ==
  \/ Elapse \/ StoreState \/ ExpireState \/ Crash
  \/ \E r \in Request :
       \/ PopRead(r) \/ PopDelete(r) \/ Vouch(r) \/ Provision(r) \/ StoreSession(r)
       \/ UpdateRead(r) \/ UpdateSession(r) \/ SetDeadline(r) \/ Discard(r)
       \/ LogoutFail(r) \/ Logout(r)
       \/ \E s \in issued : RefreshRead(r, s) \/ Authenticate(r, s)

Spec == Init /\ [][Next]_vars

-----------------------------------------------------------------------------
Working == {"popping", "exchanging", "refreshing", "provisioning", "storing", "rereading",
            "updating", "expiring", "discarding", "leaving"}

TypeOK ==
  /\ now \in Nat
  /\ stateKey \in {"absent", "stored", "used"} /\ stateDies \in Nat
  /\ expires \in [Request -> Nat] /\ dies \in [Request -> Nat]
  /\ issued \subseteq Request /\ account \in BOOLEAN
  /\ pc \in [Request -> Working \cup {"idle", "ended"}]
  /\ sid \in [Request -> Request \cup {NoSession}]
  /\ loggedOut \subseteq Request /\ overlapped \subseteq Request
  /\ cut \subseteq Request \cup {NoSession}

\* A session that was logged out is not accepted again, except when a refresh
\* had read it and was about to write it back (logout, update_auth_session).
RevivedOnlyByRefresh ==
  \A s \in loggedOut : Accepts(s) => s \in overlapped

\* Every session key has a deadline or is about to get one, unless its writer
\* was stopped between HSET and EXPIRE.
KeyHasDeadline ==
  \A s \in Request :
    Live(s) /\ dies[s] = Forever =>
      s \in cut \/ \E r \in Request : pc[r] = "expiring" /\ sid[r] = s

\* A session ends: by its logout, and at the latest by its deadline, except
\* for these two races (logout and update_auth_session in redis_store.py:83-135).
SessionEnds == RevivedOnlyByRefresh /\ KeyHasDeadline

\* A login state that one callback has deleted opens no second session: only
\* callbacks that read it before the deletion go on (pop_auth_state).
StateUsedOnce ==
  [][\A r \in Request :
       pc[r] = "idle" /\ pc'[r] = "popping" =>
         \A q \in Request : pc[q] # "exchanging" /\ expires[q] = Absent]_vars

=============================================================================
