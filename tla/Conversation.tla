---------------------------- MODULE Conversation ----------------------------
(***************************************************************************)
(* What the chat module promises its reader about stored conversations: a  *)
(* session belongs to the user who opened it and to nobody else after; a   *)
(* turn asks once, in an open session, and is answered at most once, in    *)
(* the session it asked in and after it asked; nothing is taken back.      *)
(***************************************************************************)
EXTENDS Naturals

CONSTANTS Session, Turn, User, NoUser

VARIABLES
  owner,      \* [Session -> User \cup {NoUser}]
  asked,      \* the stored questions, each with its turn, session and time
  answered    \* the stored answers, likewise

vars == <<owner, asked, answered>>

Init == owner = [s \in Session |-> NoUser] /\ asked = {} /\ answered = {}

Open(s, u) ==
  /\ owner[s] = NoUser
  /\ owner' = [owner EXCEPT ![s] = u]
  /\ UNCHANGED <<asked, answered>>

\* Turn t puts the question q.
Ask(t, s) ==
  /\ owner[s] # NoUser
  /\ \A q \in asked : q.turn # t
  /\ \E q \in asked' :
       q.turn = t /\ q.session = s /\ asked' = asked \cup {q}
  /\ UNCHANGED <<owner, answered>>

Answer(t) ==
  /\ \A a \in answered : a.turn # t
  /\ \E q \in asked, a \in answered' :
       /\ q.turn = t /\ a = [q EXCEPT !.at = a.at] /\ q.at < a.at
       /\ answered' = answered \cup {a}
  /\ UNCHANGED <<owner, asked>>

Next ==
  \/ \E s \in Session, u \in User : Open(s, u)
  \/ \E t \in Turn : Answer(t) \/ \E s \in Session : Ask(t, s)

Spec == Init /\ [][Next]_vars

=============================================================================
