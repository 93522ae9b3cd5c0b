--------------------------- MODULE MCChatSession ---------------------------
(* Instance of ChatSession for TLC: three requests for one session, two of *)
(* them by the same user.                                                  *)
EXTENDS ChatSession, TLC

CONSTANTS s1, u1, u2, t1, t2, t3

MCSession == t1 :> s1 @@ t2 :> s1 @@ t3 :> s1
MCUser == t1 :> u1 @@ t2 :> u2 @@ t3 :> u2

=============================================================================
