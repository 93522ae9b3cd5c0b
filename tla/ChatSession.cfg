\* Three turns of one session: all race for its creation and the graph, and
\* the last asks into a conversation longer than the window.  Every request
\* ends, so the system may stop.
SPECIFICATION FairSpec
CONSTANTS
  s1 = s1
  u1 = u1
  u2 = u2
  t1 = t1
  t2 = t2
  t3 = t3
  Session = {s1}
  User = {u1, u2}
  Turn = {t1, t2, t3}
  session <- MCSession
  user <- MCUser
  N = 2
CHECK_DEADLOCK FALSE
INVARIANTS
  ChatSound
PROPERTIES
  ImplementsConversation
  TurnSettles
