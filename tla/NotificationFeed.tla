-------------------------- MODULE NotificationFeed --------------------------
(***************************************************************************)
(* The readers of the notification log (notification/router.py,            *)
(* service.py, repository.py): the server-sent event stream with its id    *)
(* cursor, the numbered list pages, the per-user read markers and the      *)
(* scoping of all of them to the lines a user is assigned.                 *)
(*                                                                         *)
(* The log itself is what module NotificationLog promises: it grows at its *)
(* end.  Of a notification only its id (the index) and its line matter     *)
(* here.  The connection may break at any moment, also between the server  *)
(* sending an event and the client receiving it; the client reconnects     *)
(* with the id of the last event it received (docs/sse-events.md).         *)
(***************************************************************************)
EXTENDS Integers, Sequences, FiniteSets, SequencesExt

CONSTANTS
  User,
  Administrator,  \* users whose role lifts the scope
  Line,           \* line codes
  PageSize,       \* the limit of a list request
  MaxNotes        \* bound: notifications

ASSUME FeedAssumption ==
  /\ Administrator \subseteq User
  /\ PageSize \in Nat \ {0} /\ MaxNotes \in Nat

VARIABLES
  notes,     \* the line of each notification, NoLine without equipment master
  lines,     \* [User -> SUBSET Line]: the assignments (user_lines)
  stream,    \* [User -> {"off", "on"}]: the user's stream connection
  scope,     \* the lines the connection was opened for
  cursor,    \* the generator's last_id
  batch,     \* ids of the last poll that are not sent yet
  wire,      \* ids sent and not received
  got,       \* ids the client has received, over all its connections
  common,    \* history: the lines that were in scope of every connection
  reads,     \* read markers: pairs of user and id
  requests   \* list requests between their count and their fetch

connection == <<stream, scope, cursor, batch, wire>>
client == <<got, common>>
inbox == <<reads, requests>>
vars == <<notes, lines, connection, client, inbox>>

NoLine == "no line"

\* scope_line_names: None, everything, for an administrator.
Scope(u) == IF u \in Administrator THEN Line \cup {NoLine} ELSE lines[u]

Init ==
  /\ notes = <<>>
  /\ lines \in [User -> SUBSET Line]
  /\ stream = [u \in User |-> "off"]
  /\ scope = [u \in User |-> {}]
  /\ cursor = [u \in User |-> 0]
  /\ batch = [u \in User |-> <<>>]
  /\ wire = [u \in User |-> <<>>]
  /\ got = [u \in User |-> <<>>]
  /\ common = [u \in User |-> Line \cup {NoLine}]
  /\ reads = {}
  /\ requests = {}

\* The sync loop adds a notification.
Arrive(l) ==
  /\ Len(notes) < MaxNotes
  /\ notes' = Append(notes, l)
  /\ UNCHANGED <<lines, connection, client, inbox>>

\* An administrator replaces the user's lines.
Reassign(u, assigned) ==
  /\ assigned # lines[u]
  /\ lines' = [lines EXCEPT ![u] = assigned]
  /\ UNCHANGED <<notes, connection, client, inbox>>

-----------------------------------------------------------------------------
(* The stream.                                                             *)

\* after_id of the next connection: 0 before the first event.
LastReceived(u) == IF got[u] = <<>> THEN 0 ELSE Last(got[u])

Connect(u) ==
  /\ stream[u] = "off"
  /\ stream' = [stream EXCEPT ![u] = "on"]
  /\ scope' = [scope EXCEPT ![u] = Scope(u)]
  /\ cursor' = [cursor EXCEPT ![u] = LastReceived(u)]
  /\ common' = [common EXCEPT ![u] = @ \cap Scope(u)]
  /\ UNCHANGED <<notes, lines, batch, wire, got, inbox>>

Disconnect(u) ==
  /\ stream[u] = "on"
  /\ stream' = [stream EXCEPT ![u] = "off"]
  /\ scope' = [scope EXCEPT ![u] = {}]
  /\ cursor' = [cursor EXCEPT ![u] = 0]
  /\ batch' = [batch EXCEPT ![u] = <<>>]
  /\ wire' = [wire EXCEPT ![u] = <<>>]
  /\ UNCHANGED <<notes, lines, client, inbox>>

\* Mutant of NewFor: of several new ones only the newest.
NewestOnly(u) ==
  LET new == {i \in DOMAIN notes : i > cursor[u] /\ notes[i] \in scope[u]}
  IN  {i \in new : \A j \in new : j <= i}

\* fetch_notifications with after_id: the ids above the cursor.
NewFor(u) == {i \in DOMAIN notes : i > cursor[u] /\ notes[i] \in scope[u]}

\* The rows come in the order of their ids.
Ascending(ids) ==
  {q \in [1..Cardinality(ids) -> ids] :
     Range(q) = ids /\ \A i, j \in DOMAIN q : i < j => q[i] < q[j]}

\* The generator polls when it has sent everything of the last poll.
Poll(u) ==
  /\ stream[u] = "on"
  /\ batch[u] = <<>>
  /\ NewFor(u) # {}
  /\ \E rows \in Ascending(NewFor(u)) : batch' = [batch EXCEPT ![u] = rows]
  /\ UNCHANGED <<notes, lines, stream, scope, cursor, wire, client, inbox>>

\* Mutant of Sent: the cursor jumps to the end of the log.
SentJump(u) == Len(notes)

\* last_id follows the event that is sent.
Sent(u) == Head(batch[u])

Send(u) ==
  /\ stream[u] = "on"
  /\ batch[u] # <<>>
  /\ cursor' = [cursor EXCEPT ![u] = Sent(u)]
  /\ batch' = [batch EXCEPT ![u] = Tail(@)]
  /\ wire' = [wire EXCEPT ![u] = Append(@, Head(batch[u]))]
  /\ UNCHANGED <<notes, lines, stream, scope, client, inbox>>

Receive(u) ==
  /\ wire[u] # <<>>
  /\ got' = [got EXCEPT ![u] = Append(@, Head(wire[u]))]
  /\ wire' = [wire EXCEPT ![u] = Tail(@)]
  /\ UNCHANGED <<notes, lines, stream, scope, cursor, batch, common, inbox>>

-----------------------------------------------------------------------------
(* Read markers and pages.  A marking transaction is one step: read-all's  *)
(* select and insert commute with everything that may come between.        *)

InScope(i, allowed) == i \in DOMAIN notes /\ notes[i] \in allowed

\* mark_read: 404 outside the scope, and marking twice is no error.
MarkRead(u, i) ==
  /\ InScope(i, Scope(u))
  /\ reads' = reads \cup {<<u, i>>}
  /\ UNCHANGED <<notes, lines, connection, client, requests>>

MarkUnread(u, i) ==
  /\ InScope(i, Scope(u))
  /\ reads' = reads \ {<<u, i>>}
  /\ UNCHANGED <<notes, lines, connection, client, requests>>

MarkAllRead(u) ==
  /\ reads' = reads \cup {<<u, i>> : i \in {j \in DOMAIN notes : InScope(j, Scope(u))}}
  /\ UNCHANGED <<notes, lines, connection, client, requests>>

\* The notifications a list request selects.
Selected(u, allowed, unreadOnly) ==
  {i \in DOMAIN notes : InScope(i, allowed) /\ (unreadOnly => <<u, i>> \notin reads)}

Ceiling(n) == (n + PageSize - 1) \div PageSize

\* A page beyond the last one becomes the last one.
CurrentPage(page, total) ==
  IF total = 0 THEN 1 ELSE IF page > Ceiling(total) THEN Ceiling(total) ELSE page

\* list_notifications up to count_notifications; one request per user at a
\* time is the bound.
ListCount(u, unreadOnly, page) ==
  /\ \A r \in requests : r.user # u
  /\ LET total == Cardinality(Selected(u, Scope(u), unreadOnly)) IN
       requests' = requests \cup
         {[user |-> u, allowed |-> Scope(u), unreadOnly |-> unreadOnly,
           total |-> total, page |-> CurrentPage(page, total)]}
  /\ UNCHANGED <<notes, lines, connection, client, reads>>

\* The rows from the page's offset on, and how many of them it shows.
Beyond(r) ==
  Cardinality(Selected(r.user, r.allowed, r.unreadOnly)) - (r.page - 1) * PageSize

Items(r) == IF Beyond(r) < 0 THEN 0 ELSE IF Beyond(r) > PageSize THEN PageSize ELSE Beyond(r)

\* fetch_notifications_page answers the request.
ListFetch(r) ==
  /\ requests' = requests \ {r}
  /\ UNCHANGED <<notes, lines, connection, client, reads>>

-----------------------------------------------------------------------------

Next ==
  \/ \E l \in Line \cup {NoLine} : Arrive(l)
  \/ \E u \in User :
       \/ \E assigned \in SUBSET Line : Reassign(u, assigned)
       \/ Connect(u) \/ Disconnect(u) \/ Poll(u) \/ Send(u) \/ Receive(u)
       \/ \E i \in 1..MaxNotes : MarkRead(u, i) \/ MarkUnread(u, i)
       \/ MarkAllRead(u)
       \/ \E unreadOnly \in BOOLEAN, page \in 1..MaxNotes : ListCount(u, unreadOnly, page)
  \/ \E r \in requests : ListFetch(r)

Spec == Init /\ [][Next]_vars

-----------------------------------------------------------------------------
(* Properties.                                                             *)

\* The shape of every variable; a read marker names a notification that exists.
TypeOK ==
  /\ notes \in Seq(Line \cup {NoLine}) /\ Len(notes) <= MaxNotes
  /\ lines \in [User -> SUBSET Line]
  /\ stream \in [User -> {"off", "on"}]
  /\ scope \in [User -> SUBSET (Line \cup {NoLine})]
  /\ cursor \in [User -> 0..Len(notes)]
  /\ batch \in [User -> Seq(1..Len(notes))]
  /\ wire \in [User -> Seq(1..Len(notes))]
  /\ got \in [User -> Seq(1..Len(notes))]
  /\ common \in [User -> SUBSET (Line \cup {NoLine})]
  /\ reads \subseteq User \X (1..Len(notes))
  /\ requests \subseteq
       [user : User, allowed : SUBSET (Line \cup {NoLine}), unreadOnly : BOOLEAN,
        total : 0..Len(notes), page : 1..MaxNotes]

\* No event reaches the client twice or out of order, over all connections,
\* although the cursor lives in the server's generator, is lost with the
\* connection and starts again from what the client received.
ReceivedInOrder ==
  \A u \in User : \A i, j \in DOMAIN got[u] : i < j => got[u][i] < got[u][j]

\* Behind the last event received nothing is missing: whatever was in scope of
\* all the user's connections was received, however often they broke with
\* events on the way.
NothingSkipped ==
  \A u \in User : \A i \in DOMAIN notes :
    notes[i] \in common[u] /\ i <= LastReceived(u) => i \in Range(got[u])

\* A page of the unfiltered list is as full as its total says, even when
\* notifications arrive between the count and the fetch.
PageFilled ==
  \A r \in requests :
    ~r.unreadOnly /\ r.total > 0 =>
      IF r.page < Ceiling(r.total)
      THEN Items(r) = PageSize
      ELSE Items(r) >= r.total - (r.page - 1) * PageSize /\ Items(r) > 0

\* What a user is shown has no hole and no repetition, in the stream and in the
\* list, whatever is inserted, read or reassigned meanwhile.
FeedFaithful == ReceivedInOrder /\ NothingSkipped /\ PageFilled

\* The generator keeps polling and sending, the network keeps delivering.
Fairness == \A u \in User : WF_vars(Poll(u)) /\ WF_vars(Send(u)) /\ WF_vars(Receive(u))

FairSpec == Spec /\ Fairness

\* A client that stays connected receives every notification that is in the
\* scope of its connections.
EventuallyReceived ==
  \A u \in User :
    <>[](stream[u] = "on") =>
      \A i \in 1..MaxNotes :
        []<>(InScope(i, common[u]) => i \in Range(got[u]))

=============================================================================
