---------------------- MODULE NotificationFeed_proofs ----------------------
(* Proofs about the readers of the notification log, for any users, lines, *)
(* page size and number of notifications.                                  *)
EXTENDS NotificationFeed, FiniteSetTheorems, SequenceTheorems, TLAPS

-----------------------------------------------------------------------------
(* Ascending sequences of ids.                                             *)

Asc(q) == \A i, j \in DOMAIN q : i < j => q[i] < q[j]

\* Appending a larger id.
LEMMA AscAppend ==
  ASSUME NEW q \in Seq(Nat), Asc(q), NEW x \in Nat, \A y \in Range(q) : y < x
  PROVE  /\ Append(q, x) \in Seq(Nat) /\ Append(q, x) # <<>> /\ Asc(Append(q, x))
         /\ Range(Append(q, x)) = Range(q) \cup {x}
         /\ Last(Append(q, x)) = x
<1> DEFINE r == Append(q, x)
<1>1. /\ r \in Seq(Nat) /\ r # <<>> /\ Len(r) = Len(q) + 1
      /\ \A i \in 1..Len(q) : r[i] = q[i]
      /\ r[Len(q) + 1] = x
  BY AppendProperties
<1>2. Len(q) \in Nat /\ DOMAIN q = 1..Len(q) /\ DOMAIN r = 1..Len(q) + 1
  BY <1>1, LenProperties
<1>3. \A i \in 1..Len(q) : q[i] \in Range(q) /\ q[i] < x
  BY <1>2 DEF Range
<1> HIDE DEF r
<1>4. Asc(r)
  <2> SUFFICES ASSUME NEW i \in DOMAIN r, NEW j \in DOMAIN r, i < j PROVE r[i] < r[j]
    BY DEF Asc
  <2>1. i \in 1..Len(q)
    BY <1>2
  <2>2. CASE j \in 1..Len(q)
    BY <1>1, <1>2, <2>1, <2>2 DEF Asc
  <2>3. CASE j = Len(q) + 1
    BY <1>1, <1>3, <2>1, <2>3
  <2>4. QED
    BY <1>2, <2>2, <2>3
<1>5. Range(r) = Range(q) \cup {x}
  <2>1. Range(r) \subseteq Range(q) \cup {x}
    BY <1>1, <1>2 DEF Range
  <2>2. Range(q) \subseteq Range(r)
    BY <1>1, <1>2 DEF Range
  <2>3. x \in Range(r)
    BY <1>1, <1>2 DEF Range
  <2>4. QED
    BY <2>1, <2>2, <2>3
<1>6. Last(r) = x
  BY <1>1 DEF Last
<1>7. QED
  BY <1>1, <1>4, <1>5, <1>6 DEF r

\* Taking the first id.
LEMMA AscTail ==
  ASSUME NEW q \in Seq(Nat), Asc(q), q # <<>>
  PROVE  /\ Head(q) \in Nat /\ Tail(q) \in Seq(Nat) /\ Asc(Tail(q))
         /\ Range(q) = {Head(q)} \cup Range(Tail(q))
         /\ \A y \in Range(Tail(q)) : Head(q) < y
<1> DEFINE r == Tail(q)
           h == Head(q)
<1>1. /\ h \in Nat /\ r \in Seq(Nat) /\ Len(r) = Len(q) - 1
      /\ \A i \in 1..Len(r) : r[i] = q[i + 1]
  BY HeadTailProperties
<1>2. Len(q) \in Nat /\ Len(r) \in Nat /\ DOMAIN q = 1..Len(r) + 1 /\ DOMAIN r = 1..Len(r)
  BY <1>1, LenProperties
<1>3. h = q[1]
  BY DEF Head
<1> HIDE DEF r, h
<1>4. Asc(r)
  <2> SUFFICES ASSUME NEW i \in DOMAIN r, NEW j \in DOMAIN r, i < j PROVE r[i] < r[j]
    BY DEF Asc
  <2>1. i + 1 \in DOMAIN q /\ j + 1 \in DOMAIN q /\ i + 1 < j + 1
    BY <1>2
  <2>2. QED
    BY <1>1, <1>2, <2>1 DEF Asc
<1>5. Range(q) = {h} \cup Range(r)
  <2>1. \A i \in DOMAIN q : i = 1 \/ (i - 1 \in DOMAIN r /\ r[i - 1] = q[i])
    BY <1>1, <1>2
  <2>2. Range(q) \subseteq {h} \cup Range(r)
    BY <1>3, <2>1 DEF Range
  <2>3. \A i \in DOMAIN r : i + 1 \in DOMAIN q /\ r[i] = q[i + 1]
    BY <1>1, <1>2
  <2>4. Range(r) \subseteq Range(q)
    BY <2>3 DEF Range
  <2>5. h \in Range(q)
    BY <1>2, <1>3 DEF Range
  <2>6. QED
    BY <2>2, <2>4, <2>5
<1>6. \A y \in Range(r) : h < y
  <2> SUFFICES ASSUME NEW i \in DOMAIN r PROVE h < r[i]
    BY DEF Range
  <2>1. 1 \in DOMAIN q /\ i + 1 \in DOMAIN q /\ 1 < i + 1
    BY <1>2
  <2>2. QED
    BY <1>1, <1>2, <1>3, <2>1 DEF Asc
<1>7. QED
  BY <1>1, <1>4, <1>5, <1>6 DEF r, h

\* The last id is the largest.
LEMMA AscLast ==
  ASSUME NEW q \in Seq(Nat), Asc(q), q # <<>>
  PROVE  Last(q) \in Range(q) /\ \A y \in Range(q) : y <= Last(q)
<1>1. Len(q) \in Nat \ {0} /\ DOMAIN q = 1..Len(q) /\ \A i \in 1..Len(q) : q[i] \in Nat
  BY EmptySeq, LenProperties, ElementOfSeq
<1>2. Last(q) = q[Len(q)] /\ Len(q) \in DOMAIN q
  BY <1>1 DEF Last
<1>3. \A i \in DOMAIN q : q[i] <= Last(q)
  BY <1>1, <1>2 DEF Asc
<1>4. QED
  BY <1>2, <1>3 DEF Range

\* What a poll returns.
LEMMA AscRows ==
  ASSUME NEW ids \in SUBSET Nat, IsFiniteSet(ids), NEW q \in Ascending(ids)
  PROVE  q \in Seq(ids) /\ Asc(q) /\ Range(q) = ids
<1>1. Cardinality(ids) \in Nat
  BY FS_CardinalityType
<1>2. q \in [1..Cardinality(ids) -> ids] /\ Range(q) = ids /\ Asc(q)
  BY DEF Ascending, Asc
<1>3. QED
  BY <1>1, <1>2

LEMMA RangeSeq == ASSUME NEW S, NEW q \in Seq(S) PROVE Range(q) \subseteq S
BY LenProperties, ElementOfSeq DEF Range

LEMMA RangeEmpty == Range(<<>>) = {}
BY DEF Range

-----------------------------------------------------------------------------
(* Type correctness.                                                       *)

Ids == 1..Len(notes)

LEMMA SeqSubset ==
  ASSUME NEW S, NEW T, S \subseteq T
  PROVE  Seq(S) \subseteq Seq(T)
OBVIOUS

\* NotesType and DOMAIN notes as the proofs use them.
LEMMA NotesFacts ==
  ASSUME TypeOK
  PROVE  /\ Len(notes) \in Nat /\ DOMAIN notes = Ids /\ Ids \subseteq Nat /\ IsFiniteSet(Ids)
         /\ \A i \in Ids : notes[i] \in Line \cup {NoLine}
<1>1. notes \in Seq(Line \cup {NoLine})
  BY DEF TypeOK
<1>2. Len(notes) \in Nat /\ DOMAIN notes = Ids
  BY <1>1, LenProperties DEF Ids
<1>3. IsFiniteSet(Ids)
  BY <1>2, FS_Interval DEF Ids
<1>4. \A i \in Ids : notes[i] \in Line \cup {NoLine}
  BY <1>1, ElementOfSeq DEF Ids
<1>5. QED
  BY <1>2, <1>3, <1>4 DEF Ids

LEMMA ScopeType ==
  ASSUME TypeOK, NEW u \in User
  PROVE  Scope(u) \in SUBSET (Line \cup {NoLine})
BY DEF Scope, TypeOK

\* A new notification keeps all ids.
LEMMA ArriveTypes ==
  ASSUME TypeOK, NEW l \in Line \cup {NoLine}, Arrive(l)
  PROVE  TypeOK'
<1>1. notes \in Seq(Line \cup {NoLine}) /\ Len(notes) \in Nat /\ Len(notes) < MaxNotes
  BY NotesFacts DEF TypeOK, Arrive
<1>2. notes' \in Seq(Line \cup {NoLine}) /\ Len(notes') = Len(notes) + 1
  BY <1>1, AppendProperties DEF Arrive
<1>3. 1..Len(notes) \subseteq 1..Len(notes)' /\ 0..Len(notes) \subseteq 0..Len(notes)'
  BY <1>1, <1>2
<1>4. Seq(1..Len(notes)) \subseteq Seq(1..Len(notes)')
  BY <1>3, SeqSubset
<1>5. Len(notes') <= MaxNotes
  BY <1>1, <1>2, FeedAssumption
<1>6. UNCHANGED <<lines, stream, scope, cursor, batch, wire, got, common, reads, requests>>
  BY DEF Arrive, connection, client, inbox
<1>7. /\ cursor \in [User -> 0..Len(notes)']
      /\ batch \in [User -> Seq(1..Len(notes)')]
      /\ wire \in [User -> Seq(1..Len(notes)')]
      /\ got \in [User -> Seq(1..Len(notes)')]
  BY <1>3, <1>4 DEF TypeOK
<1>8. reads \subseteq User \X (1..Len(notes)')
  BY <1>3 DEF TypeOK
<1>9. requests \subseteq
        [user : User, allowed : SUBSET (Line \cup {NoLine}), unreadOnly : BOOLEAN,
         total : 0..Len(notes)', page : 1..MaxNotes]
  BY <1>3 DEF TypeOK
<1>10. QED
  BY <1>2, <1>5, <1>6, <1>7, <1>8, <1>9 DEF TypeOK

LEMMA LastReceivedType ==
  ASSUME TypeOK, NEW u \in User
  PROVE  /\ LastReceived(u) \in 0..Len(notes)
         /\ got[u] # <<>> => LastReceived(u) \in Ids
<1>1. got[u] \in Seq(Ids)
  BY DEF TypeOK, Ids
<1>2. ASSUME got[u] # <<>> PROVE Last(got[u]) \in Ids
  <2>1. Len(got[u]) \in 1..Len(got[u])
    BY <1>1, <1>2, EmptySeq
  <2>2. QED
    BY <1>1, <2>1, ElementOfSeq DEF Last
<1>3. QED
  BY <1>2, NotesFacts DEF LastReceived, Ids

LEMMA CursorTypes ==
  ASSUME TypeOK, NEW u \in User, Connect(u) \/ Disconnect(u) \/ Poll(u) \/ Send(u) \/ Receive(u)
  PROVE  TypeOK'
<1> USE DEF TypeOK, client, inbox
<1>1. CASE Connect(u)
  BY <1>1, ScopeType, LastReceivedType DEF Connect
<1>2. CASE Disconnect(u)
  <2>1. 0 \in 0..Len(notes) /\ <<>> \in Seq(1..Len(notes))
    BY NotesFacts, EmptySeq
  <2>2. QED
    BY <1>2, <2>1 DEF Disconnect
<1>3. CASE Poll(u)
  <2>1. NewFor(u) \in SUBSET Ids
    BY NotesFacts DEF NewFor
  <2>2. PICK rows \in Ascending(NewFor(u)) : batch' = [batch EXCEPT ![u] = rows]
    BY <1>3 DEF Poll
  <2>3. IsFiniteSet(NewFor(u)) /\ NewFor(u) \in SUBSET Nat
    BY <2>1, NotesFacts, FS_Subset
  <2>4. rows \in Seq(NewFor(u))
    BY <2>3, AscRows
  <2>5. rows \in Seq(1..Len(notes))
    BY <2>1, <2>4, SeqSubset DEF Ids
  <2>6. QED
    BY <1>3, <2>2, <2>5 DEF Poll
<1>4. CASE Send(u)
  <2>1. /\ Head(batch[u]) \in 1..Len(notes) /\ Tail(batch[u]) \in Seq(1..Len(notes))
        /\ Append(wire[u], Head(batch[u])) \in Seq(1..Len(notes))
    BY <1>4, HeadTailProperties, AppendProperties DEF Send
  <2>2. Sent(u) \in 0..Len(notes)
    BY <2>1 DEF Sent
  <2>3. /\ cursor' \in [User -> 0..Len(notes)]
        /\ batch' \in [User -> Seq(1..Len(notes))]
        /\ wire' \in [User -> Seq(1..Len(notes))]
    BY <1>4, <2>1, <2>2 DEF Send
  <2>4. QED
    BY <1>4, <2>3 DEF Send
<1>5. CASE Receive(u)
  <2>1. /\ Tail(wire[u]) \in Seq(1..Len(notes))
        /\ Append(got[u], Head(wire[u])) \in Seq(1..Len(notes))
    BY <1>5, HeadTailProperties, AppendProperties DEF Receive
  <2>2. /\ got' \in [User -> Seq(1..Len(notes))]
        /\ wire' \in [User -> Seq(1..Len(notes))]
    BY <1>5, <2>1 DEF Receive
  <2>3. QED
    BY <1>5, <2>2 DEF Receive
<1>6. QED
  BY <1>1, <1>2, <1>3, <1>4, <1>5

\* The rows a list request counts, and the page it asks for.
LEMMA SelectedType ==
  ASSUME TypeOK, NEW u, NEW allowed, NEW unreadOnly
  PROVE  /\ Selected(u, allowed, unreadOnly) \in SUBSET Ids
         /\ IsFiniteSet(Selected(u, allowed, unreadOnly))
         /\ Cardinality(Selected(u, allowed, unreadOnly)) \in 0..Len(notes)
         /\ Cardinality(Selected(u, allowed, unreadOnly)) \in Nat
<1>1. Selected(u, allowed, unreadOnly) \in SUBSET Ids
  BY NotesFacts DEF Selected
<1>2. IsFiniteSet(Selected(u, allowed, unreadOnly))
      /\ Cardinality(Selected(u, allowed, unreadOnly)) <= Cardinality(Ids)
  BY <1>1, NotesFacts, FS_Subset
<1>3. Cardinality(Ids) = Len(notes)
  BY NotesFacts, FS_Interval DEF Ids
<1>4. QED
  BY <1>1, <1>2, <1>3, FS_CardinalityType, NotesFacts

\* The pages of n rows: the last one is not empty, and the next one would be.
LEMMA CeilingBounds ==
  ASSUME NEW n \in Nat, n > 0
  PROVE  /\ Ceiling(n) \in Nat \ {0}
         /\ (Ceiling(n) - 1) * PageSize < n
         /\ n <= Ceiling(n) * PageSize
<1> DEFINE k == (n + PageSize - 1) \div PageSize
<1>1. PageSize \in Nat /\ PageSize > 0
  BY FeedAssumption
<1>2. k \in Int /\ PageSize * k <= n + PageSize - 1 /\ n + PageSize - 1 < PageSize * k + PageSize
  BY <1>1
<1> HIDE DEF k
<1>3. (k - 1) * PageSize < n /\ n <= k * PageSize
  BY <1>1, <1>2
<1>4. k > 0
  BY <1>1, <1>2, <1>3
<1>5. QED
  BY <1>2, <1>3, <1>4 DEF Ceiling, k

LEMMA PageType ==
  ASSUME NEW page \in 1..MaxNotes, NEW n \in Nat
  PROVE  /\ CurrentPage(page, n) \in 1..MaxNotes
         /\ n > 0 => CurrentPage(page, n) <= Ceiling(n)
BY CeilingBounds, FeedAssumption DEF CurrentPage

LEMMA InboxTypes ==
  ASSUME TypeOK,
         \/ \E u \in User :
              \/ \E i \in 1..MaxNotes : MarkRead(u, i) \/ MarkUnread(u, i)
              \/ MarkAllRead(u)
              \/ \E unreadOnly \in BOOLEAN, page \in 1..MaxNotes : ListCount(u, unreadOnly, page)
         \/ \E r \in requests : ListFetch(r)
  PROVE  TypeOK'
<1> USE DEF connection, client
<1>1. ASSUME NEW u \in User, NEW i \in 1..MaxNotes, MarkRead(u, i) \/ MarkUnread(u, i)
      PROVE  TypeOK'
  <2>1. i \in 1..Len(notes)
    BY <1>1, NotesFacts DEF MarkRead, MarkUnread, InScope, Ids
  <2>2. reads' \subseteq User \X (1..Len(notes))
    BY <1>1, <2>1 DEF MarkRead, MarkUnread, TypeOK
  <2>3. QED
    BY <1>1, <2>2 DEF MarkRead, MarkUnread, TypeOK
<1>2. ASSUME NEW u \in User, MarkAllRead(u) PROVE TypeOK'
  <2>1. reads' \subseteq User \X (1..Len(notes))
    BY <1>2, NotesFacts DEF MarkAllRead, TypeOK, Ids
  <2>2. QED
    BY <1>2, <2>1 DEF MarkAllRead, TypeOK
<1>3. ASSUME NEW u \in User, NEW unreadOnly \in BOOLEAN, NEW page \in 1..MaxNotes,
             ListCount(u, unreadOnly, page)
      PROVE  TypeOK'
  <2> DEFINE total == Cardinality(Selected(u, Scope(u), unreadOnly))
             r == [user |-> u, allowed |-> Scope(u), unreadOnly |-> unreadOnly,
                   total |-> total, page |-> CurrentPage(page, total)]
  <2>1. total \in 0..Len(notes) /\ CurrentPage(page, total) \in 1..MaxNotes
    <3>1. total \in 0..Len(notes)
      BY SelectedType
    <3>2. QED
      BY <3>1, NotesFacts, PageType
  <2>2. requests' = requests \cup {r}
    BY <1>3 DEF ListCount
  <2> HIDE DEF total
  <2>3. r \in [user : User, allowed : SUBSET (Line \cup {NoLine}), unreadOnly : BOOLEAN,
               total : 0..Len(notes), page : 1..MaxNotes]
    BY <2>1, ScopeType
  <2>4. QED
    BY <1>3, <2>2, <2>3 DEF ListCount, TypeOK
<1>4. ASSUME NEW r \in requests, ListFetch(r) PROVE TypeOK'
  BY <1>4 DEF ListFetch, TypeOK
<1>5. QED
  BY <1>1, <1>2, <1>3, <1>4

LEMMA InitTypes == Init => TypeOK
<1> SUFFICES ASSUME Init PROVE TypeOK
  OBVIOUS
<1>1. notes = <<>> /\ Len(notes) = 0 /\ notes \in Seq(Line \cup {NoLine})
  BY EmptySeq DEF Init
<1>2. <<>> \in Seq(1..Len(notes))
  BY EmptySeq
<1>3. QED
  BY <1>1, <1>2, FeedAssumption DEF Init, TypeOK

LEMMA NextTypes == TypeOK /\ [Next]_vars => TypeOK'
<1> SUFFICES ASSUME TypeOK, [Next]_vars PROVE TypeOK'
  OBVIOUS
<1>1. ASSUME NEW u \in User, NEW assigned \in SUBSET Line, Reassign(u, assigned)
      PROVE  TypeOK'
  BY <1>1 DEF Reassign, TypeOK, connection, client, inbox
<1>2. CASE UNCHANGED vars
  BY <1>2 DEF vars, TypeOK, connection, client, inbox
<1>3. QED
  BY <1>1, <1>2, ArriveTypes, CursorTypes, InboxTypes DEF Next

\* Every variable of the notification readers keeps its type, and a read marker
\* names a notification that exists (notification/repository.py).
THEOREM FeedTypes == Spec => []TypeOK
BY InitTypes, NextTypes, PTL DEF Spec

-----------------------------------------------------------------------------
(* The stream.                                                             *)

\* What is received, on the wire and in the batch are ascending stretches of
\* the log, one behind the other, with nothing in scope left out between them.
StreamInv(u) ==
  /\ Asc(got[u]) /\ Asc(wire[u]) /\ Asc(batch[u])
  /\ stream[u] = "off" => wire[u] = <<>> /\ batch[u] = <<>>
  /\ stream[u] = "on" => LastReceived(u) <= cursor[u] /\ common[u] \subseteq scope[u]
  /\ \A y \in Range(wire[u]) : LastReceived(u) < y /\ y <= cursor[u]
  /\ \A y \in Range(batch[u]) : cursor[u] < y
  /\ \A i \in Ids : notes[i] \in common[u] =>
       /\ i <= LastReceived(u) => i \in Range(got[u])
       /\ stream[u] = "on" /\ i <= cursor[u] => i \in Range(got[u]) \cup Range(wire[u])
       /\ stream[u] = "on" /\ cursor[u] < i =>
            \A y \in Range(batch[u]) : i <= y => i \in Range(batch[u])

FeedInv == \A u \in User : StreamInv(u)

LEMMA InitFeed == Init => FeedInv
<1> SUFFICES ASSUME Init, NEW u \in User PROVE StreamInv(u)
  BY DEF FeedInv
<1>1. Ids = {}
  BY EmptySeq DEF Init, Ids
<1>2. /\ got[u] = <<>> /\ wire[u] = <<>> /\ batch[u] = <<>> /\ stream[u] = "off"
  BY DEF Init
<1>3. Asc(<<>>)
  BY DEF Asc
<1>4. QED
  BY <1>1, <1>2, <1>3, RangeEmpty DEF StreamInv

\* Sequences of ids are sequences of naturals.
LEMMA StreamTypes ==
  ASSUME TypeOK, NEW u \in User
  PROVE  /\ got[u] \in Seq(Nat) /\ wire[u] \in Seq(Nat) /\ batch[u] \in Seq(Nat)
         /\ Range(got[u]) \subseteq Ids /\ Range(wire[u]) \subseteq Ids
         /\ Range(batch[u]) \subseteq Ids
         /\ cursor[u] \in Nat /\ cursor[u] <= Len(notes)
         /\ LastReceived(u) \in Nat /\ LastReceived(u) <= Len(notes)
<1>1. got[u] \in Seq(Ids) /\ wire[u] \in Seq(Ids) /\ batch[u] \in Seq(Ids)
  BY DEF TypeOK, Ids
<1>2. cursor[u] \in 0..Len(notes)
  BY DEF TypeOK
<1>3. Ids \subseteq Nat
  BY NotesFacts
<1>4. got[u] \in Seq(Nat) /\ wire[u] \in Seq(Nat) /\ batch[u] \in Seq(Nat)
  BY <1>1, <1>3, SeqSubset
<1>5. QED
  BY <1>1, <1>2, <1>4, RangeSeq, LastReceivedType, NotesFacts

\* A user whose connection and client do not change.
LEMMA OtherStream ==
  ASSUME FeedInv, NEW u \in User, UNCHANGED notes,
         UNCHANGED <<stream[u], scope[u], cursor[u], batch[u], wire[u], got[u], common[u]>>
  PROVE  StreamInv(u)'
<1>1. StreamInv(u)
  BY DEF FeedInv
<1>2. UNCHANGED <<LastReceived(u), Ids>>
  BY DEF LastReceived, Ids
<1>3. QED
  BY <1>1, <1>2 DEF StreamInv, Asc, Range

LEMMA ArriveFeed ==
  ASSUME TypeOK, FeedInv, NEW l \in Line \cup {NoLine}, Arrive(l)
  PROVE  FeedInv'
<1> SUFFICES ASSUME NEW u \in User PROVE StreamInv(u)'
  BY DEF FeedInv
<1>1. StreamInv(u)
  BY DEF FeedInv
<1>2. UNCHANGED <<stream, scope, cursor, batch, wire, got, common>>
  BY DEF Arrive, connection, client
<1>3. UNCHANGED LastReceived(u)
  BY <1>2 DEF LastReceived
<1>4. /\ Ids' = Ids \cup {Len(notes) + 1} /\ Len(notes) \in Nat
      /\ \A i \in Ids : notes'[i] = notes[i]
  BY NotesFacts, AppendProperties DEF Arrive, TypeOK, Ids
<1>5. /\ \A y \in Range(batch[u]) : y \in Ids
      /\ cursor[u] <= Len(notes) /\ LastReceived(u) <= Len(notes)
      /\ cursor[u] \in Nat /\ LastReceived(u) \in Nat
  BY StreamTypes
<1>6. \A i \in Ids' : i <= Len(notes) => i \in Ids
  BY <1>4 DEF Ids
<1>7. \A y \in Range(batch[u]) : y \in Nat /\ y <= Len(notes)
  BY <1>5, NotesFacts DEF Ids
<1>8. ASSUME NEW i \in Ids', notes'[i] \in common[u]
      PROVE  /\ i <= LastReceived(u) => i \in Range(got[u])
             /\ stream[u] = "on" /\ i <= cursor[u] => i \in Range(got[u]) \cup Range(wire[u])
             /\ stream[u] = "on" /\ cursor[u] < i =>
                  \A y \in Range(batch[u]) : i <= y => i \in Range(batch[u])
  <2>1. CASE i \in Ids
    BY <1>1, <1>4, <1>8, <2>1 DEF StreamInv
  <2>2. CASE i = Len(notes) + 1
    BY <1>4, <1>5, <1>7, <2>2
  <2>3. QED
    BY <1>4, <2>1, <2>2
<1>9. QED
  BY <1>1, <1>2, <1>3, <1>8 DEF StreamInv, Asc, Range

\* The connection's own steps, for the user they are about.
LEMMA ConnectFeed ==
  ASSUME TypeOK, NEW u \in User, StreamInv(u), Connect(u)
  PROVE  StreamInv(u)'
<1>1. /\ stream[u] = "off" /\ stream'[u] = "on"
      /\ scope'[u] = Scope(u) /\ cursor'[u] = LastReceived(u)
      /\ common'[u] = common[u] \cap Scope(u)
      /\ UNCHANGED <<notes, batch, wire, got>>
  BY DEF Connect, TypeOK
<1>2. batch[u] = <<>> /\ wire[u] = <<>>
  BY <1>1 DEF StreamInv
<1>3. UNCHANGED <<LastReceived(u), Ids>>
  BY <1>1 DEF LastReceived, Ids
<1>4. LastReceived(u) \in Nat
  BY StreamTypes
<1>5. Asc(got[u])' /\ Asc(wire[u])' /\ Asc(batch[u])'
  BY <1>1 DEF StreamInv, Asc
<1>6. UNCHANGED <<Range(got[u]), Range(wire[u]), Range(batch[u])>>
      /\ Range(wire[u]) = {} /\ Range(batch[u]) = {}
  BY <1>1, <1>2, RangeEmpty DEF Range
<1>7. \A i \in Ids : notes[i] \in common[u] /\ i <= LastReceived(u) => i \in Range(got[u])
  BY DEF StreamInv
<1>8. QED
  BY <1>1, <1>2, <1>3, <1>4, <1>5, <1>6, <1>7 DEF StreamInv

LEMMA DisconnectFeed ==
  ASSUME TypeOK, NEW u \in User, StreamInv(u), Disconnect(u)
  PROVE  StreamInv(u)'
<1>1. /\ stream'[u] = "off" /\ batch'[u] = <<>> /\ wire'[u] = <<>>
      /\ UNCHANGED <<notes, got, common>>
  BY DEF Disconnect, TypeOK, client
<1>2. UNCHANGED <<LastReceived(u), Ids>>
  BY <1>1 DEF LastReceived, Ids
<1>3. Asc(got[u])' /\ Asc(wire[u])' /\ Asc(batch[u])'
  BY <1>1 DEF StreamInv, Asc
<1>4. UNCHANGED Range(got[u]) /\ Range(wire[u])' = {} /\ Range(batch[u])' = {}
  BY <1>1, RangeEmpty DEF Range
<1>5. \A i \in Ids : notes[i] \in common[u] /\ i <= LastReceived(u) => i \in Range(got[u])
  BY DEF StreamInv
<1>6. QED
  BY <1>1, <1>2, <1>3, <1>4, <1>5 DEF StreamInv

LEMMA PollFeed ==
  ASSUME TypeOK, NEW u \in User, StreamInv(u), Poll(u)
  PROVE  StreamInv(u)'
<1>1. PICK rows \in Ascending(NewFor(u)) : batch' = [batch EXCEPT ![u] = rows]
  BY DEF Poll
<1>2. /\ stream[u] = "on" /\ batch'[u] = rows
      /\ UNCHANGED <<notes, stream, scope, cursor, wire, got, common>>
  BY <1>1 DEF Poll, TypeOK, client
<1>3. NewFor(u) \in SUBSET Ids /\ NewFor(u) \in SUBSET Nat /\ IsFiniteSet(NewFor(u))
  BY NotesFacts, FS_Subset DEF NewFor
<1>4. Asc(rows) /\ Range(rows) = NewFor(u)
  BY <1>3, AscRows
<1>5. UNCHANGED <<LastReceived(u), Ids>>
  BY <1>2 DEF LastReceived, Ids
<1>6. Asc(got[u])' /\ Asc(wire[u])' /\ Asc(batch[u])'
  BY <1>2, <1>4 DEF StreamInv, Asc
<1>7. UNCHANGED <<Range(got[u]), Range(wire[u])>> /\ Range(batch[u])' = NewFor(u)
  BY <1>2, <1>4 DEF Range
<1>8. \A y \in NewFor(u) : cursor[u] < y
  BY <1>3, StreamTypes DEF NewFor
<1>9. \A i \in Ids : notes[i] \in common[u] /\ cursor[u] < i => i \in NewFor(u)
  BY <1>2, NotesFacts, StreamTypes DEF StreamInv, NewFor
<1>10. QED
  BY <1>2, <1>5, <1>6, <1>7, <1>8, <1>9 DEF StreamInv

LEMMA SendFeed ==
  ASSUME TypeOK, NEW u \in User, StreamInv(u), Send(u)
  PROVE  StreamInv(u)'
<1> DEFINE h == Head(batch[u])
<1>1. /\ stream[u] = "on" /\ batch[u] # <<>>
      /\ cursor'[u] = h /\ batch'[u] = Tail(batch[u]) /\ wire'[u] = Append(wire[u], h)
      /\ UNCHANGED <<notes, stream, scope, got, common>>
  BY DEF Send, Sent, TypeOK, client
<1>2. /\ h \in Nat /\ Asc(Tail(batch[u])) /\ Range(batch[u]) = {h} \cup Range(Tail(batch[u]))
      /\ \A y \in Range(Tail(batch[u])) : h < y
  BY <1>1, StreamTypes, AscTail DEF StreamInv
<1>3. cursor[u] < h /\ cursor[u] \in Nat /\ LastReceived(u) \in Nat
      /\ LastReceived(u) <= cursor[u]
  BY <1>1, <1>2, StreamTypes DEF StreamInv
<1>4. \A y \in Range(wire[u]) : y \in Nat /\ LastReceived(u) < y /\ y < h
  <2> SUFFICES ASSUME NEW y \in Range(wire[u]) PROVE y \in Nat /\ LastReceived(u) < y /\ y < h
    OBVIOUS
  <2>1. y \in Nat
    BY StreamTypes, NotesFacts
  <2>2. LastReceived(u) < y /\ y <= cursor[u]
    BY DEF StreamInv
  <2> HIDE DEF h
  <2>3. QED
    BY <1>2, <1>3, <2>1, <2>2
<1>5. Asc(Append(wire[u], h)) /\ Range(Append(wire[u], h)) = Range(wire[u]) \cup {h}
  <2> HIDE DEF h
  <2> QED BY <1>2, <1>4, StreamTypes, AscAppend DEF StreamInv
<1> HIDE DEF h
<1>6. UNCHANGED <<LastReceived(u), Ids>>
  BY <1>1 DEF LastReceived, Ids
<1>7. Asc(got[u])' /\ Asc(wire[u])' /\ Asc(batch[u])'
  BY <1>1, <1>2, <1>5 DEF StreamInv, Asc
<1>8. /\ UNCHANGED Range(got[u]) /\ Range(wire[u])' = Range(wire[u]) \cup {h}
      /\ Range(batch[u])' = Range(Tail(batch[u]))
  BY <1>1, <1>5 DEF Range
<1>9. \A y \in Range(wire[u]) \cup {h} : LastReceived(u) < y /\ y <= h
  BY <1>2, <1>3, <1>4
<1>10. ASSUME NEW i \in Ids, notes[i] \in common[u]
       PROVE  /\ i <= LastReceived(u) => i \in Range(got[u])
              /\ i <= h => i \in Range(got[u]) \cup Range(wire[u]) \cup {h}
              /\ h < i => \A y \in Range(Tail(batch[u])) :
                            i <= y => i \in Range(Tail(batch[u]))
  <2>1. i \in Nat
    BY NotesFacts
  <2>2. i <= LastReceived(u) => i \in Range(got[u])
    BY <1>10 DEF StreamInv
  <2>3. i <= cursor[u] => i \in Range(got[u]) \cup Range(wire[u])
    BY <1>1, <1>10 DEF StreamInv
  <2>4. cursor[u] < i => \A y \in Range(batch[u]) : i <= y => i \in Range(batch[u])
    BY <1>1, <1>10 DEF StreamInv
  <2>5. ASSUME cursor[u] < i, i <= h PROVE i = h
    <3>1. i \in Range(batch[u])
      BY <1>2, <2>4, <2>5
    <3>2. QED
      BY <1>2, <2>1, <2>5, <3>1
  <2>6. i <= h => i \in Range(got[u]) \cup Range(wire[u]) \cup {h}
    BY <1>3, <2>1, <2>3, <2>5
  <2>7. ASSUME h < i, NEW y \in Range(Tail(batch[u])), i <= y PROVE i \in Range(Tail(batch[u]))
    <3>1. i \in Range(batch[u])
      BY <1>2, <1>3, <2>1, <2>4, <2>7
    <3>2. QED
      BY <1>2, <2>1, <2>7, <3>1
  <2>8. QED
    BY <2>2, <2>6, <2>7
<1>11. QED
  BY <1>1, <1>2, <1>3, <1>6, <1>7, <1>8, <1>9, <1>10 DEF StreamInv

LEMMA ReceiveFeed ==
  ASSUME TypeOK, NEW u \in User, StreamInv(u), Receive(u)
  PROVE  StreamInv(u)'
<1> DEFINE h == Head(wire[u])
<1>1. /\ wire[u] # <<>> /\ wire'[u] = Tail(wire[u]) /\ got'[u] = Append(got[u], h)
      /\ UNCHANGED <<notes, stream, scope, cursor, batch, common>>
  BY DEF Receive, TypeOK
<1>2. stream[u] = "on"
  BY <1>1 DEF StreamInv, TypeOK
<1>3. /\ h \in Nat /\ Asc(Tail(wire[u])) /\ Range(wire[u]) = {h} \cup Range(Tail(wire[u]))
      /\ \A y \in Range(Tail(wire[u])) : h < y
  BY <1>1, StreamTypes, AscTail DEF StreamInv
<1>4. LastReceived(u) < h /\ h <= cursor[u] /\ cursor[u] \in Nat /\ LastReceived(u) \in Nat
  BY <1>3, StreamTypes DEF StreamInv
<1>5. \A y \in Range(got[u]) : y < h
  <2> SUFFICES ASSUME NEW y \in Range(got[u]) PROVE y < h
    OBVIOUS
  <2>1. y \in Nat
    BY StreamTypes, NotesFacts
  <2>2. got[u] # <<>>
    BY RangeEmpty
  <2>3. y <= LastReceived(u)
    BY <2>2, StreamTypes, AscLast DEF StreamInv, LastReceived
  <2>4. QED
    BY <1>3, <1>4, <2>1, <2>3
<1> HIDE DEF h
<1>6. /\ Append(got[u], h) # <<>> /\ Asc(Append(got[u], h))
      /\ Range(Append(got[u], h)) = Range(got[u]) \cup {h} /\ Last(Append(got[u], h)) = h
  BY <1>3, <1>5, StreamTypes, AscAppend DEF StreamInv
<1>7. LastReceived(u)' = h /\ UNCHANGED Ids
  BY <1>1, <1>6 DEF LastReceived, Ids
<1>8. Asc(got[u])' /\ Asc(wire[u])' /\ Asc(batch[u])'
  BY <1>1, <1>3, <1>6 DEF StreamInv, Asc
<1>9. /\ Range(got[u])' = Range(got[u]) \cup {h} /\ Range(wire[u])' = Range(Tail(wire[u]))
      /\ UNCHANGED Range(batch[u])
  BY <1>1, <1>6 DEF Range
<1>10. \A y \in Range(Tail(wire[u])) : h < y /\ y <= cursor[u]
  BY <1>3 DEF StreamInv
<1>11. ASSUME NEW i \in Ids, notes[i] \in common[u]
       PROVE  /\ i <= h => i \in Range(got[u]) \cup {h}
              /\ i <= cursor[u] => i \in Range(got[u]) \cup {h} \cup Range(Tail(wire[u]))
  <2>1. i \in Nat
    BY NotesFacts
  <2>2. i <= cursor[u] => i \in Range(got[u]) \cup {h} \cup Range(Tail(wire[u]))
    BY <1>2, <1>3, <1>11 DEF StreamInv
  <2>3. QED
    BY <1>3, <1>4, <2>1, <2>2
<1>12. \A i \in Ids : notes[i] \in common[u] /\ cursor[u] < i =>
         \A y \in Range(batch[u]) : i <= y => i \in Range(batch[u])
  BY <1>2 DEF StreamInv
<1>13. \A y \in Range(batch[u]) : cursor[u] < y
  BY DEF StreamInv
<1>14. common[u] \subseteq scope[u]
  BY <1>2 DEF StreamInv
<1>15. QED
  BY <1>1, <1>2, <1>4, <1>7, <1>8, <1>9, <1>10, <1>11, <1>12, <1>13, <1>14 DEF StreamInv

LEMMA NextFeed == TypeOK /\ FeedInv /\ [Next]_vars => FeedInv'
<1> SUFFICES ASSUME TypeOK, FeedInv, [Next]_vars PROVE FeedInv'
  OBVIOUS
<1>1. ASSUME NEW u \in User, Connect(u) \/ Disconnect(u) \/ Poll(u) \/ Send(u) \/ Receive(u)
      PROVE  FeedInv'
  <2>1. StreamInv(u)
    BY DEF FeedInv
  <2>2. StreamInv(u)'
    BY <1>1, <2>1, ConnectFeed, DisconnectFeed, PollFeed, SendFeed, ReceiveFeed
  <2>3. ASSUME NEW v \in User \ {u} PROVE StreamInv(v)'
    <3>1. /\ UNCHANGED notes
          /\ UNCHANGED <<stream[v], scope[v], cursor[v], batch[v], wire[v], got[v], common[v]>>
      BY <1>1 DEF Connect, Disconnect, Poll, Send, Receive, TypeOK, client
    <3>2. QED
      BY <3>1, OtherStream
  <2>4. QED
    BY <2>2, <2>3 DEF FeedInv
<1>2. ASSUME UNCHANGED <<notes, connection, client>> PROVE FeedInv'
  BY <1>2, OtherStream DEF FeedInv, connection, client
<1>3. ASSUME NEW u \in User,
             \/ \E assigned \in SUBSET Line : Reassign(u, assigned)
             \/ \E i \in 1..MaxNotes : MarkRead(u, i) \/ MarkUnread(u, i)
             \/ MarkAllRead(u)
             \/ \E unreadOnly \in BOOLEAN, page \in 1..MaxNotes : ListCount(u, unreadOnly, page)
      PROVE  FeedInv'
  BY <1>2, <1>3 DEF Reassign, MarkRead, MarkUnread, MarkAllRead, ListCount
<1>4. ASSUME NEW r \in requests, ListFetch(r) PROVE FeedInv'
  BY <1>2, <1>4 DEF ListFetch
<1>5. CASE UNCHANGED vars
  BY <1>2, <1>5 DEF vars
<1>6. QED
  BY <1>1, <1>3, <1>4, <1>5, ArriveFeed DEF Next

-----------------------------------------------------------------------------
(* The list.                                                               *)

\* What was counted is still there, and the page is one of those counted.
PageInv ==
  \A r \in requests :
    ~r.unreadOnly =>
      /\ r.total <= Cardinality(Selected(r.user, r.allowed, FALSE))
      /\ r.total > 0 => r.page <= Ceiling(r.total)

LEMMA SelectedNext ==
  ASSUME TypeOK', NEW u, NEW allowed
  PROVE  /\ IsFiniteSet(Selected(u, allowed, FALSE)')
         /\ Cardinality(Selected(u, allowed, FALSE)') \in Nat
<1>1. notes' \in Seq(Line \cup {NoLine})
  BY DEF TypeOK
<1>2. Len(notes') \in Nat /\ DOMAIN notes' = 1..Len(notes')
  BY <1>1, LenProperties
<1>3. Selected(u, allowed, FALSE)' \subseteq 1..Len(notes')
  BY <1>2 DEF Selected
<1>4. IsFiniteSet(1..Len(notes'))
  BY <1>2, FS_Interval
<1>5. IsFiniteSet(Selected(u, allowed, FALSE)')
  BY <1>3, <1>4, FS_Subset
<1>6. QED
  BY <1>5, FS_CardinalityType

\* The log only grows.
LEMMA SelectedGrows ==
  ASSUME TypeOK, TypeOK', [Next]_vars, NEW u, NEW allowed
  PROVE  Cardinality(Selected(u, allowed, FALSE))
           <= Cardinality(Selected(u, allowed, FALSE)')
<1> DEFINE S == Selected(u, allowed, FALSE)
           T == Selected(u, allowed, FALSE)'
<1>1. ASSUME NEW l \in Line \cup {NoLine}, Arrive(l) PROVE S \subseteq T
  <2>1. Len(notes) \in Nat /\ DOMAIN notes = 1..Len(notes) /\ notes \in Seq(Line \cup {NoLine})
    BY NotesFacts DEF Ids, TypeOK
  <2>2. /\ Len(notes') = Len(notes) + 1 /\ DOMAIN notes' = 1..Len(notes')
        /\ \A i \in 1..Len(notes) : notes'[i] = notes[i]
    BY <1>1, <2>1, AppendProperties, LenProperties DEF Arrive
  <2>3. QED
    BY <2>1, <2>2 DEF Selected, InScope
<1>2. ASSUME UNCHANGED notes PROVE S \subseteq T
  BY <1>2 DEF Selected, InScope
<1>3. S \subseteq T
  BY <1>1, <1>2 DEF Next, Reassign, Connect, Disconnect, Poll, Send, Receive, MarkRead,
                    MarkUnread, MarkAllRead, ListCount, ListFetch, vars
<1>4. IsFiniteSet(T)
  BY SelectedNext
<1>5. QED
  BY <1>3, <1>4, FS_Subset

LEMMA NextPage == TypeOK /\ TypeOK' /\ PageInv /\ [Next]_vars => PageInv'
<1> SUFFICES ASSUME TypeOK, TypeOK', PageInv, [Next]_vars PROVE PageInv'
  OBVIOUS
<1>1. ASSUME NEW r \in requests PROVE r.total \in Nat
  BY NotesFacts DEF TypeOK
<1>2. ASSUME NEW r \in requests, ~r.unreadOnly
      PROVE  /\ r.total <= Cardinality(Selected(r.user, r.allowed, FALSE)')
             /\ r.total > 0 => r.page <= Ceiling(r.total)
  <2> DEFINE n == Cardinality(Selected(r.user, r.allowed, FALSE))
             m == Cardinality(Selected(r.user, r.allowed, FALSE)')
  <2>1. n <= m
    BY SelectedGrows
  <2>2. n \in Nat /\ m \in Nat
    BY SelectedType, SelectedNext
  <2>3. r.total <= n /\ (r.total > 0 => r.page <= Ceiling(r.total))
    BY <1>2 DEF PageInv
  <2> HIDE DEF n, m
  <2>4. r.total <= m
    BY <1>1, <2>1, <2>2, <2>3
  <2>5. QED
    BY <2>3, <2>4 DEF m
<1>3. ASSUME requests' \subseteq requests PROVE PageInv'
  BY <1>2, <1>3 DEF PageInv
<1>4. ASSUME NEW u \in User, NEW unreadOnly \in BOOLEAN, NEW page \in 1..MaxNotes,
             ListCount(u, unreadOnly, page)
      PROVE  PageInv'
  <2>1. PICK q : q = [user |-> u, allowed |-> Scope(u), unreadOnly |-> unreadOnly,
                      total |-> Cardinality(Selected(u, Scope(u), unreadOnly)),
                      page |-> CurrentPage(page, Cardinality(Selected(u, Scope(u), unreadOnly)))]
    OBVIOUS
  <2>2. requests' = requests \cup {q} /\ UNCHANGED <<notes, reads>>
    BY <1>4, <2>1 DEF ListCount
  <2>3. /\ q.total = Cardinality(Selected(q.user, q.allowed, q.unreadOnly))
        /\ q.page = CurrentPage(page, q.total) /\ q.unreadOnly \in BOOLEAN
    BY <2>1
  <2>4. q.total \in Nat
    BY <2>3, SelectedType
  <2>5. q.total > 0 => q.page <= Ceiling(q.total)
    BY <2>3, <2>4, PageType
  <2>6. Selected(q.user, q.allowed, FALSE)' = Selected(q.user, q.allowed, FALSE)
    BY <2>2 DEF Selected, InScope
  <2>7. ~q.unreadOnly => q.total = Cardinality(Selected(q.user, q.allowed, FALSE)')
    <3>1. ~q.unreadOnly => q.unreadOnly = FALSE
      BY <2>3
    <3>2. QED
      BY <2>3, <2>6, <3>1
  <2>8. ~q.unreadOnly =>
          /\ q.total <= Cardinality(Selected(q.user, q.allowed, FALSE)')
          /\ q.total > 0 => q.page <= Ceiling(q.total)
    <3> DEFINE c == Cardinality(Selected(q.user, q.allowed, FALSE)')
    <3>1. ~q.unreadOnly => q.total <= c
      <4> SUFFICES ASSUME ~q.unreadOnly, q.total = c PROVE q.total <= c
        BY <2>7
      <4> HIDE DEF c
      <4> QED BY <2>4
    <3>2. QED
      BY <2>5, <3>1
  <2>9. QED
    BY <1>2, <2>2, <2>8 DEF PageInv
<1>5. CASE UNCHANGED vars
  BY <1>3, <1>5 DEF vars, inbox
<1>6. QED
  BY <1>3, <1>4, <1>5 DEF Next, Arrive, Reassign, Connect, Disconnect, Poll, Send, Receive,
                          MarkRead, MarkUnread, MarkAllRead, ListFetch, inbox

\* A page of the unfiltered list is as full as its total says.
LEMMA PagesAreFilled == TypeOK /\ PageInv => PageFilled
<1> SUFFICES ASSUME TypeOK, PageInv, NEW r \in requests, ~r.unreadOnly, r.total > 0
             PROVE  IF r.page < Ceiling(r.total)
                    THEN Items(r) = PageSize
                    ELSE Items(r) >= r.total - (r.page - 1) * PageSize /\ Items(r) > 0
  BY DEF PageFilled
<1> DEFINE n == Cardinality(Selected(r.user, r.allowed, FALSE))
           c == Ceiling(r.total)
<1>1. r.total \in Nat /\ r.page \in 1..MaxNotes /\ r.unreadOnly = FALSE
  BY NotesFacts DEF TypeOK
<1>2. n \in Nat
  BY SelectedType
<1>3. r.total <= n /\ r.page <= c
  BY DEF PageInv
<1>4. c \in Nat \ {0} /\ (c - 1) * PageSize < r.total
  BY <1>1, CeilingBounds
<1>5. Beyond(r) = n - (r.page - 1) * PageSize
  BY <1>1 DEF Beyond
<1>6. PageSize \in Nat /\ PageSize > 0 /\ r.page \in Nat /\ r.page >= 1
  BY <1>1, FeedAssumption
<1> HIDE DEF n, c
<1>7. (r.page - 1) * PageSize <= (c - 1) * PageSize
  BY <1>3, <1>4, <1>6
<1>8. r.page < c => r.page * PageSize <= (c - 1) * PageSize
  BY <1>3, <1>4, <1>6
<1>9. (r.page - 1) * PageSize = r.page * PageSize - PageSize
  BY <1>6
<1>10. c <= r.page => r.total <= r.page * PageSize
  <2>1. r.total <= c * PageSize
    BY <1>1, CeilingBounds DEF c
  <2>2. c <= r.page => c * PageSize <= r.page * PageSize
    BY <1>4, <1>6
  <2>3. QED
    BY <1>1, <1>4, <1>6, <2>1, <2>2
<1> DEFINE x == (r.page - 1) * PageSize
           y == (c - 1) * PageSize
           z == r.page * PageSize
<1>11. x \in Int /\ y \in Int /\ z \in Int
  BY <1>4, <1>6
<1>12. /\ x <= y /\ y < r.total /\ x = z - PageSize
       /\ r.page < c => z <= y
       /\ c <= r.page => r.total <= z
  BY <1>4, <1>7, <1>8, <1>9, <1>10
<1>13. Beyond(r) = n - x
  BY <1>5
<1> HIDE DEF x, y, z
<1>14. Items(r) = IF n - x > PageSize THEN PageSize ELSE n - x
  BY <1>1, <1>2, <1>3, <1>11, <1>12, <1>13 DEF Items
<1>15. CASE r.page < c
  <2>1. Items(r) = PageSize
    BY <1>1, <1>2, <1>3, <1>6, <1>11, <1>12, <1>14, <1>15
  <2>2. QED
    BY <1>15, <2>1 DEF c
<1>16. CASE ~(r.page < c)
  <2>1. Items(r) >= r.total - x /\ Items(r) > 0
    BY <1>1, <1>2, <1>3, <1>4, <1>6, <1>11, <1>12, <1>14, <1>16
  <2>2. QED
    BY <1>16, <2>1 DEF c, x
<1>17. QED
  BY <1>15, <1>16

-----------------------------------------------------------------------------

\* No event reaches a client twice, out of order or with a gap before it, and
\* no page shows less than its total promises, over all broken connections,
\* reassigned lines and late arrivals (notification/router.py:160-205,
\* service.py:41-85).
THEOREM FeedAlwaysFaithful == Spec => []FeedFaithful
<1>1. FeedInv => ReceivedInOrder
  BY DEF FeedInv, StreamInv, Asc, ReceivedInOrder
<1>2. TypeOK /\ FeedInv => NothingSkipped
  <2> SUFFICES ASSUME TypeOK, FeedInv PROVE NothingSkipped
    OBVIOUS
  <2>1. QED
    BY NotesFacts DEF FeedInv, StreamInv, NothingSkipped
<1>3. Init => PageInv
  BY DEF Init, PageInv
<1>4. TypeOK /\ FeedInv /\ PageInv => FeedFaithful
  BY <1>1, <1>2, PagesAreFilled DEF FeedFaithful
<1>5. QED
  BY <1>3, <1>4, InitTypes, InitFeed, NextTypes, NextFeed, NextPage, PTL DEF Spec

=============================================================================
