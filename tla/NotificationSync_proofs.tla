----------------------- MODULE NotificationSync_proofs -----------------------
(* Proofs about the notification loop, for every lookback, bucket width,   *)
(* lag, number of alarms and length of the run.                            *)
EXTENDS NotificationSync, FiniteSetTheorems, SequenceTheorems,
        WellFoundedInduction, TLAPS

Note == [alarm : Alarm, bucket : Nat, occurred : 0..MaxTime]

\* The parts of TypeOK the arguments below need, and that rows are finitely
\* many, so that a cycle's groups can be written in some order.
Shape ==
  /\ TypeOK
  /\ IsFiniteSet(alarms) /\ IsFiniteSet(window)

-----------------------------------------------------------------------------
(* The grouping.                                                           *)

\* A non-empty set of natural numbers has a least element.
LEMMA LeastNatural ==
  ASSUME NEW T \in SUBSET Nat, T # {}
  PROVE  \E m \in T : \A t \in T : m <= t
<1>1. PICK m \in T : \A t \in T : <<t, m>> \notin OpToRel(<, Nat)
  BY NatLessThanWellFounded, WFMin
<1>2. \A t \in T : ~(t < m)
  BY <1>1 DEF OpToRel
<1>3. QED
  BY <1>2

\* A stamp's bucket is a natural number.
LEMMA BucketNat == \A t \in Nat : Bucket(t) \in Nat
BY TimeAssumption DEF Bucket

\* The group of a row, and the groups of finitely many rows, which are
\* finitely many notifications.
LEMMA GroupsFinite ==
  ASSUME NEW rows \in SUBSET Row, IsFiniteSet(rows)
  PROVE  Groups(rows) \in SUBSET Note /\ IsFiniteSet(Groups(rows))
<1> DEFINE First == {s \in rows : \A t \in rows :
                       t.alarm = s.alarm /\ Bucket(t.at) = Bucket(s.at) => s.at <= t.at}
           group == [r \in First |->
                       [alarm |-> r.alarm, bucket |-> Bucket(r.at), occurred |-> r.at]]
<1>1. Groups(rows) \in SUBSET Note
  BY BucketNat, TimeAssumption DEF Groups, Note, Row
<1>2. IsFiniteSet(First)
  BY FS_Subset
<1>3. group \in Surjection(First, Groups(rows))
  BY DEF Groups, Surjection
<1>4. QED
  BY <1>1, <1>2, <1>3, FS_Surjection

\* What a committed cycle writes: notifications of missing groups, each of them
\* at least once, behind what was there.
LEMMA CommitWrites ==
  ASSUME Shape, SyncCommit
  PROVE  \E new \in Seq(Note) :
           /\ notes' = notes \o new
           /\ \A i \in DOMAIN new : new[i] \in Missing(window)
           /\ \A g \in Missing(window) : \E i \in DOMAIN new : new[i] = g
           /\ \A i, j \in DOMAIN new : new[i] = new[j] => i = j
<1> DEFINE M == Missing(window)
           n == Cardinality(M)
<1>1. M \in SUBSET Note /\ IsFiniteSet(M)
  BY GroupsFinite, FS_Subset DEF Shape, TypeOK, Missing
<1>2. n \in Nat
  BY <1>1, FS_CardinalityType
<1>3. PICK new \in [1..n -> M] :
        /\ \A g \in M : \E i \in DOMAIN new : new[i] = g
        /\ notes' = notes \o new
  BY DEF SyncCommit
<1>4. new \in Seq(Note)
  BY <1>1, <1>2
<1>5. new \in Surjection(1..n, M)
  BY <1>3 DEF Surjection
<1>6. IsFiniteSet(1..n) /\ Cardinality(1..n) = n
  BY <1>2, FS_Interval
<1>7. new \in Injection(1..n, M)
  BY <1>5, <1>6, FS_SurjSameCardinalityImpliesInj
<1>8. \A i, j \in DOMAIN new : new[i] = new[j] => i = j
  BY <1>7 DEF Injection, IsInjective
<1>9. \A i \in DOMAIN new : new[i] \in M
  OBVIOUS
<1>10. QED
  BY <1>3, <1>4, <1>8, <1>9

\* A committed cycle keeps every notification at its id, adds only missing
\* groups behind them and leaves no group of its window unnotified.
LEMMA CommitEffect ==
  ASSUME Shape, SyncCommit
  PROVE  /\ notes' \in Seq(Note)
         /\ Len(notes') >= Len(notes)
         /\ \A i \in 1..Len(notes) : notes'[i] = notes[i]
         /\ \A i \in (Len(notes) + 1)..Len(notes') : notes'[i] \in Missing(window)
         /\ \A i, j \in (Len(notes) + 1)..Len(notes') : notes'[i] = notes'[j] => i = j
         /\ \A g \in Groups(window) : Notified(g.alarm, g.bucket)'
<1>1. PICK new \in Seq(Note) :
        /\ notes' = notes \o new
        /\ \A i \in DOMAIN new : new[i] \in Missing(window)
        /\ \A g \in Missing(window) : \E i \in DOMAIN new : new[i] = g
        /\ \A i, j \in DOMAIN new : new[i] = new[j] => i = j
  BY CommitWrites
<1>2. notes \in Seq(Note)
  BY DEF Shape, TypeOK, Note
<1>3. /\ notes' \in Seq(Note)
      /\ Len(notes') = Len(notes) + Len(new)
      /\ \A i \in 1..Len(notes) + Len(new) :
           notes'[i] = IF i <= Len(notes) THEN notes[i] ELSE new[i - Len(notes)]
  BY <1>1, <1>2, ConcatProperties
<1>4. Len(notes) \in Nat /\ Len(new) \in Nat /\ DOMAIN new = 1..Len(new)
      /\ DOMAIN notes = 1..Len(notes) /\ DOMAIN notes' = 1..Len(notes')
  BY <1>2, <1>3, LenProperties
<1>5. \A i \in 1..Len(notes) : notes'[i] = notes[i]
  BY <1>3, <1>4
<1>6. \A i \in (Len(notes) + 1)..Len(notes') :
        i - Len(notes) \in DOMAIN new /\ notes'[i] = new[i - Len(notes)]
  BY <1>3, <1>4
<1>7. \A i \in DOMAIN new :
        i + Len(notes) \in DOMAIN notes' /\ notes'[i + Len(notes)] = new[i]
  BY <1>3, <1>4
<1>8. ASSUME NEW g \in Groups(window) PROVE Notified(g.alarm, g.bucket)'
  <2>1. CASE Notified(g.alarm, g.bucket)
    BY <2>1, <1>3, <1>4, <1>5 DEF Notified
  <2>2. CASE ~Notified(g.alarm, g.bucket)
    <3>1. g \in Missing(window)
      BY <2>2 DEF Missing
    <3>2. PICK i \in DOMAIN new : new[i] = g
      BY <3>1, <1>1
    <3>3. QED
      BY <3>2, <1>7 DEF Notified
  <2>3. QED
    BY <2>1, <2>2
<1>9. ASSUME NEW i \in (Len(notes) + 1)..Len(notes'),
             NEW j \in (Len(notes) + 1)..Len(notes'), notes'[i] = notes'[j]
      PROVE  i = j
  <2>1. i - Len(notes) \in DOMAIN new /\ j - Len(notes) \in DOMAIN new
        /\ new[i - Len(notes)] = new[j - Len(notes)]
    BY <1>6, <1>9
  <2>2. i - Len(notes) = j - Len(notes)
    BY <1>1, <2>1
  <2>3. QED
    BY <1>3, <1>4, <2>2
<1>10. QED
  BY <1>1, <1>3, <1>4, <1>5, <1>6, <1>8, <1>9

-----------------------------------------------------------------------------
(* Type correctness.                                                       *)

\* Every action keeps the shape.
LEMMA NextShape == Shape /\ [Next]_vars => Shape'
<1> SUFFICES ASSUME Shape, [Next]_vars PROVE Shape'
  OBVIOUS
<1> USE TimeAssumption DEF Shape
<1>1. CASE Elapse
  BY <1>1 DEF TypeOK, Elapse, cycle, history
<1>2. ASSUME NEW a \in Alarm, NEW at \in 0..MaxTime, RowCommitted(a, at) PROVE Shape'
  <2>1. alarms' = alarms \cup {[alarm |-> a, at |-> at]}
    BY <1>2 DEF RowCommitted
  <2>2. IsFiniteSet(alarms')
    BY <2>1, FS_AddElement
  <2>3. alarms' \in SUBSET Row
    BY <2>1 DEF TypeOK, Row
  <2>4. UNCHANGED <<now, notes, cycle, history>>
    BY <1>2 DEF RowCommitted
  <2>5. QED
    BY <2>2, <2>3, <2>4 DEF TypeOK, cycle, history
<1>3. CASE LoopStart
  BY <1>3 DEF TypeOK, LoopStart, history
<1>4. CASE SyncRead
  <2>1. window' \in SUBSET alarms
    BY <1>4 DEF SyncRead
  <2>2. IsFiniteSet(window')
    BY <2>1, FS_Subset
  <2>3. QED
    BY <1>4, <2>2 DEF TypeOK, SyncRead, history
<1>5. CASE SyncCommit
  <2>1. notes' \in Seq(Note)
    BY <1>5, CommitEffect
  <2>2. /\ UNCHANGED <<now, alarms>> /\ pc' = "idle"
        /\ readAt' = 0 /\ window' = {} /\ reached' = {}
        /\ synced' = readAt /\ covered' = reached
        /\ gap' \in {gap, readAt - synced} /\ (gap' = readAt - synced => gap' >= gap)
    BY <1>5 DEF SyncCommit, TypeOK
  <2>3. gap' \in 0..now
    BY <2>2 DEF TypeOK
  <2>4. QED
    BY <2>1, <2>2, <2>3, FS_EmptySet DEF TypeOK, Note
<1>6. CASE SyncFail \/ LoopStop
  <2>1. /\ pc' \in {"down", "idle"} /\ readAt' = 0 /\ window' = {} /\ reached' = {}
        /\ UNCHANGED <<now, alarms, notes, synced, covered, gap>>
    BY <1>6 DEF SyncFail, LoopStop, history
  <2>2. IsFiniteSet(window')
    BY <2>1, FS_EmptySet
  <2>3. QED
    BY <2>1, <2>2 DEF TypeOK
<1>7. CASE UNCHANGED vars
  BY <1>7 DEF TypeOK, vars, cycle, history
<1>8. QED
  BY <1>1, <1>2, <1>3, <1>4, <1>5, <1>6, <1>7 DEF Next

LEMMA InitShape == Init => Shape
BY TimeAssumption, FS_EmptySet DEF Init, Shape, TypeOK

\* Every variable keeps its shape: in particular no cycle is dated after now.
THEOREM SyncTypeCorrect == Spec => []TypeOK
BY InitShape, NextShape, PTL DEF Spec, Shape

-----------------------------------------------------------------------------
(* The log.                                                                *)

\* An invariant of the table alone.
LogInv == Shape /\ Log!Distinct(notes)

\* Within a window there is one group per alarm and bucket.
LEMMA OneGroup ==
  ASSUME NEW rows \in SUBSET Row, NEW g \in Groups(rows), NEW h \in Groups(rows),
         g.alarm = h.alarm, g.bucket = h.bucket
  PROVE  g = h
<1> DEFINE First(s) == \A t \in rows :
                         t.alarm = s.alarm /\ Bucket(t.at) = Bucket(s.at) => s.at <= t.at
<1>1. PICK r \in rows : First(r) /\
        g = [alarm |-> r.alarm, bucket |-> Bucket(r.at), occurred |-> r.at]
  BY DEF Groups
<1>2. PICK s \in rows : First(s) /\
        h = [alarm |-> s.alarm, bucket |-> Bucket(s.at), occurred |-> s.at]
  BY DEF Groups
<1>3. r.alarm = s.alarm /\ Bucket(r.at) = Bucket(s.at)
  BY <1>1, <1>2
<1>4. r.at <= s.at /\ s.at <= r.at
  BY <1>1, <1>2, <1>3
<1>5. r.at \in Nat /\ s.at \in Nat
  BY TimeAssumption DEF Row
<1>6. r.at = s.at
  BY <1>4, <1>5
<1>7. QED
  BY <1>1, <1>2, <1>3, <1>6

\* A committed cycle extends the log or writes nothing.
LEMMA CommitExtends ==
  ASSUME LogInv, SyncCommit
  PROVE  Log!Distinct(notes)' /\ (Log!Extend \/ notes' = notes)
<1> DEFINE n == Len(notes)
           n2 == Len(notes')
<1>1. /\ notes \in Seq(Note) /\ notes' \in Seq(Note)
      /\ n2 >= n
      /\ \A i \in 1..n : notes'[i] = notes[i]
      /\ \A i \in (n + 1)..n2 : notes'[i] \in Missing(window)
      /\ \A i, j \in (n + 1)..n2 : notes'[i] = notes'[j] => i = j
  BY CommitEffect DEF LogInv, Shape, TypeOK, Note
<1>2. n \in Nat /\ n2 \in Nat /\ DOMAIN notes = 1..n /\ DOMAIN notes' = 1..n2
  BY <1>1, LenProperties
<1> DEFINE Same(i, j) == notes'[i].alarm = notes'[j].alarm /\ notes'[i].bucket = notes'[j].bucket
<1>3. \A i, j \in 1..n : Same(i, j) => i = j
  BY <1>1, <1>2 DEF LogInv, Log!Distinct
<1>4. \A i \in 1..n, j \in (n + 1)..n2 : ~Same(i, j)
  <2> SUFFICES ASSUME NEW i \in 1..n, NEW j \in (n + 1)..n2, Same(i, j) PROVE FALSE
    OBVIOUS
  <2>1. notes'[j] \in Missing(window)
    BY <1>1
  <2>2. ~Notified(notes'[j].alarm, notes'[j].bucket)
    BY <2>1 DEF Missing
  <2>3. notes'[i] = notes[i] /\ i \in DOMAIN notes
    BY <1>1, <1>2
  <2>4. QED
    BY <2>2, <2>3 DEF Notified
<1>5. \A i, j \in (n + 1)..n2 : Same(i, j) => i = j
  <2> SUFFICES ASSUME NEW i \in (n + 1)..n2, NEW j \in (n + 1)..n2, Same(i, j)
               PROVE  i = j
    OBVIOUS
  <2>1. notes'[i] \in Groups(window) /\ notes'[j] \in Groups(window)
    BY <1>1 DEF Missing
  <2>2. window \in SUBSET Row
    BY DEF LogInv, Shape, TypeOK
  <2>3. notes'[i] = notes'[j]
    BY <2>1, <2>2, OneGroup
  <2>4. QED
    BY <1>1, <2>3
<1>6. \A i, j \in 1..n2 : Same(i, j) => i = j
  <2> SUFFICES ASSUME NEW i \in 1..n2, NEW j \in 1..n2, Same(i, j) PROVE i = j
    OBVIOUS
  <2> HIDE DEF Same
  <2>1. Same(j, i)
    BY DEF Same
  <2>2. (i \in 1..n \/ i \in (n + 1)..n2) /\ (j \in 1..n \/ j \in (n + 1)..n2)
    BY <1>2
  <2>3. QED
    BY <1>3, <1>4, <1>5, <2>1, <2>2
<1>7. Log!Distinct(notes)'
  BY <1>2, <1>6 DEF Log!Distinct
<1>8. CASE n2 > n
  <2>1. SubSeq(notes', 1, n) = notes
    BY <1>1, <1>2, <1>8
  <2>2. QED
    BY <1>7, <1>8, <2>1 DEF Log!Extend, Log!Distinct
<1>9. CASE n2 = n
  BY <1>1, <1>2, <1>7, <1>9
<1>10. n2 > n \/ n2 = n
  <2> HIDE DEF n, n2
  <2>1. QED
    BY <1>1, <1>2
<1>11. QED
  BY <1>7, <1>8, <1>9, <1>10

\* The loop implements the append-only, duplicate-free log: every cycle extends
\* it or leaves it alone, also a cycle that repeats one that failed after its
\* insert was rolled back, or that reads rows an earlier one has dealt with.
THEOREM SyncImplementsLog == Spec => ImplementsLog
<1>1. Init => LogInv /\ Log!Init
  BY InitShape DEF Init, LogInv, Log!Init, Log!Distinct
<1>2. LogInv /\ [Next]_vars => LogInv' /\ [Log!Extend]_notes
  <2> SUFFICES ASSUME LogInv, [Next]_vars PROVE LogInv' /\ [Log!Extend]_notes
    OBVIOUS
  <2>1. Shape'
    BY NextShape DEF LogInv
  <2>2. CASE SyncCommit
    BY <2>1, <2>2, CommitExtends DEF LogInv
  <2>3. CASE notes' = notes
    BY <2>1, <2>3 DEF LogInv, Log!Distinct
  <2>4. QED
    BY <2>2, <2>3
       DEF Next, Elapse, RowCommitted, LoopStart, SyncRead, SyncFail, LoopStop, vars
<1>3. QED
  BY <1>1, <1>2, PTL DEF Spec, ImplementsLog, Log!Spec

-----------------------------------------------------------------------------
(* Nothing is missed.                                                      *)

\* The rows no committed cycle has covered are recent: they were committed
\* after its read.
Recent == \A r \in alarms \ covered : r.at >= synced - MaxLag

\* The same for the read of the cycle in progress, which saw what was there.
Reading ==
  pc = "writing" =>
    /\ covered \subseteq reached /\ reached \subseteq alarms
    /\ \A r \in alarms \ reached : r.at >= readAt - MaxLag
    /\ \A r \in alarms \ reached, q \in reached : r.alarm = q.alarm => q.at < r.at
    /\ window = {r \in reached : r.at >= readAt - Lookback}

\* Every notification was made from a row of the journal.
FromRow ==
  \A i \in DOMAIN notes : [alarm |-> notes[i].alarm, at |-> notes[i].occurred] \in alarms

MissInv ==
  /\ Shape /\ covered \subseteq alarms
  /\ Recent /\ Reading /\ FromRow
  /\ NothingMissed /\ FirstOfBucket

\* A committed cycle covers the rows it read: what its window cut off was
\* covered before, if the loop was prompt.
LEMMA CommitMissesNothing ==
  ASSUME MissInv, SyncCommit, Prompt'
  PROVE  /\ Prompt
         /\ \A r \in reached \ covered : r \in window
         /\ \A r \in reached : Notified(r.alarm, Bucket(r.at))'
<1> USE DEF MissInv
<1>1. /\ readAt \in Int /\ synced \in Int /\ gap \in Int /\ Lookback \in Int /\ MaxLag \in Int
      /\ \A r \in alarms : r.at \in Int
  BY TimeAssumption DEF Shape, TypeOK, Row
<1>2. pc = "writing"
  BY DEF SyncCommit
<1>3. PICK g \in Int : g = gap' /\ g >= gap /\ g >= readAt - synced
  BY <1>1 DEF SyncCommit
<1>4. g \in Int /\ g >= gap /\ g >= readAt - synced
  BY <1>3
<1>5. g + MaxLag <= Lookback
  BY <1>3, Zenon DEF Prompt
<1>6. gap + MaxLag <= Lookback
  BY <1>1, <1>4, <1>5
<1>7. ASSUME NEW r \in reached \ covered PROVE r \in window
  <2>1. r \in alarms /\ r.at >= synced - MaxLag
    BY <1>2, <1>7 DEF Reading, Recent
  <2>2. r.at >= readAt - Lookback
    BY <1>1, <1>4, <1>5, <2>1
  <2>3. QED
    BY <1>2, <2>2 DEF Reading
<1>8. ASSUME NEW r \in reached PROVE Notified(r.alarm, Bucket(r.at))'
  <2>1. CASE r \in covered
    <3>1. PICK i \in DOMAIN notes : notes[i].alarm = r.alarm /\ notes[i].bucket = Bucket(r.at)
      BY <1>6, <2>1 DEF Prompt, NothingMissed, Notified
    <3>2. /\ notes \in Seq(Note) /\ notes' \in Seq(Note) /\ Len(notes') >= Len(notes)
          /\ \A k \in 1..Len(notes) : notes'[k] = notes[k]
      BY CommitEffect DEF Shape, TypeOK, Note
    <3>3. i \in DOMAIN notes' /\ notes'[i] = notes[i]
      BY <3>1, <3>2
    <3>4. QED
      BY <3>1, <3>3 DEF Notified
  <2>2. CASE r \notin covered
    <3>1. r \in window /\ window \in SUBSET Row
      BY <1>7, <2>2 DEF Shape, TypeOK
    <3>2. PICK s \in window : s.alarm = r.alarm /\ Bucket(s.at) = Bucket(r.at)
            /\ \A t \in window : t.alarm = s.alarm /\ Bucket(t.at) = Bucket(s.at) => s.at <= t.at
      <4> DEFINE S == {t \in window : t.alarm = r.alarm /\ Bucket(t.at) = Bucket(r.at)}
                 T == {t.at : t \in S}
      <4>1. T \subseteq Nat /\ r.at \in T
        BY <3>1, TimeAssumption DEF Row
      <4>2. PICK m \in T : \A t \in T : m <= t
        BY <4>1, LeastNatural
      <4>3. PICK s \in S : s.at = m
        BY <4>2
      <4>4. QED
        BY <4>2, <4>3
    <3>3. [alarm |-> s.alarm, bucket |-> Bucket(s.at), occurred |-> s.at] \in Groups(window)
      BY <3>2 DEF Groups
    <3>4. \A grp \in Groups(window) : Notified(grp.alarm, grp.bucket)'
      BY CommitEffect
    <3>5. QED
      BY <3>2, <3>3, <3>4
  <2>3. QED
    BY <2>1, <2>2
<1>9. QED
  BY <1>6, <1>7, <1>8 DEF Prompt

\* A committed cycle's new notifications come from rows it read, and tell the
\* first occurrence in their bucket if the loop was prompt: an earlier row the
\* window cut off was covered before, so its bucket was not missing.
LEMMA CommitTellsFirst ==
  ASSUME MissInv, SyncCommit
  PROVE  FromRow' /\ FirstOfBucket'
<1> USE DEF MissInv
<1>1. /\ notes \in Seq(Note) /\ notes' \in Seq(Note)
      /\ Len(notes') >= Len(notes)
      /\ \A i \in 1..Len(notes) : notes'[i] = notes[i]
      /\ \A i \in (Len(notes) + 1)..Len(notes') : notes'[i] \in Missing(window)
  BY CommitEffect DEF Shape, TypeOK, Note
<1>2. /\ alarms' = alarms /\ pc = "writing"
      /\ reached \subseteq alarms /\ window \subseteq reached /\ window \in SUBSET Row
      /\ \A r \in alarms : r.at \in Int
  BY TimeAssumption DEF SyncCommit, Reading, Shape, TypeOK, Row
<1>3. \A i \in DOMAIN notes' :
        \/ i \in DOMAIN notes /\ notes'[i] = notes[i]
        \/ notes'[i] \in Missing(window)
  BY <1>1, LenProperties
<1>4. ASSUME NEW g \in Missing(window)
      PROVE  /\ ~Notified(g.alarm, g.bucket)
             /\ \E s \in window : /\ g.alarm = s.alarm /\ g.bucket = Bucket(s.at) /\ g.occurred = s.at
                                  /\ s = [alarm |-> g.alarm, at |-> g.occurred]
                                  /\ \A t \in window :
                                       t.alarm = s.alarm /\ Bucket(t.at) = Bucket(s.at) => s.at <= t.at
  BY <1>2 DEF Missing, Groups, Row
<1>5. FromRow'
  <2> SUFFICES ASSUME NEW i \in DOMAIN notes'
               PROVE  [alarm |-> notes'[i].alarm, at |-> notes'[i].occurred] \in alarms
    BY <1>2 DEF FromRow
  <2>1. CASE i \in DOMAIN notes /\ notes'[i] = notes[i]
    BY <2>1 DEF FromRow
  <2>2. CASE notes'[i] \in Missing(window)
    BY <2>2, <1>2, <1>4
  <2>3. QED
    BY <1>3, <2>1, <2>2
<1>6. ASSUME Prompt', NEW i \in DOMAIN notes', NEW r \in alarms,
             r.alarm = notes'[i].alarm, Bucket(r.at) = notes'[i].bucket
      PROVE  notes'[i].occurred <= r.at
  <2>1. Prompt /\ \A q \in reached \ covered : q \in window
    BY <1>6, CommitMissesNothing
  <2>2. CASE i \in DOMAIN notes /\ notes'[i] = notes[i]
    BY <1>6, <2>1, <2>2 DEF FirstOfBucket
  <2>3. CASE notes'[i] \in Missing(window)
    <3>1. PICK s \in window :
            /\ r.alarm = s.alarm /\ Bucket(r.at) = Bucket(s.at) /\ notes'[i].occurred = s.at
            /\ \A t \in window :
                 t.alarm = s.alarm /\ Bucket(t.at) = Bucket(s.at) => s.at <= t.at
      BY <1>4, <1>6, <2>3
    <3>2. ~Notified(r.alarm, Bucket(r.at))
      BY <1>4, <1>6, <2>3
    <3>3. CASE r \notin reached
      <4>1. s.at < r.at
        BY <1>2, <3>1, <3>3 DEF Reading
      <4>2. QED
        BY <1>2, <3>1, <4>1
    <3>4. CASE r \in window
      BY <3>1, <3>4
    <3>5. r \notin covered
      BY <2>1, <3>2 DEF NothingMissed
    <3>6. QED
      BY <2>1, <3>3, <3>4, <3>5
  <2>4. QED
    BY <1>3, <2>2, <2>3
<1>7. FirstOfBucket'
  BY <1>2, <1>6 DEF FirstOfBucket
<1>8. QED
  BY <1>5, <1>7

\* A new row is later than every row of its alarm, hence later than what any
\* notification of it tells.
LEMMA RowKeepsInv ==
  ASSUME MissInv, NEW a \in Alarm, NEW at \in 0..MaxTime, RowCommitted(a, at)
  PROVE  MissInv'
<1> DEFINE new == [alarm |-> a, at |-> at]
<1> USE DEF MissInv
<1>1. /\ UNCHANGED <<now, notes, cycle, history>>
      /\ alarms' = alarms \cup {new}
      /\ at >= now - MaxLag
      /\ \A r \in alarms : r.alarm = a => r.at < at
  BY TimeAssumption DEF RowCommitted, Shape, TypeOK
<1>2. /\ synced \in Int /\ readAt \in Int /\ now \in Int /\ MaxLag \in Int
      /\ synced <= now /\ readAt <= now /\ at \in Int
      /\ alarms \in SUBSET Row /\ \A r \in alarms : r.at \in Int
  BY TimeAssumption DEF Shape, TypeOK, Row
<1>3. at >= synced - MaxLag /\ at >= readAt - MaxLag
  BY <1>1, <1>2
<1>4. Shape'
  BY NextShape DEF Next
<1>5. Recent'
  BY <1>1, <1>3 DEF Recent, history
<1>6. Reading'
  <2> SUFFICES ASSUME pc = "writing"
               PROVE  /\ covered \subseteq reached /\ reached \subseteq alarms'
                      /\ \A r \in alarms' \ reached : r.at >= readAt - MaxLag
                      /\ \A r \in alarms' \ reached, q \in reached :
                           r.alarm = q.alarm => q.at < r.at
                      /\ window = {r \in reached : r.at >= readAt - Lookback}
    BY <1>1 DEF Reading, cycle, history
  <2>1. QED
    BY <1>1, <1>3 DEF Reading
<1>7. FromRow'
  BY <1>1 DEF FromRow
<1>8. NothingMissed' /\ covered' \subseteq alarms'
  BY <1>1 DEF NothingMissed, Prompt, Notified, history
<1>9. FirstOfBucket'
  <2> SUFFICES ASSUME Prompt, NEW i \in DOMAIN notes, NEW r \in alarms',
                      r.alarm = notes[i].alarm, Bucket(r.at) = notes[i].bucket
               PROVE  notes[i].occurred <= r.at
    BY <1>1 DEF FirstOfBucket, Prompt, history
  <2>1. CASE r \in alarms
    BY <2>1 DEF FirstOfBucket
  <2>2. CASE r = new
    <3>1. [alarm |-> notes[i].alarm, at |-> notes[i].occurred] \in alarms
      BY DEF FromRow
    <3>2. notes[i].occurred < at /\ notes[i].occurred \in Int
      BY <1>1, <1>2, <2>2, <3>1
    <3>3. QED
      BY <1>2, <2>2, <3>2
  <2>3. QED
    BY <1>1, <2>1, <2>2
<1>10. QED
  BY <1>4, <1>5, <1>6, <1>7, <1>8, <1>9

LEMMA NextMiss == MissInv /\ [Next]_vars => MissInv'
<1> SUFFICES ASSUME MissInv, [Next]_vars PROVE MissInv'
  OBVIOUS
<1>1. Shape'
  BY NextShape DEF MissInv
<1>2. CASE UNCHANGED <<alarms, notes, history>> /\ pc' # "writing"
  BY <1>1, <1>2
     DEF MissInv, Recent, Reading, FromRow, NothingMissed, FirstOfBucket, Prompt, Notified, history
<1>3. CASE UNCHANGED <<alarms, notes, cycle, history>>
  BY <1>1, <1>3
     DEF MissInv, Recent, Reading, FromRow, NothingMissed, FirstOfBucket, Prompt, Notified,
         cycle, history
<1>4. ASSUME NEW a \in Alarm, NEW at \in 0..MaxTime, RowCommitted(a, at) PROVE MissInv'
  BY <1>4, RowKeepsInv
<1>5. CASE SyncRead
  <2>1. /\ UNCHANGED <<now, alarms, notes, history>> /\ readAt' = now /\ reached' = alarms
        /\ window' = {r \in alarms : r.at >= now - Lookback}
    BY <1>5 DEF SyncRead, InWindow
  <2>2. Reading'
    BY <2>1 DEF MissInv, Reading, history
  <2>3. QED
    BY <1>1, <2>1, <2>2
       DEF MissInv, Recent, FromRow, NothingMissed, FirstOfBucket, Prompt, Notified, history
<1>6. CASE SyncCommit
  <2>1. /\ UNCHANGED <<now, alarms>> /\ pc' = "idle" /\ pc = "writing"
        /\ synced' = readAt /\ covered' = reached
    BY <1>6 DEF SyncCommit
  <2>2. Recent' /\ Reading' /\ covered' \subseteq alarms'
    BY <2>1 DEF MissInv, Recent, Reading
  <2>3. NothingMissed'
    BY <1>6, <2>1, CommitMissesNothing DEF NothingMissed
  <2>4. FromRow' /\ FirstOfBucket'
    BY <1>6, CommitTellsFirst
  <2>5. QED
    BY <1>1, <2>2, <2>3, <2>4 DEF MissInv
<1>7. QED
  BY <1>2, <1>3, <1>4, <1>5, <1>6
     DEF Next, Elapse, LoopStart, SyncFail, LoopStop, vars

LEMMA InitMiss == Init => MissInv
BY InitShape
   DEF Init, MissInv, Recent, Reading, FromRow, NothingMissed, FirstOfBucket

\* No row is lost and every notification tells the first occurrence of its
\* bucket, for every lookback and bucket width, as long as no two committed
\* cycles lie further apart than the lookback less the lag of a row.
THEOREM NothingEverMissed == Spec => []SyncComplete
<1>1. MissInv => SyncComplete
  BY DEF MissInv, SyncComplete
<1>2. QED
  BY <1>1, InitMiss, NextMiss, PTL DEF Spec

=============================================================================
