----------------------------- MODULE AuditTrail -----------------------------
(***************************************************************************)
(* The audit trail: an event gets a row in the database, and its copy in   *)
(* Redis a log key and an entry in several sorted sets from which the      *)
(* administrator lists (auth/middleware.py write_audit_event,              *)
(* redis_store.py cache_audit_log, list_audit_logs).                       *)
(*                                                                         *)
(* Every Redis command is a step.  A failed command, or the end of the     *)
(* process, leaves the event where it is.  All events enter the same       *)
(* indexes.                                                                *)
(***************************************************************************)
EXTENDS Integers, FiniteSets

CONSTANTS
  Event,
  Indexes,   \* how many sorted sets an event enters
  Ttl,       \* audit_log_redis_ttl_seconds
  Limit,     \* limit of a listing
  MaxTime    \* bound: the clock

AuditAssumption ==
  IsFiniteSet(Event) /\ {Indexes, Ttl, Limit} \subseteq Nat \ {0} /\ MaxTime \in Nat

VARIABLES
  now,
  rowSeq,   \* last id of the table; a sequence does not go back
  redisSeq, \* key audit:seq
  rows,     \* ids committed to the table
  todo,     \* [Event -> the command it does next]
  id,       \* [Event -> id], 0 without
  index,    \* [Event -> the sorted set its commands work on]
  stamp,    \* [Event -> now_ms of its copy]
  log,      \* [Id -> the events written to the key and its deadline]
  sorted,   \* [sorted set -> its entries, each with its score]
  dies,     \* [sorted set -> deadline of the key]
  stream,   \* events sent to the stream
  listing,  \* the listing in progress: its sorted set, the ids left to read
  lapsed    \* history: events whose sorted set ended between ZADD and EXPIRE

clock == <<now, lapsed>>
seqs == <<rowSeq, redisSeq>>
event == <<id, index, stamp>>
store == <<rows, log, sorted, dies, stream>>
vars == <<clock, seqs, todo, event, listing, store>>

Forever == MaxTime + Ttl + 1
Id == 1..Cardinality(Event)
NoLog == [by |-> {}, dies |-> Forever]
NoListing == [of |-> 0, left |-> {}]

Init ==
  /\ now = 1 /\ rowSeq = 0 /\ redisSeq = 0 /\ rows = {} /\ stream = {}
  /\ todo = [e \in Event |-> "insert"] /\ id = [e \in Event |-> 0]
  /\ index = [e \in Event |-> 1] /\ stamp = [e \in Event |-> 0]
  /\ log = [i \in Id |-> NoLog]
  /\ sorted = [k \in 1..Indexes |-> {}] /\ dies = [k \in 1..Indexes |-> Forever]
  /\ listing = NoListing /\ lapsed = {}

Log(i) == IF now < log[i].dies THEN log[i] ELSE NoLog
Sorted(k) == IF now < dies[k] THEN sorted[k] ELSE {}

Elapse ==
  /\ now < MaxTime /\ now' = now + 1
  /\ lapsed' = lapsed \cup {e \in Event : todo[e] \in {"zremrange", "zexpire"}
                                        /\ dies[index[e]] = now + 1}
  /\ UNCHANGED <<seqs, todo, event, listing, store>>

-----------------------------------------------------------------------------
(* The row, best effort: the event takes its id at the flush.              *)

Flush(e) ==
  /\ todo[e] = "insert"
  /\ rowSeq' = rowSeq + 1 /\ id' = [id EXCEPT ![e] = rowSeq + 1]
  /\ todo' = [todo EXCEPT ![e] = "commit"]
  /\ UNCHANGED <<clock, redisSeq, index, stamp, listing, store>>

InsertFail(e) ==
  /\ todo[e] = "insert"
  /\ todo' = [todo EXCEPT ![e] = "number"]
  /\ UNCHANGED <<clock, seqs, event, listing, store>>

Commit(e) ==
  /\ todo[e] = "commit"
  /\ rows' = rows \cup {id[e]} \/ rows' = rows
  /\ todo' = [todo EXCEPT ![e] = "number"]
  /\ UNCHANGED <<clock, seqs, event, listing, log, sorted, dies, stream>>

-----------------------------------------------------------------------------
(* The copy.                                                               *)

\* Mutant: the entries come before the log they lead to.
IndexFirst == [number |-> "zadd", zadd |-> "zremrange", zremrange |-> "zexpire",
               zexpire |-> "hset", hset |-> "expire", expire |-> "xadd", xadd |-> "done"]
Following == [number |-> "hset", hset |-> "expire", expire |-> "xadd", xadd |-> "zadd",
              zadd |-> "zremrange", zremrange |-> "zexpire", zexpire |-> "done"]

Command(e, c) ==
  /\ todo[e] = c
  /\ todo' = [todo EXCEPT ![e] = IF c = "zexpire" /\ index[e] < Indexes
                                 THEN "zadd" ELSE Following[c]]

\* The time is taken, and an id from Redis when there is none of a row.
Number(e) ==
  /\ Command(e, "number")
  /\ stamp' = [stamp EXCEPT ![e] = now]
  /\ IF id[e] # 0 THEN UNCHANGED <<redisSeq, id>>
     ELSE redisSeq' = redisSeq + 1 /\ id' = [id EXCEPT ![e] = redisSeq + 1]
  /\ UNCHANGED <<clock, rowSeq, index, listing, store>>

\* HSET adds its fields to those of a key that exists.
Hset(e) ==
  /\ Command(e, "hset")
  /\ LET l == Log(id[e]) IN
       log' = [log EXCEPT ![id[e]] = [by |-> l.by \cup {e}, dies |-> l.dies]]
  /\ UNCHANGED <<clock, seqs, event, listing, rows, sorted, dies, stream>>

Expire(e) ==
  /\ Command(e, "expire")
  /\ log' = [log EXCEPT ![id[e]].dies = IF Log(id[e]) = NoLog THEN @ ELSE now + Ttl]
  /\ UNCHANGED <<clock, seqs, event, listing, rows, sorted, dies, stream>>

Xadd(e) ==
  /\ Command(e, "xadd")
  /\ stream' = stream \cup {e}
  /\ UNCHANGED <<clock, seqs, event, listing, rows, log, sorted, dies>>

\* ZADD gives an entry that exists the new score.
Zadd(e) ==
  /\ Command(e, "zadd")
  /\ LET k == index[e] IN
       /\ sorted' = [sorted EXCEPT ![k] = {z \in Sorted(k) : z.id # id[e]}
                                          \cup {[id |-> id[e], score |-> stamp[e]]}]
       /\ dies' = [dies EXCEPT ![k] = IF Sorted(k) = {} THEN Forever ELSE @]
  /\ UNCHANGED <<clock, seqs, event, listing, rows, log, stream>>

Zremrange(e) ==
  /\ Command(e, "zremrange")
  /\ sorted' = [sorted EXCEPT ![index[e]] = {z \in Sorted(index[e]) : z.score > stamp[e] - Ttl}]
  /\ UNCHANGED <<clock, seqs, event, listing, rows, log, dies, stream>>

Zexpire(e) ==
  /\ Command(e, "zexpire")
  /\ dies' = [dies EXCEPT ![index[e]] = IF Sorted(index[e]) = {} THEN @ ELSE now + Ttl]
  /\ index' = [index EXCEPT ![e] = IF @ < Indexes THEN @ + 1 ELSE @]
  /\ UNCHANGED <<clock, seqs, id, stamp, listing, rows, log, sorted, stream>>

\* A command fails, or the process ends.
Cut(e) ==
  /\ todo[e] \notin {"insert", "done", "cut"}
  /\ todo' = [todo EXCEPT ![e] = "cut"]
  /\ UNCHANGED <<clock, seqs, event, listing, store>>

-----------------------------------------------------------------------------
(* list_audit_logs: the newest entries, then their logs; an entry whose    *)
(* log is gone is removed.                                                 *)

List(k) ==
  /\ listing = NoListing
  /\ \E newest \in SUBSET Sorted(k) :
       /\ \A y \in newest, z \in Sorted(k) \ newest : y.score >= z.score
       /\ Cardinality(newest) =
            IF Cardinality(Sorted(k)) < Limit THEN Cardinality(Sorted(k)) ELSE Limit
       /\ newest # {} /\ listing' = [of |-> k, left |-> {z.id : z \in newest}]
  /\ UNCHANGED <<clock, seqs, todo, event, store>>

Done(i) == LET left == listing.left \ {i} IN
           listing' = IF left = {} THEN NoListing ELSE [listing EXCEPT !.left = left]

Hgetall(i) ==
  /\ i \in listing.left /\ Log(i) # NoLog
  /\ Done(i)
  /\ UNCHANGED <<clock, seqs, todo, event, store>>

\* The read that finds nothing and the removal are two commands.
Missing(i) ==
  /\ i \in listing.left /\ Log(i) = NoLog
  /\ listing' = [listing EXCEPT !.left = (@ \ {i}) \cup {-i}]
  /\ UNCHANGED <<clock, seqs, todo, event, store>>

Zrem(i) ==
  /\ -i \in listing.left
  /\ sorted' = [sorted EXCEPT ![listing.of] = {z \in Sorted(listing.of) : z.id # i}]
  /\ Done(-i)
  /\ UNCHANGED <<clock, seqs, todo, event, rows, log, dies, stream>>

Next ==
  \/ Elapse
  \/ \E e \in Event :
       \/ Flush(e) \/ InsertFail(e) \/ Commit(e) \/ Number(e) \/ Hset(e) \/ Expire(e)
       \/ Xadd(e) \/ Zadd(e) \/ Zremrange(e) \/ Zexpire(e) \/ Cut(e)
  \/ \E k \in 1..Indexes : List(k)
  \/ \E i \in Id : Hgetall(i) \/ Missing(i) \/ Zrem(i)

Spec == Init /\ [][Next]_vars

-----------------------------------------------------------------------------
Alone(e) == \A f \in Event \ {e} : id[f] # id[e]

\* An event whose copy is complete is found by every index, with its own fields,
\* until its time is over, whatever listings, other events and deadlines do
\* meanwhile.  Two things can undo it: another event with its id, which takes
\* a failure of the database for one of the two, and a sorted set whose deadline
\* comes between ZADD and EXPIRE (middleware.py:253-281, redis_store.py:190-222).
AuditKept ==
  \A e \in Event :
    /\ todo[e] = "done" /\ now < stamp[e] + Ttl /\ Alone(e) /\ e \notin lapsed =>
         /\ \A k \in 1..Indexes : [id |-> id[e], score |-> stamp[e]] \in Sorted(k)
         /\ Log(id[e]).by = {e}
    /\ id[e] # 0 /\ ~Alone(e) => redisSeq > 0

=============================================================================
