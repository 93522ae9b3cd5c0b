----------------------------- MODULE ScoreFusion -----------------------------
(***************************************************************************)
(* Fusing the candidates of the dense and of the lexical search            *)
(* (rag/fusion.py).  A list of candidates is a function from the chunks it *)
(* holds to their scores, small integers; a normalized score is kept as a  *)
(* numerator over Unit, which every difference of scores divides.  The     *)
(* weight alpha is counted in halves, the floor of a present candidate     *)
(* lies below every other normalized score but 0.                          *)
(***************************************************************************)
EXTENDS Integers, FiniteSets, FiniteSetsExt, Functions, Sequences

CONSTANTS
  Chunk,      \* chunks, naturals: the order in which the lists hold equal scores
  MaxScore,   \* bound: scores
  Unit        \* a common multiple of 1..MaxScore, times two

FusionAssumption ==
  /\ Chunk \subseteq Nat /\ IsFiniteSet(Chunk)
  /\ MaxScore \in Nat /\ Unit \in Nat \ {0}
  /\ \A d \in 1..MaxScore : Unit % (2 * d) = 0

VARIABLES
  dense,    \* [chunks found -> score] of the vector search
  sparse,   \* [chunks found -> score] of the lexical search
  alpha,    \* hybrid_alpha, in halves: 0, 1, 2
  topK,     \* top_k
  fused     \* what convex_fuse returns, None before

vars == <<dense, sparse, alpha, topK, fused>>

None == <<0>>
Lists == UNION {[S -> 0..MaxScore] : S \in SUBSET Chunk}
NoList == [c \in {} |-> 0]

Init ==
  /\ dense \in Lists /\ sparse \in Lists
  /\ alpha \in 0..2 /\ topK \in 1..Cardinality(Chunk) /\ fused = None

-----------------------------------------------------------------------------

\* minmax: equal scores all become 1.
Normalized(list, c) ==
  LET low == Min({list[x] : x \in DOMAIN list})
      high == Max({list[x] : x \in DOMAIN list})
  IN IF high = low THEN Unit ELSE (list[c] - low) * (Unit \div (high - low))

Floor == 1
\* _normalize_present; a candidate that is missing counts 0.
WeightNoFloor(list, c) == IF c \in DOMAIN list THEN Normalized(list, c) ELSE 0   \* mutant
Weight(list, c) ==
  IF c \in DOMAIN list
  THEN IF Normalized(list, c) > Floor THEN Normalized(list, c) ELSE Floor
  ELSE 0

Score(c) == alpha * Weight(dense, c) + (2 - alpha) * Weight(sparse, c)

Found == DOMAIN dense \cup DOMAIN sparse

\* The order the lists come in: by score, best first.
Listed(list, c, d) == list[c] > list[d] \/ (list[c] = list[d] /\ c < d)

\* by_key holds the lexical candidates first.
KeyBefore(c, d) ==
  IF c \in DOMAIN sparse /\ d \in DOMAIN sparse THEN Listed(sparse, c, d)
  ELSE c \in DOMAIN sparse \/ (d \notin DOMAIN sparse /\ Listed(dense, c, d))

\* One list alone keeps its order; sorted() is stable.
Ranked(c, d) ==
  IF dense = NoList THEN Listed(sparse, c, d)
  ELSE IF sparse = NoList THEN Listed(dense, c, d)
  ELSE Score(c) > Score(d) \/ (Score(c) = Score(d) /\ KeyBefore(c, d))

\* The first top_k in that order.
Cut ==
  {s \in [1..(IF Cardinality(Found) < topK THEN Cardinality(Found) ELSE topK) -> Found] :
     /\ \A i, j \in DOMAIN s : i < j => Ranked(s[i], s[j])
     /\ \A c \in Found \ Range(s), i \in DOMAIN s : Ranked(s[i], c)}

Fuse ==
  /\ fused = None
  /\ fused' \in Cut
  /\ UNCHANGED <<dense, sparse, alpha, topK>>

Next == Fuse

Spec == Init /\ [][Next]_vars

-----------------------------------------------------------------------------

\* c is found and d is not, or c has the better score.
Better(list, c, d) == c \in DOMAIN list /\ (d \in DOMAIN list => list[c] > list[d])
NotWorse(list, c, d) == d \in DOMAIN list => c \in DOMAIN list /\ list[c] >= list[d]

\* A chunk that beats another in a list that has weight, and is not behind it
\* in the other list, is never displaced by it, not even by the cut, and no
\* chunk is returned twice.  With all weight on the lexical search its
\* candidates come exactly in its order.  With all weight on the dense search
\* its candidates come in the order of their scores, but not exactly in its own:
\* of equal scores those the lexical search found too come first, as by_key
\* holds these first and sorted() is stable (rag/fusion.py:1-15, 37-64).
FusionFaithful ==
  fused # None =>
    LET shown == Range(fused)
        beats(c, d) == \/ alpha > 0 /\ Better(dense, c, d) /\ (alpha < 2 => NotWorse(sparse, c, d))
                       \/ alpha < 2 /\ Better(sparse, c, d) /\ (alpha > 0 => NotWorse(dense, c, d))
    IN /\ IsInjective(fused)
       /\ Len(fused) = Min({topK, Cardinality(Found)})
       /\ \A c, d \in Found : beats(c, d) /\ d \in shown => c \in shown
       /\ \A i, j \in DOMAIN fused :
            LET c == fused[i]
                d == fused[j]
            IN /\ beats(c, d) => i < j
               /\ alpha = 0 /\ i < j /\ {c, d} \subseteq DOMAIN sparse => Listed(sparse, c, d)
               /\ alpha = 2 /\ i < j /\ {c, d} \subseteq DOMAIN dense =>
                    \/ dense[c] > dense[d]
                    \/ dense[c] = dense[d] /\ (d \in DOMAIN sparse => c \in DOMAIN sparse)

=============================================================================
