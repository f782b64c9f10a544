----------------------------- MODULE FeedRanking -----------------------------
(***************************************************************************)
(* The parts of _rank_rows of feed_runtime/backend.py that take shortcuts: the  *)
(* novelty of a row and the frontier score within its source, which work on     *)
(* bit masks, stop early and walk the rows in blocks; and the last ordering,     *)
(* which makes a source's rows cheaper one by one. Scores are integers, in      *)
(* units that make every quotient exact.                                    *)
(***************************************************************************)
EXTENDS Naturals, Sequences, FiniteSets, SequencesExt, FiniteSetsExt

CONSTANTS
    Feeds,     \* the sources
    Times,     \* of a row, as numbers
    TokenSets, \* what a row may consist of; a token is a number
    Unit,      \* a score of 1
    Scores, Coarse, \* the scores a refined row may have
    MaxRows, MaxRefined \* bounds

ASSUME RankingBounds ==
    /\ MaxRows \in Nat /\ MaxRefined \in Nat /\ Times \subseteq Nat
    /\ Scores \subseteq Nat /\ Coarse \subseteq Nat
    /\ \A A \in TokenSets : A \subseteq Nat /\ IsFiniteSet(A)
\* Every overlap, and every hundredth, is a whole number of units.
ASSUME UnitDivides ==
    /\ Unit \in Nat \ {0} /\ Unit % 100 = 0
    /\ \A A, B \in TokenSets :
          /\ A # {} => Unit % Cardinality(A) = 0
          /\ A \cup B # {} => Unit % Cardinality(A \cup B) = 0

VARIABLES
    rows,   \* the items to rank, as [feed, time, tokens]
    refined \* [feed, score, coarse, time], as the refinement leaves them

rankVars == <<rows, refined>>

Percent == Unit \div 100

-----------------------------------------------------------------------------
(* _encode_contexts and _novelty_score                                      *)

\* bit_by_token of a collection of sets of tokens, and the mask of a set.
Bits(sets) == [t \in UNION sets |-> Cardinality({u \in UNION sets : u < t})]

Mask(tokens, bit) == {bit[t] : t \in tokens \cap DOMAIN bit}

AtLeast(low, x) == IF x < low THEN low ELSE x
Larger(x, y) == IF x < y THEN y ELSE x

\* A set in the order that a relation, a set of pairs, gives it.
Sorted(S, before) ==
    CHOOSE s \in [1..Cardinality(S) -> S] :
        \A i, j \in 1..Cardinality(S) : i < j => <<s[i], s[j]>> \in before

\* Jaccard, by the sizes of the two sets and of what the masks share.
MaskedJaccard(mask, size, other, otherSize) ==
    LET shared == Cardinality(mask \cap other)
    IN  (Unit * shared) \div (size + otherSize - shared)

Novelty(tokens, contexts) ==
    IF tokens = {} \/ contexts = <<>> THEN Unit
    ELSE LET bit == Bits(ToSet(contexts))
             mask == Mask(tokens, bit)
             worst == FoldSeq(LAMBDA c, best :
                                IF c = {} THEN best
                                ELSE Larger(best, MaskedJaccard(mask, Cardinality(tokens),
                                                            Mask(c, bit), Cardinality(c))),
                              0, contexts)
         IN  AtLeast(5 * Percent, Unit - worst)

-----------------------------------------------------------------------------
(* _frontier_scores                                                         *)

Before(j, k) == rows[j].time > rows[k].time \/ (rows[j].time = rows[k].time /\ j < k)

OfSource(i) == {j \in DOMAIN rows : rows[j].feed = rows[i].feed}

\* What has been walked when the block of a row's time comes: the rows of its
\* source that are strictly newer and not empty, newest first.
Newer(i) ==
    Sorted({j \in OfSource(i) : rows[j].time > rows[i].time /\ rows[j].tokens # {}},
           {p \in (DOMAIN rows) \X (DOMAIN rows) : Before(p[1], p[2])})

\* By containment alone.
MaskedOverlap(i, j) ==
    LET bit == Bits({rows[k].tokens : k \in OfSource(i)})
        shared == Cardinality(Mask(rows[i].tokens, bit) \cap Mask(rows[j].tokens, bit))
    IN  (Unit * shared) \div Min({Cardinality(rows[i].tokens), Cardinality(rows[j].tokens)})

Score(overlap) ==
    IF overlap < 13 * Percent THEN Unit
    ELSE IF 3 * overlap > 92 * Percent THEN 8 * Percent ELSE Unit - 3 * overlap

\* Mutant: the walk ends at the first overlap.
PinnedSoon(best) == best > 0

\* From here on the score is the lowest there is.
Pinned(best) == 3 * best >= 92 * Percent

\* _max_newer_overlap: the largest, or the first from which on nothing changes.
WalkedMax(overlaps) ==
    LET best[k \in 0..Len(overlaps)] ==
            IF k = 0 THEN 0
            ELSE IF Pinned(best[k - 1]) THEN best[k - 1]
            ELSE Larger(best[k - 1], overlaps[k])
    IN  best[Len(overlaps)]

MaxNewerOverlap(i) ==
    LET newer == Newer(i)
    IN  IF rows[i].tokens = {} THEN 0
        ELSE WalkedMax([k \in DOMAIN newer |-> MaskedOverlap(i, newer[k])])

Frontier(i) == Score(MaxNewerOverlap(i))

-----------------------------------------------------------------------------
(* The last sort of _refine_rank_rows, and _diversify_rank_rows.              *)

\* sorted(reverse=True) by a score, the coarse score and the time; it is stable.
Above(a, b) ==
    \/ a[1] > b[1]
    \/ a[1] = b[1] /\ a[2] > b[2]
    \/ a[1] = b[1] /\ a[2] = b[2] /\ a[3] > b[3]

Ranked(list, score) ==
    LET key(i) == <<score[i], list[i].coarse, list[i].time>>
    IN  Sorted(DOMAIN list,
               {p \in (DOMAIN list) \X (DOMAIN list) :
                    Above(key(p[1]), key(p[2])) \/ (key(p[1]) = key(p[2]) /\ p[1] < p[2])})

\* The rows in refined order.
InOrder ==
    LET order == Ranked(refined, [i \in DOMAIN refined |-> refined[i].score])
    IN  [k \in DOMAIN order |-> refined[order[k]]]

\* Mutant: a source's rows are counted from the last.
PositionFromLast(list, i) == Cardinality({j \in DOMAIN list : j > i /\ list[j].feed = list[i].feed})

\* How many rows of its source come first.
Position(list, i) == Cardinality({j \in DOMAIN list : j < i /\ list[j].feed = list[i].feed})

\* 0.95 * 0.5 ^ position + 0.05, in units of 1 / (100 * 2 ^ MaxRefined).
Multiplier(position) == 95 * 2 ^ (MaxRefined - position) + 5 * 2 ^ MaxRefined

\* The diversified order, as places in the refined one.
Diversified ==
    LET list == InOrder
    IN  Ranked(list, [i \in DOMAIN list |-> list[i].score * Multiplier(Position(list, i))])

-----------------------------------------------------------------------------
RankInit == rows = <<>> /\ refined = <<>>

\* A row comes to the rows to rank.
Loads ==
    /\ Len(rows) < MaxRows
    /\ \E f \in Feeds, t \in Times, A \in TokenSets :
          rows' = Append(rows, [feed |-> f, time |-> t, tokens |-> A])
    /\ UNCHANGED refined

\* The model has scored a row.
Scored ==
    /\ Len(refined) < MaxRefined
    /\ \E f \in Feeds, s \in Scores, c \in Coarse :
          refined' = Append(refined, [feed |-> f, score |-> s, coarse |-> c, time |-> Len(refined)])
    /\ UNCHANGED rows

RankNext == Loads \/ Scored
RankSpec == RankInit /\ [][RankNext]_rankVars

-----------------------------------------------------------------------------
\* What the two scores mean, on the sets themselves.
Jaccard(A, B) ==
    IF A = {} \/ B = {} THEN 0 ELSE (Unit * Cardinality(A \cap B)) \div Cardinality(A \cup B)

Contained(A, B) ==
    IF A = {} \/ B = {} THEN 0
    ELSE (Unit * Cardinality(A \cap B)) \div Min({Cardinality(A), Cardinality(B)})

PlainNovelty(A, contexts) ==
    IF A = {} THEN Unit
    ELSE AtLeast(5 * Percent, Unit - Max({0} \cup {Jaccard(A, c) : c \in ToSet(contexts)}))

PlainFrontier(i) ==
    LET newer == {rows[j].tokens : j \in {k \in DOMAIN rows : rows[k].feed = rows[i].feed
                                                             /\ rows[k].time > rows[i].time}}
        most == Max({0} \cup {Jaccard(rows[i].tokens, B) : B \in newer}
                        \cup {Contained(rows[i].tokens, B) : B \in newer})
    IN  IF most < 13 * Percent THEN Unit ELSE Max({8 * Percent, Unit - Min({Unit, 3 * most})})

\* The masks, the walk in blocks and the early exit change no score: novelty is
\* 1 less the largest Jaccard overlap with a context, and the frontier score
\* goes by the largest overlap, of Jaccard and containment, with a strictly newer
\* row of the source. "Overlap is max(jaccard, containment); containment always
\* dominates", "Same Jaccard as _jaccard".
ShortcutsChangeNoScore ==
    \A i \in DOMAIN rows :
        /\ Frontier(i) = PlainFrontier(i)
        /\ LET contexts == [j \in DOMAIN rows |-> rows[j].tokens]
           IN  Novelty(rows[i].tokens, RemoveAt(contexts, i)) =
                   PlainNovelty(rows[i].tokens, RemoveAt(contexts, i))

\* Diversity lets a row overtake another only because that one has more rows of
\* its own source before it; so a source's rows stay in order, and its first
\* one is overtaken by none. "Decay repeated sources geometrically down the
\* refined order".
OnlyRepetitionCosts ==
    LET list == InOrder
        order == Diversified
        place == [k \in DOMAIN list |-> CHOOSE n \in DOMAIN order : order[n] = k]
        earlier(i) == {k \in 1..i - 1 : list[k].feed = list[i].feed}
    IN  \A i, j \in DOMAIN list :
            i < j /\ place[j] < place[i] => Cardinality(earlier(j)) < Cardinality(earlier(i))
===============================================================================
