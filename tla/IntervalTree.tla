---------------------------- MODULE IntervalTree ----------------------------
(***************************************************************************)
(* The interval tree of the bootstrapper,                                  *)
(* crates/ava-engine/src/snowman/bootstrap/interval.rs: a set of heights   *)
(* kept as contiguous intervals in a map keyed by their upper bounds.      *)
(***************************************************************************)
EXTENDS Integers, FiniteSets

CONSTANT MaxHeight   \* u64::MAX

ASSUME MaxHeightAssumption == MaxHeight \in Nat

Heights == 0 .. MaxHeight

VARIABLES
    known,     \* upper bound -> interval
    numKnown   \* number of heights, modulo 2^64

treeVars == <<known, numKnown>>

Interval(lower, upper) == [lower |-> lower, upper |-> upper]

-----------------------------------------------------------------------------
(* Interval.                                                               *)

Covers(i, h) == i.lower <= h /\ h <= i.upper

AdjacentToLowerBound(i, h) == h < MaxHeight /\ h + 1 = i.lower

AdjacentToUpperBound(i, h) == i.upper < MaxHeight /\ i.upper + 1 = h

-----------------------------------------------------------------------------
(* The map: an absent entry is the empty set.                              *)

\* ceiling: the interval with the smallest upper bound at or above h.
Ceiling(h) ==
    {known[u] : u \in {v \in DOMAIN known :
        v >= h /\ \A w \in DOMAIN known : w >= h => v <= w}}

\* floor: the interval with the largest upper bound at or below h.
Floor(h) ==
    {known[u] : u \in {v \in DOMAIN known :
        v <= h /\ \A w \in DOMAIN known : w <= h => w <= v}}

\* The map without the key k.
Drop(f, k) == [u \in DOMAIN f \ {k} |-> f[u]]

\* The map with the interval i under its upper bound.
Insert(f, i) == [u \in DOMAIN f \cup {i.upper} |-> IF u = i.upper THEN i ELSE f[u]]

Contains(h) == \E i \in Ceiling(h) : Covers(i, h)

-----------------------------------------------------------------------------
(* Operations.                                                             *)

TreeInit == known = [u \in {} |-> Interval(0, 0)] /\ numKnown = 0

Bump == numKnown' = (numKnown + 1) % (MaxHeight + 1)

\* Merge the interval below h with the one above.
Merge(h) ==
    \E i \in Ceiling(h), j \in Floor(h) :
        /\ AdjacentToLowerBound(i, h) /\ AdjacentToUpperBound(j, h)
        /\ known' = Insert(Drop(known, j.upper), Interval(j.lower, i.upper))

\* Extend the interval above h down by one.
ExtendDown(h) ==
    \E i \in Ceiling(h) :
        /\ AdjacentToLowerBound(i, h)
        /\ \A j \in Floor(h) : ~AdjacentToUpperBound(j, h)
        /\ known' = Insert(known, Interval(h, i.upper))

\* Extend the interval below h up by one; its key moves.
ExtendUp(h) ==
    \E j \in Floor(h) :
        /\ AdjacentToUpperBound(j, h)
        /\ \A i \in Ceiling(h) : ~AdjacentToLowerBound(i, h)
        /\ known' = Insert(Drop(known, j.upper), Interval(j.lower, h))

\* A new interval of one height.
Singleton(h) ==
    /\ \A i \in Ceiling(h) : ~AdjacentToLowerBound(i, h)
    /\ \A j \in Floor(h) : ~AdjacentToUpperBound(j, h)
    /\ known' = Insert(known, Interval(h, h))

\* add(h); a height that is present is left alone.
Add(h) ==
    /\ ~Contains(h)
    /\ Bump
    /\ Merge(h) \/ ExtendDown(h) \/ ExtendUp(h) \/ Singleton(h)

\* Mutant: the whole interval is dropped.
RemoveInterval(h) ==
    \E i \in Ceiling(h) :
        /\ Covers(i, h)
        /\ numKnown' = (numKnown - (i.upper - i.lower + 1)) % (MaxHeight + 1)
        /\ known' = Drop(known, i.upper)

\* remove(h): drop the interval, shorten it at one end, or split it; a height
\* that is absent is left alone.
Remove(h) ==
    \E i \in Ceiling(h) :
        /\ Covers(i, h)
        /\ numKnown' = (numKnown - 1) % (MaxHeight + 1)
        /\ known' = IF i.lower = i.upper THEN Drop(known, h)
                    ELSE IF i.lower = h THEN Insert(known, Interval(h + 1, i.upper))
                    ELSE IF i.upper = h
                    THEN Insert(Drop(known, h), Interval(i.lower, h - 1))
                    ELSE Insert(Insert(known, Interval(i.lower, h - 1)),
                                Interval(h + 1, i.upper))

TreeNext == \E h \in Heights : Add(h) \/ Remove(h)

TreeSpec == TreeInit /\ [][TreeNext]_treeVars

-----------------------------------------------------------------------------
(* Properties.                                                             *)

\* The heights the intervals cover.
Tracked == {h \in Heights : \E u \in DOMAIN known : Covers(known[u], h)}

TreeTypeOK ==
    /\ DOMAIN known \in SUBSET Heights
    /\ \A u \in DOMAIN known : known[u] \in [lower : Heights, upper : Heights]
    /\ numKnown \in Heights

\* Every interval is under its own upper bound, and two intervals never
\* overlap nor touch: touching ones were merged, so a contiguous range takes
\* one entry however its heights came in.
IntervalsApart ==
    \A u \in DOMAIN known :
        /\ known[u].upper = u /\ known[u].lower <= u
        /\ \A v \in DOMAIN known : u < v => u + 1 < known[v].lower

\* len() is the number of tracked heights, 0 again for the full range.
LenIsExact == numKnown = Cardinality(Tracked) % (MaxHeight + 1)

\* The queries answer for the set of tracked heights: contains(h), which looks
\* at one interval only, finds every tracked height, and len() counts them
\* through every merge, extension and split.
QueriesAreExact == LenIsExact /\ \A h \in Heights : Contains(h) <=> h \in Tracked

HS == INSTANCE HeightSet WITH heights <- Tracked

\* The tree implements a set of heights, operation by operation: add(h) and
\* remove(h) change the membership of h and of no other height, whatever is
\* merged, extended or split.
ImplementsHeightSet ==
    /\ HS!HeightSetInit
    /\ [][\A h \in Heights : (Add(h) => HS!Include(h)) /\ (Remove(h) => HS!Exclude(h))]_treeVars
=============================================================================
