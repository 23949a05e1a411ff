-------------------------------- MODULE Sums --------------------------------
(***************************************************************************)
(* Induction, as a smallest counterexample, and sums of natural numbers    *)
(* over finite sets.  MapThenSumSet is a recursive function on the subsets *)
(* of its argument, so each fact about it is an induction over their       *)
(* cardinalities.                                                          *)
(***************************************************************************)
EXTENDS Naturals, FiniteSetsExt, FiniteSetTheorems, WellFoundedInduction, TLAPS

Sum(W, T) == MapThenSumSet(LAMBDA s : W[s], T)

AnElement(s) == CHOOSE x \in s : TRUE

\* A set of numbers has a smallest one, and Min is it.
LEMMA SmallestNumber ==
    ASSUME NEW S \in SUBSET Nat, S # {}
    PROVE  \E x \in S : \A y \in S : x <= y
<1>1. PICK x \in S : \A y \in S : ~(<<y, x>> \in OpToRel(<, Nat))
    BY WFMin, NatLessThanWellFounded, Zenon
<1>2. ASSUME NEW y \in S PROVE x <= y
    <2>1. OpToRel(<, Nat) = {ss \in Nat \X Nat : ss[1] < ss[2]}
        BY Zenon DEF OpToRel
    <2>2. y < x => <<y, x>> \in OpToRel(<, Nat)
        BY <2>1
    <2>3. ~(y < x)
        BY <1>1, <2>2, Zenon
    <2> QED BY <2>3
<1> QED BY <1>2

LEMMA SmallestIn ==
    ASSUME NEW S \in SUBSET Nat, S # {}
    PROVE  Min(S) \in S /\ \A k \in S : Min(S) <= k
<1>1. \E k \in S : \A j \in S : k <= j
    BY SmallestNumber, Zenon
<1> QED BY <1>1, Zenon DEF Min

\* Induction over an interval, upwards and downwards.
LEMMA UpFrom ==
    ASSUME NEW lo \in Nat, NEW hi \in Nat, NEW P, lo \in P,
           \A h \in lo .. hi : h \in P /\ h < hi => h + 1 \in P
    PROVE  \A h \in lo .. hi : h \in P
<1> DEFINE Bad == {h \in lo .. hi : h \notin P}
<1> SUFFICES ASSUME Bad # {} PROVE FALSE
    OBVIOUS
<1>0. Bad \in SUBSET Nat
    OBVIOUS
<1>1. PICK m \in Bad : \A k \in Bad : m <= k
    BY <1>0, SmallestNumber, Zenon
<1>2. m - 1 \in lo .. hi /\ m - 1 < hi /\ m - 1 \notin Bad
    BY <1>1
<1> QED BY <1>1, <1>2

LEMMA DownTo ==
    ASSUME NEW lo \in Nat, NEW hi \in Nat, NEW P, hi \in P,
           \A h \in lo .. hi : h + 1 \in P /\ h < hi => h \in P
    PROVE  \A h \in lo .. hi : h \in P
<1> DEFINE Bad == {h \in lo .. hi : h \notin P}
           Gaps == {hi - h : h \in Bad}
<1> SUFFICES ASSUME Bad # {} PROVE FALSE
    OBVIOUS
<1>1. Gaps \in SUBSET Nat /\ Gaps # {}
    OBVIOUS
<1>2. PICK g \in Gaps : \A k \in Gaps : g <= k
    BY <1>1, SmallestNumber
<1>3. PICK m \in Bad : g = hi - m
    OBVIOUS
<1>4. hi - (m + 1) \notin Gaps
    <2>1. ~(hi - m <= hi - (m + 1))
        BY <1>3
    <2> HIDE DEF Gaps
    <2> QED BY <1>2, <1>3, <2>1, Zenon
<1>5. m + 1 \in lo .. hi /\ m < hi
    BY <1>3
<1>6. m + 1 \notin Bad
    BY <1>4, Zenon
<1> QED BY <1>3, <1>5, <1>6

-----------------------------------------------------------------------------
(* Sums.                                                                   *)

LEMMA ElementIn == ASSUME NEW s, s # {} PROVE AnElement(s) \in s
BY DEF AnElement

\* Taking an element out.
LEMMA Smaller ==
    ASSUME NEW D, IsFiniteSet(D), NEW s \in SUBSET D
    PROVE  /\ IsFiniteSet(s) /\ Cardinality(s) \in Nat
           /\ Cardinality(s) <= Cardinality(D) /\ Cardinality(D) \in Nat
           /\ \A x \in s : s \ {x} \in SUBSET D /\ Cardinality(s \ {x}) = Cardinality(s) - 1
<1>1. IsFiniteSet(s) /\ Cardinality(s) <= Cardinality(D)
    BY FS_Subset
<1>2. Cardinality(s) \in Nat /\ Cardinality(D) \in Nat
    BY <1>1, FS_CardinalityType
<1>3. ASSUME NEW x \in s PROVE Cardinality(s \ {x}) = Cardinality(s) - 1
    BY <1>1, FS_RemoveElement
<1> QED BY <1>1, <1>2, <1>3

\* Induction over the subsets of a finite set, with the subsets that have a
\* property as a set: a smallest subset without it has all smaller ones in P.
LEMMA SubsetInduction ==
    ASSUME NEW D, IsFiniteSet(D), NEW P,
           \A s \in SUBSET D : (\A x \in s : s \ {x} \in P) => s \in P
    PROVE  \A s \in SUBSET D : s \in P
<1> DEFINE Bad == {s \in SUBSET D : s \notin P}
           Sizes == {Cardinality(s) : s \in Bad}
<1> SUFFICES ASSUME Bad # {} PROVE FALSE
    OBVIOUS
<1>1. Sizes \in SUBSET Nat /\ Sizes # {}
    BY Smaller
<1>2. PICK m \in Sizes : \A k \in Sizes : m <= k
    BY <1>1, SmallestNumber
<1>3. PICK s \in Bad : Cardinality(s) = m
    OBVIOUS
<1>4. ASSUME NEW x \in s PROVE s \ {x} \in P
    <2>1. s \ {x} \in SUBSET D /\ Cardinality(s \ {x}) = m - 1 /\ m \in Nat
        BY <1>3, Smaller
    <2>2. Cardinality(s \ {x}) \notin Sizes
        BY <1>2, <2>1
    <2> QED BY <2>1, <2>2
<1> QED BY <1>4

\* One turn of the recursion.
Turn(g, W, D) ==
    [s \in SUBSET D |-> IF s = {} THEN 0 ELSE W[AnElement(s)] + g[s \ {AnElement(s)}]]

LEMMA TurnTypes ==
    ASSUME NEW D, NEW W \in [D -> Nat], NEW g \in [SUBSET D -> Nat]
    PROVE  Turn(g, W, D) \in [SUBSET D -> Nat]
<1>1. ASSUME NEW s \in SUBSET D, s # {} PROVE W[AnElement(s)] + g[s \ {AnElement(s)}] \in Nat
    <2>1. AnElement(s) \in D /\ s \ {AnElement(s)} \in SUBSET D
        BY <1>1, ElementIn
    <2> QED BY <2>1
<1> QED BY <1>1 DEF Turn

\* The recursive function exists: the turns agree on more and more sets.
LEMMA SumExists ==
    ASSUME NEW D, IsFiniteSet(D), NEW W \in [D -> Nat]
    PROVE  \E g \in [SUBSET D -> Nat] : g = Turn(g, W, D)
<1> DEFINE UpTo(g, n) == \A s \in SUBSET D : Cardinality(s) <= n => g[s] = Turn(g, W, D)[s]
           Bad == {n \in Nat : ~\E g \in [SUBSET D -> Nat] : UpTo(g, n)}
<1>1. 0 \notin Bad
    <2> DEFINE z == [s \in SUBSET D |-> 0]
    <2>1. z \in [SUBSET D -> Nat]
        OBVIOUS
    <2>2. ASSUME NEW s \in SUBSET D, Cardinality(s) <= 0 PROVE z[s] = Turn(z, W, D)[s]
        <3>1. s = {}
            BY <2>2, Smaller, FS_EmptySet
        <3> QED BY <3>1 DEF Turn
    <2> QED BY <2>1, <2>2
<1>2. ASSUME NEW n \in Nat, n \notin Bad PROVE n + 1 \notin Bad
    <2>1. PICK g \in [SUBSET D -> Nat] : UpTo(g, n)
        BY <1>2
    <2> DEFINE h == Turn(g, W, D)
    <2>2. h \in [SUBSET D -> Nat]
        BY TurnTypes
    <2>3. ASSUME NEW s \in SUBSET D, Cardinality(s) <= n + 1 PROVE h[s] = Turn(h, W, D)[s]
        <3>1. CASE s = {}
            BY <3>1 DEF Turn
        <3>2. CASE s # {}
            <4>1. AnElement(s) \in s /\ s \ {AnElement(s)} \in SUBSET D
                BY <3>2, ElementIn
            <4>2. Cardinality(s \ {AnElement(s)}) <= n
                BY <4>1, <2>3, Smaller
            <4>3. g[s \ {AnElement(s)}] = h[s \ {AnElement(s)}]
                BY <4>1, <4>2, <2>1
            <4> HIDE DEF h
            <4>4. h[s] = W[AnElement(s)] + g[s \ {AnElement(s)}]
                BY <3>2 DEF h, Turn
            <4>5. Turn(h, W, D)[s] = W[AnElement(s)] + h[s \ {AnElement(s)}]
                BY <3>2 DEF Turn
            <4> QED BY <4>3, <4>4, <4>5
        <3> QED BY <3>1, <3>2
    <2> HIDE DEF h
    <2> QED BY <2>2, <2>3
<1>3. Bad = {}
    <2> SUFFICES ASSUME Bad # {} PROVE FALSE
        OBVIOUS
    <2>1. PICK m \in Bad : \A k \in Bad : m <= k
        BY SmallestNumber
    <2>2. m \in Nat
        OBVIOUS
    <2> HIDE DEF Bad
    <2>3. m # 0
        BY <1>1
    <2>4. m - 1 \in Nat /\ m - 1 \notin Bad
        BY <2>1, <2>2, <2>3
    <2>5. (m - 1) + 1 \notin Bad
        BY <2>4, <1>2
    <2> QED BY <2>2, <2>5
<1>4. PICK g \in [SUBSET D -> Nat] : UpTo(g, Cardinality(D))
    BY <1>3, FS_CardinalityType
<1>5. \A s \in SUBSET D : g[s] = Turn(g, W, D)[s]
    BY <1>4, Smaller
<1>6. g = Turn(g, W, D)
    <2>1. Turn(g, W, D) \in [SUBSET D -> Nat]
        BY TurnTypes
    <2> QED BY <1>5, <2>1
<1> QED BY <1>6

\* Functions of two sets agree on the subsets of both.
LEMMA TurnsAgree ==
    ASSUME NEW D, IsFiniteSet(D), NEW T \in SUBSET D, NEW W,
           NEW g, g = Turn(g, W, D), NEW h, h = Turn(h, W, T)
    PROVE  g[T] = h[T]
<1> DEFINE P == {s \in SUBSET T : g[s] = h[s]}
<1>1. IsFiniteSet(T)
    BY FS_Subset
<1>2. ASSUME NEW s \in SUBSET T, \A x \in s : s \ {x} \in P
      PROVE  g[s] = h[s]
    <2>1. CASE s = {}
        BY <2>1 DEF Turn
    <2>2. CASE s # {}
        <3>1. AnElement(s) \in s /\ s \in SUBSET D
            BY <2>2, ElementIn
        <3>2. g[s \ {AnElement(s)}] = h[s \ {AnElement(s)}]
            BY <1>2, <3>1
        <3>3. g[s] = W[AnElement(s)] + g[s \ {AnElement(s)}] /\ h[s] = W[AnElement(s)] + h[s \ {AnElement(s)}]
            BY <2>2, <3>1 DEF Turn
        <3> QED BY <3>2, <3>3
    <2> QED BY <2>1, <2>2
<1>3. \A s \in SUBSET T : (\A x \in s : s \ {x} \in P) => s \in P
    BY <1>2
<1> HIDE DEF P
<1>4. \A s \in SUBSET T : s \in P
    BY <1>1, <1>3, SubsetInduction
<1> QED BY <1>4 DEF P

\* So the sum of every subset is the value of one function.
LEMMA SumOfSubset ==
    ASSUME NEW D, IsFiniteSet(D), NEW W \in [D -> Nat], NEW g, g = Turn(g, W, D),
           NEW T \in SUBSET D
    PROVE  Sum(W, T) = g[T]
<1> DEFINE it == CHOOSE h : h = Turn(h, W, T)
           V == [s \in T |-> W[s]]
<1>1. IsFiniteSet(T)
    BY FS_Subset
<1>2. PICK v : v = Turn(v, V, T)
    BY <1>1, SumExists
<1>3. Turn(v, V, T) = Turn(v, W, T)
    <2>1. \A s \in SUBSET T : s # {} => AnElement(s) \in T
        BY ElementIn
    <2> QED BY <2>1 DEF Turn
<1>4. it = Turn(it, W, T)
    BY <1>2, <1>3
<1>5. Sum(W, T) = it[T]
    BY DEF Sum, MapThenSumSet, MapThenFoldSet, Turn, AnElement
<1> HIDE DEF it
<1> QED BY <1>4, <1>5, TurnsAgree

Additive(g, W, D) ==
    \A t \in SUBSET D : \A y \in D \ t : g[t \cup {y}] = g[t] + W[y]

LEMMA TurnAdds ==
    ASSUME NEW D, IsFiniteSet(D), NEW W \in [D -> Nat],
           NEW g \in [SUBSET D -> Nat], g = Turn(g, W, D)
    PROVE  Additive(g, W, D)
<1> DEFINE P == {t \in SUBSET D : \A y \in D \ t : g[t \cup {y}] = g[t] + W[y]}
<1>1. ASSUME NEW s \in SUBSET D, \A x \in s : s \ {x} \in P, NEW x \in D \ s
      PROVE  g[s \cup {x}] = g[s] + W[x]
    <2>1. PICK u : u = s \cup {x}
        OBVIOUS
    <2>2. PICK a : a = AnElement(u)
        OBVIOUS
    <2>3. u \in SUBSET D /\ u # {} /\ a \in u
        BY <2>1, <2>2, ElementIn
    <2>4. g[u] = W[a] + g[u \ {a}]
        BY <2>2, <2>3 DEF Turn
    <2>5. g[s] \in Nat /\ W[x] \in Nat /\ W[a] \in Nat
        BY <2>3
    <2>6. CASE a = x
        <3>1. u \ {a} = s
            BY <2>1, <2>6
        <3>2. g[u] = W[x] + g[s]
            BY <2>4, <2>6, <3>1
        <3>3. W[x] + g[s] = g[s] + W[x]
            BY <2>5
        <3> QED BY <2>1, <3>2, <3>3
    <2>7. CASE a # x
        <3>1. PICK r : r = s \ {a}
            OBVIOUS
        <3>2. /\ a \in s /\ r \in SUBSET D /\ x \in D \ r /\ a \in D \ r
              /\ r \cup {a} = s /\ r \cup {x} = u \ {a}
            BY <2>1, <2>3, <2>7, <3>1
        <3>3. \A y \in D \ r : g[r \cup {y}] = g[r] + W[y]
            BY <1>1, <3>1, <3>2
        <3>4. g[u \ {a}] = g[r] + W[x] /\ g[s] = g[r] + W[a] /\ g[r] \in Nat
            BY <3>2, <3>3
        <3> QED BY <2>1, <2>4, <2>5, <3>4
    <2> QED BY <2>6, <2>7
<1>2. \A s \in SUBSET D : (\A x \in s : s \ {x} \in P) => s \in P
    BY <1>1
<1> HIDE DEF P
<1>3. \A s \in SUBSET D : s \in P
    BY <1>2, SubsetInduction
<1> QED BY <1>3 DEF P, Additive

\* A sum is a number, is zero over nothing, and grows by what is added.
THEOREM SumAddsOne ==
    ASSUME NEW D, IsFiniteSet(D), NEW W \in [D -> Nat], NEW T \in SUBSET D
    PROVE  /\ Sum(W, T) \in Nat /\ Sum(W, {}) = 0
           /\ \A x \in D \ T : Sum(W, T \cup {x}) = Sum(W, T) + W[x]
<1>1. PICK g \in [SUBSET D -> Nat] : g = Turn(g, W, D)
    BY SumExists
<1>2. ASSUME NEW S \in SUBSET D PROVE Sum(W, S) = g[S]
    BY <1>1, SumOfSubset
<1>3. g[{}] = 0
    BY <1>1 DEF Turn
<1>4. Additive(g, W, D)
    BY <1>1, TurnAdds
<1>5. Sum(W, {}) = 0
    BY <1>2, <1>3
<1> QED BY <1>1, <1>2, <1>4, <1>5 DEF Additive

\* The sums of disjoint sets add up.
THEOREM SumAdds ==
    ASSUME NEW D, IsFiniteSet(D), NEW W \in [D -> Nat],
           NEW S \in SUBSET D, NEW T \in SUBSET D, S \cap T = {}
    PROVE  Sum(W, S \cup T) = Sum(W, S) + Sum(W, T)
<1> DEFINE P == {t \in SUBSET T : Sum(W, S \cup t) = Sum(W, S) + Sum(W, t)}
<1>1. IsFiniteSet(T)
    BY FS_Subset
<1>2. ASSUME NEW t \in SUBSET T, \A x \in t : t \ {x} \in P
      PROVE  Sum(W, S \cup t) = Sum(W, S) + Sum(W, t)
    <2>1. CASE t = {}
        <3>1. Sum(W, {}) = 0 /\ Sum(W, S) \in Nat /\ S \cup t = S
            BY <2>1, SumAddsOne
        <3> QED BY <2>1, <3>1
    <2>2. ASSUME NEW x \in t PROVE Sum(W, S \cup t) = Sum(W, S) + Sum(W, t)
        <3>1. PICK r : r = t \ {x}
            OBVIOUS
        <3>2. PICK q : q = S \cup r
            OBVIOUS
        <3>3. /\ r \in SUBSET D /\ x \in D \ r /\ r \cup {x} = t
              /\ q \in SUBSET D /\ x \in D \ q /\ q \cup {x} = S \cup t
            BY <3>1, <3>2
        <3>4. Sum(W, q) = Sum(W, S) + Sum(W, r)
            BY <1>2, <3>1, <3>2
        <3>5. Sum(W, t) = Sum(W, r) + W[x] /\ Sum(W, r) \in Nat
            BY <3>3, SumAddsOne
        <3>6. Sum(W, S \cup t) = Sum(W, q) + W[x]
            BY <3>3, SumAddsOne
        <3>7. Sum(W, S) \in Nat /\ W[x] \in Nat
            BY <3>3, SumAddsOne
        <3> QED BY <3>4, <3>5, <3>6, <3>7
    <2> QED BY <2>1, <2>2
<1>3. \A t \in SUBSET T : (\A x \in t : t \ {x} \in P) => t \in P
    BY <1>2
<1> HIDE DEF P
<1>4. \A s \in SUBSET T : s \in P
    BY <1>1, <1>3, SubsetInduction
<1> QED BY <1>4 DEF P
=============================================================================
