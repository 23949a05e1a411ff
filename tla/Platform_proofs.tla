-------------------------- MODULE Platform_proofs ---------------------------
(***************************************************************************)
(* Proofs about the P-Chain's books, for every block tree, set of stakers  *)
(* and number of crashes: the supply, and the validator sets of past       *)
(* heights.                                                                *)
(*                                                                         *)
(* The supply follows from LedgerInv and from Minted being a sum.          *)
(*                                                                         *)
(* HistoryInv, which needs LayersInv, relates the diff stores to the sets  *)
(* recorded at each height: the diffs of a height lead from its set to the *)
(* one below (Undoes), and the view, the view a call has loaded and every  *)
(* cached set are recorded ones.  A set taken back height by height is     *)
(* then a recorded one again (RebuiltIsRecorded).                          *)
(***************************************************************************)
EXTENDS ProposerVm_proofs, Sums

\* The rewards of a set of stakers add up.
LEMMA RewardsAddUp == RewardsAdd
<1>1. ASSUME NEW S PROVE Minted(S) = Sum(Reward, S)
    BY Zenon DEF Minted, Sum
<1>2. IsFiniteSet(Stakers) /\ Reward \in [Stakers -> Nat]
    BY PlatformAssumption, Zenon
<1>3. ASSUME NEW S \in SUBSET Stakers
      PROVE  /\ Sum(Reward, S) \in Nat
             /\ \A s \in Stakers \ S : Sum(Reward, S \cup {s}) = Sum(Reward, S) + Reward[s]
    BY <1>2, SumAddsOne
<1> QED BY <1>1, <1>3, Zenon DEF RewardsAdd

\* The supply on disk is the initial one plus the rewards of the stakers
\* added since that are still staking or were paid, whatever was verified,
\* rejected or lost in a crash, as long as the accepted blocks keep to the
\* staking rules the code does not enforce.
THEOREM SupplyIsExact == Spec => []LedgerIsExact
<1>1. ProposerInit => LedgerInv
    BY RewardsAddUp, InitLedger, Zenon
<1>2. LedgerInv /\ [Next]_vars => LedgerInv'
    BY RewardsAddUp, LedgerStep, Zenon
<1>3. LedgerInv => LedgerIsExact
    BY Zenon DEF LedgerInv, Balanced
<1> QED BY <1>1, <1>2, <1>3, PTL DEF Spec

-----------------------------------------------------------------------------
(* The validator sets of past heights: rebuilding one.                     *)

WeightIn(set, n) == IF n \in DOMAIN set THEN set[n].weight ELSE 0
KeyIn(set, n) == IF n \in DOMAIN set THEN set[n].key ELSE None

AreRecords(set) == set = [n \in DOMAIN set |-> [weight |-> set[n].weight, key |-> set[n].key]]

IsValidatorSet(set) ==
    /\ DOMAIN set \subseteq Nodes /\ AreRecords(set)
    /\ \A n \in DOMAIN set : set[n].weight \in Nat \ {0}

\* What make_validator_set does for the diffs of one height.
UndoHeight(x, h) ==
    IF h \in DOMAIN state.weightDiffs THEN UndoWeights(x, state.weightDiffs[h]) ELSE x

Back(f, top, lo, hi) ==
    [h \in lo .. hi |-> IF h = hi THEN top ELSE UndoHeight(f[h + 1], h + 1)]

\* The function make_validator_set folds with exists, so its equation holds.
LEMMA BackExists ==
    ASSUME NEW hi \in Nat, NEW lo \in 0 .. hi, NEW top
    PROVE  \E f : f = Back(f, top, lo, hi)
<1> DEFINE P == {l \in 0 .. hi : \E f : f = Back(f, top, l, hi)}
<1>1. hi \in P
    <2> DEFINE f == [h \in hi .. hi |-> top]
    <2>1. f = Back(f, top, hi, hi)
        BY DEF Back
    <2> QED BY <2>1
<1>2. ASSUME NEW l \in 0 .. hi, l + 1 \in P, l < hi PROVE l \in P
    <2>1. PICK f : f = Back(f, top, l + 1, hi)
        BY <1>2, Zenon
    <2> DEFINE g == [h \in l .. hi |-> IF h = l THEN UndoHeight(f[l + 1], l + 1) ELSE f[h]]
    <2>2. ASSUME NEW h \in l .. hi
          PROVE  g[h] = IF h = hi THEN top ELSE UndoHeight(g[h + 1], h + 1)
        <3>1. CASE h = l
            <4>1. g[h] = UndoHeight(f[l + 1], l + 1) /\ g[l + 1] = f[l + 1] /\ h # hi
                BY <1>2, <3>1
            <4> QED BY <3>1, <4>1, Zenon
        <3>2. CASE h # l
            <4>1. h \in (l + 1) .. hi /\ g[h] = f[h]
                BY <1>2, <3>2
            <4>2. f[h] = IF h = hi THEN top ELSE UndoHeight(f[h + 1], h + 1)
                BY <2>1, <4>1, Zenon DEF Back
            <4>3. h # hi => g[h + 1] = f[h + 1]
                BY <4>1
            <4> QED BY <4>1, <4>2, <4>3, Zenon
        <3> QED BY <3>1, <3>2, Zenon
    <2>3. g = Back(g, top, l, hi)
        BY <2>2, Zenon DEF Back
    <2> HIDE DEF g
    <2> QED BY <2>3, Zenon
<1> HIDE DEF P
<1>3. \A l \in 0 .. hi : l + 1 \in P /\ l < hi => l \in P
    BY <1>2, Zenon
<1>4. lo \in P
    BY <1>1, <1>3, DownTo, Zenon
<1> QED BY <1>4, Zenon DEF P

\* Diffs that lead from a set to the one below.
Leads(new, old, weights, keys) ==
    /\ DOMAIN weights = {n \in Nodes : WeightIn(new, n) # WeightIn(old, n)}
    /\ \A n \in DOMAIN weights : weights[n] = WeightIn(new, n) - WeightIn(old, n)
    /\ DOMAIN keys = {n \in Nodes : KeyIn(new, n) # KeyIn(old, n)}
    /\ \A n \in DOMAIN keys : keys[n] = KeyIn(old, n)

Undoes(h) ==
    IF h \in DOMAIN state.weightDiffs
    THEN Leads(setAt[h], setAt[h - 1], state.weightDiffs[h], state.keyDiffs[h])
    ELSE setAt[h - 1] = setAt[h]

Chronicle ==
    /\ state.height \in Nat
    /\ DOMAIN state.keyDiffs = DOMAIN state.weightDiffs
    /\ \A h \in 0 .. state.height : IsValidatorSet(setAt[h])
    /\ \A h \in 1 .. state.height : Undoes(h)

\* The set x has the nodes and the weights of height h.
Weighs(x, h) ==
    /\ AreRecords(x) /\ DOMAIN x = DOMAIN setAt[h]
    /\ \A n \in DOMAIN x : x[n].weight = setAt[h][n].weight

\* Undoing the diffs of a height leads to the height below; keys are untouched.
LEMMA UndoOne ==
    ASSUME Chronicle, NEW h \in 1 .. state.height, NEW x, Weighs(x, h)
    PROVE  /\ Weighs(UndoHeight(x, h), h - 1)
           /\ \A n \in DOMAIN UndoHeight(x, h) : UndoHeight(x, h)[n].key = KeyIn(x, n)
<1>1. CASE h \notin DOMAIN state.weightDiffs
    <2>1. setAt[h - 1] = setAt[h] /\ UndoHeight(x, h) = x
        BY <1>1, Zenon DEF Chronicle, Undoes, UndoHeight
    <2> QED BY <2>1, Zenon DEF Weighs, KeyIn
<1>2. CASE h \in DOMAIN state.weightDiffs
    <2> DEFINE diffs == state.weightDiffs[h]
               new == setAt[h]
               old == setAt[h - 1]
               had(n) == IF n \in DOMAIN x THEN x[n] ELSE [weight |-> 0, key |-> None]
               undone == [n \in DOMAIN x \cup DOMAIN diffs |->
                            IF n \in DOMAIN diffs
                            THEN [had(n) EXCEPT !.weight = @ - diffs[n]] ELSE x[n]]
               y == [n \in {m \in DOMAIN undone : undone[m].weight # 0} |-> undone[n]]
    <2>1. UndoHeight(x, h) = y
        BY <1>2, Zenon DEF UndoHeight, UndoWeights
    <2>2. /\ DOMAIN diffs = {n \in Nodes : WeightIn(new, n) # WeightIn(old, n)}
          /\ \A n \in DOMAIN diffs : diffs[n] = WeightIn(new, n) - WeightIn(old, n)
        BY <1>2, Zenon DEF Chronicle, Undoes, Leads
    <2>3. IsValidatorSet(new) /\ IsValidatorSet(old)
        BY DEF Chronicle
    <2> HIDE DEF new, old, diffs
    <2>4. ASSUME NEW n
          PROVE  WeightIn(new, n) \in Nat /\ WeightIn(old, n) \in Nat
                 /\ (n \in DOMAIN old <=> WeightIn(old, n) # 0)
                 /\ (n \in DOMAIN new <=> WeightIn(new, n) # 0)
        BY <2>3, Zenon DEF IsValidatorSet, WeightIn
    <2>5. ASSUME NEW n \in DOMAIN x \cup DOMAIN diffs
          PROVE  undone[n] = [weight |-> WeightIn(old, n), key |-> KeyIn(x, n)]
        <3>1. had(n) = [weight |-> WeightIn(new, n), key |-> KeyIn(x, n)]
            BY Zenon DEF Weighs, AreRecords, WeightIn, KeyIn, new
        <3>2. CASE n \in DOMAIN diffs
            <4>1. undone[n] = [had(n) EXCEPT !.weight = @ - diffs[n]]
                BY <3>2, Zenon
            <4>2. undone[n] = [weight |-> WeightIn(new, n) - diffs[n], key |-> KeyIn(x, n)]
                <5> HIDE DEF undone, had
                <5> QED BY <3>1, <4>1
            <4>3. WeightIn(new, n) - diffs[n] = WeightIn(old, n)
                <5>1. diffs[n] = WeightIn(new, n) - WeightIn(old, n)
                    BY <2>2, <3>2, Zenon
                <5> QED BY <5>1, <2>4
            <4> QED BY <4>2, <4>3, Zenon
        <3>3. CASE n \notin DOMAIN diffs
            <4>1. n \in DOMAIN x /\ undone[n] = x[n] /\ had(n) = x[n]
                BY <3>3, Zenon
            <4>2. WeightIn(new, n) = WeightIn(old, n)
                <5>1. n \in Nodes
                    BY <4>1, <2>3, Zenon DEF Weighs, IsValidatorSet, new
                <5> QED BY <5>1, <2>2, <3>3, Zenon
            <4> HIDE DEF undone, had
            <4> QED BY <3>1, <4>1, <4>2, Zenon
        <3> QED BY <3>2, <3>3, Zenon
    <2>6. DOMAIN undone = DOMAIN x \cup DOMAIN diffs
        BY Zenon
    <2> HIDE DEF undone
    <2>7. ASSUME NEW n PROVE n \in DOMAIN y <=> n \in DOMAIN old
        <3>1. n \in DOMAIN y <=> n \in DOMAIN x \cup DOMAIN diffs /\ undone[n].weight # 0
            BY <2>6, Zenon
        <3>2. ASSUME n \in DOMAIN x \cup DOMAIN diffs PROVE undone[n].weight = WeightIn(old, n)
            <4>1. undone[n] = [weight |-> WeightIn(old, n), key |-> KeyIn(x, n)]
                BY <2>5, <3>2, Zenon
            <4> QED BY <4>1
        <3>3. n \in DOMAIN old => n \in DOMAIN x \cup DOMAIN diffs
            <4> SUFFICES ASSUME n \in DOMAIN old PROVE n \in DOMAIN x \cup DOMAIN diffs
                BY Zenon
            <4>1. n \in Nodes /\ WeightIn(old, n) # 0
                BY <2>3, <2>4, Zenon DEF IsValidatorSet
            <4>2. CASE WeightIn(new, n) # WeightIn(old, n)
                BY <2>2, <4>1, <4>2, Zenon
            <4>3. CASE WeightIn(new, n) = WeightIn(old, n)
                <5>1. n \in DOMAIN new
                    BY <2>4, <4>1, <4>3, Zenon
                <5> QED BY <5>1, Zenon DEF Weighs, new
            <4> QED BY <4>2, <4>3, Zenon
        <3> QED BY <2>4, <3>1, <3>2, <3>3, Zenon
    <2>8. DOMAIN y = DOMAIN old
        BY <2>7, Zenon
    <2>9. ASSUME NEW n \in DOMAIN y
          PROVE  y[n] = [weight |-> old[n].weight, key |-> KeyIn(x, n)]
        <3>1. n \in DOMAIN x \cup DOMAIN diffs /\ y[n] = undone[n] /\ n \in DOMAIN old
            BY <2>6, <2>8, Zenon
        <3> QED BY <2>5, <3>1, Zenon DEF WeightIn
    <2>10. y = [n \in DOMAIN y |-> [weight |-> y[n].weight, key |-> y[n].key]]
        <3>1. y = [n \in DOMAIN y |-> y[n]]
            BY Zenon
        <3> HIDE DEF y
        <3> QED BY <2>9, <3>1
    <2> HIDE DEF y
    <2>11. \A n \in DOMAIN y : y[n].weight = old[n].weight /\ y[n].key = KeyIn(x, n)
        BY <2>9
    <2> QED BY <2>1, <2>8, <2>10, <2>11, Zenon DEF Weighs, AreRecords, old
<1> QED BY <1>1, <1>2, Zenon

\* The key of a node is not touched between two heights.
Steady(n, lo, hi) == \A k \in lo + 1 .. hi : KeyIn(setAt[k], n) = KeyIn(setAt[k - 1], n)

\* Such a key is the same at both ends.
LEMMA SteadyKey ==
    ASSUME NEW n, NEW lo \in Nat, NEW hi \in Nat, lo <= hi, Steady(n, lo, hi)
    PROVE  KeyIn(setAt[hi], n) = KeyIn(setAt[lo], n)
<1> DEFINE P == {h \in lo .. hi : KeyIn(setAt[h], n) = KeyIn(setAt[lo], n)}
<1>1. lo \in P
    OBVIOUS
<1>2. ASSUME NEW h \in lo .. hi, h \in P, h < hi PROVE h + 1 \in P
    <2>1. h + 1 \in lo + 1 .. hi /\ h + 1 \in lo .. hi /\ (h + 1) - 1 = h
        BY <1>2
    <2>2. KeyIn(setAt[h + 1], n) = KeyIn(setAt[(h + 1) - 1], n)
        BY <2>1, Zenon DEF Steady
    <2> QED BY <1>2, <2>1, <2>2, Zenon
<1> HIDE DEF P
<1>3. \A h \in lo .. hi : h \in P /\ h < hi => h + 1 \in P
    BY <1>2, Zenon
<1>4. \A h \in lo .. hi : h \in P
    BY <1>1, <1>3, UpFrom, Zenon
<1>5. hi \in lo .. hi
    OBVIOUS
<1> QED BY <1>4, <1>5, Zenon DEF P

\* Undoing weights height by height arrives at the recorded weights.
LEMMA BackAgrees ==
    ASSUME Chronicle, NEW hi \in 0 .. state.height, NEW lo \in 0 .. hi,
           NEW f, f = Back(f, setAt[hi], lo, hi)
    PROVE  /\ Weighs(f[lo], lo)
           /\ \A n \in DOMAIN f[lo] : Steady(n, lo, hi) => f[lo][n].key = KeyIn(setAt[lo], n)
<1> DEFINE Keyed(h) == \A n : Steady(n, h, hi) => KeyIn(f[h], n) = KeyIn(setAt[h], n)
           P == {h \in lo .. hi : Weighs(f[h], h) /\ Keyed(h)}
<1>0. hi \in Nat /\ lo \in Nat /\ hi \in lo .. hi /\ state.height \in Nat /\ lo \in lo .. hi
    BY DEF Chronicle
<1>1. hi \in P
    <2>1. f[hi] = setAt[hi]
        BY <1>0, Zenon DEF Back
    <2>2. AreRecords(setAt[hi])
        BY Zenon DEF Chronicle, IsValidatorSet
    <2> QED BY <1>0, <2>1, <2>2, Zenon DEF Weighs
<1>2. ASSUME NEW h \in lo .. hi, h + 1 \in P, h < hi PROVE h \in P
    <2>1. /\ h + 1 \in 1 .. state.height /\ (h + 1) - 1 = h /\ h # hi
          /\ h + 1 \in h + 1 .. hi
          /\ \A k \in (h + 1) + 1 .. hi : k \in h + 1 .. hi
        BY <1>0, <1>2
    <2>2. f[h] = UndoHeight(f[h + 1], h + 1)
        BY <2>1, Zenon DEF Back
    <2>3. Weighs(f[h + 1], h + 1) /\ Keyed(h + 1)
        BY <1>2, Zenon
    <2>4. Weighs(f[h], h) /\ \A n \in DOMAIN f[h] : f[h][n].key = KeyIn(f[h + 1], n)
        <3>1. /\ Weighs(UndoHeight(f[h + 1], h + 1), (h + 1) - 1)
              /\ \A n \in DOMAIN UndoHeight(f[h + 1], h + 1) :
                    UndoHeight(f[h + 1], h + 1)[n].key = KeyIn(f[h + 1], n)
            BY <2>1, <2>3, UndoOne, Zenon
        <3> QED BY <2>1, <2>2, <3>1, Zenon
    <2>5. ASSUME NEW n, Steady(n, h, hi) PROVE KeyIn(f[h], n) = KeyIn(setAt[h], n)
        <3>1. Steady(n, h + 1, hi) /\ KeyIn(setAt[h + 1], n) = KeyIn(setAt[h], n)
            BY <2>1, <2>5, Zenon DEF Steady
        <3>2. KeyIn(f[h + 1], n) = KeyIn(setAt[h], n)
            BY <2>3, <3>1, Zenon
        <3>3. CASE n \in DOMAIN f[h]
            BY <2>4, <3>2, <3>3, Zenon DEF KeyIn
        <3>4. CASE n \notin DOMAIN f[h]
            BY <2>4, <3>4, Zenon DEF KeyIn, Weighs
        <3> QED BY <3>3, <3>4, Zenon
    <2> QED BY <2>4, <2>5, Zenon
<1> HIDE DEF P
<1>3. \A h \in lo .. hi : h + 1 \in P /\ h < hi => h \in P
    BY <1>2, Zenon
<1>4. \A h \in lo .. hi : h \in P
    BY <1>0, <1>1, <1>3, DownTo, Zenon
<1>5. Weighs(f[lo], lo) /\ Keyed(lo)
    BY <1>0, <1>4, Zenon DEF P
<1> QED BY <1>5, Zenon DEF KeyIn

\* A set rebuilt from a recorded one is the one recorded at the target.
LEMMA RebuiltIsRecorded ==
    ASSUME Chronicle, NEW v, NEW lo \in 0 .. v.height,
           v.height \in 0 .. state.height, v.sets = setAt[v.height]
    PROVE  MakeValidatorSet(v, lo) = setAt[lo]
<1> DEFINE hi == v.height
           f == CHOOSE g : g = Back(g, v.sets, lo, hi)
           touching(n) == {h \in lo + 1 .. hi : h \in DOMAIN state.keyDiffs
                                                 /\ n \in DOMAIN state.keyDiffs[h]}
           x == f[lo]
           y == [n \in DOMAIN x |-> IF touching(n) = {} THEN x[n]
                   ELSE [x[n] EXCEPT !.key = state.keyDiffs[Min(touching(n))][n]]]
<1>0. /\ hi \in Nat /\ lo \in Nat /\ lo <= hi /\ lo + 1 .. hi \subseteq 1 .. state.height
      /\ lo \in 0 .. state.height
    BY DEF Chronicle
<1>1. f = Back(f, setAt[hi], lo, hi)
    BY <1>0, BackExists, Zenon
<1>2. MakeValidatorSet(v, lo) = y
    BY Zenon DEF MakeValidatorSet, UndoKeys, Back, UndoHeight
<1> HIDE DEF f
<1>3. /\ Weighs(x, lo)
      /\ \A n \in DOMAIN x : Steady(n, lo, hi) => x[n].key = KeyIn(setAt[lo], n)
    BY <1>0, <1>1, BackAgrees, Zenon
<1>4. IsValidatorSet(setAt[lo])
    BY <1>0, Zenon DEF Chronicle
<1> HIDE DEF x
<1>5. ASSUME NEW n \in DOMAIN x PROVE y[n] = setAt[lo][n]
    <2>1. /\ n \in Nodes /\ n \in DOMAIN setAt[lo] /\ x[n].weight = setAt[lo][n].weight
          /\ x[n] = [weight |-> x[n].weight, key |-> x[n].key]
          /\ setAt[lo][n] = [weight |-> setAt[lo][n].weight, key |-> setAt[lo][n].key]
          /\ KeyIn(setAt[lo], n) = setAt[lo][n].key
        BY <1>3, <1>4, Zenon DEF Weighs, IsValidatorSet, AreRecords, KeyIn
    <2>2. ASSUME NEW h \in lo + 1 .. hi
          PROVE  /\ h \in touching(n) <=> KeyIn(setAt[h], n) # KeyIn(setAt[h - 1], n)
                 /\ h \in touching(n) => state.keyDiffs[h][n] = KeyIn(setAt[h - 1], n)
        <3>1. Undoes(h) /\ DOMAIN state.keyDiffs = DOMAIN state.weightDiffs
            BY <1>0, Zenon DEF Chronicle
        <3>2. CASE h \in DOMAIN state.weightDiffs
            BY <2>1, <3>1, <3>2, Zenon DEF Undoes, Leads
        <3>3. CASE h \notin DOMAIN state.weightDiffs
            BY <3>1, <3>3, Zenon DEF Undoes
        <3> QED BY <3>2, <3>3, Zenon
    <2>3. CASE touching(n) = {}
        <3>1. Steady(n, lo, hi)
            BY <2>2, <2>3, Zenon DEF Steady
        <3>2. x[n].key = setAt[lo][n].key
            BY <1>3, <2>1, <3>1, Zenon
        <3> QED BY <2>1, <2>3, <3>2, Zenon
    <2>4. CASE touching(n) # {}
        <3>1. touching(n) \subseteq lo + 1 .. hi /\ touching(n) \in SUBSET Nat
            BY <1>0
        <3> DEFINE m == Min(touching(n))
        <3>2. m \in touching(n) /\ \A k \in touching(n) : m <= k
            <4> HIDE DEF touching
            <4>1. \E k \in touching(n) : \A j \in touching(n) : k <= j
                BY <2>4, <3>1, SmallestNumber, Zenon
            <4> QED BY <4>1, Zenon DEF Min
        <3>3. y[n] = [x[n] EXCEPT !.key = state.keyDiffs[m][n]]
            BY <2>4, Zenon
        <3> HIDE DEF m
        <3>4. m \in lo + 1 .. hi /\ state.keyDiffs[m][n] = KeyIn(setAt[m - 1], n)
            BY <2>2, <3>1, <3>2, Zenon
        <3>5. /\ m - 1 \in Nat /\ lo <= m - 1
              /\ \A k \in lo + 1 .. m - 1 : k \in lo + 1 .. hi /\ ~(m <= k)
            BY <1>0, <3>4
        <3>6. Steady(n, lo, m - 1)
            BY <2>2, <3>2, <3>5, Zenon DEF Steady
        <3>7. KeyIn(setAt[m - 1], n) = KeyIn(setAt[lo], n)
            BY <1>0, <3>5, <3>6, SteadyKey, Zenon
        <3>8. y[n] = [x[n] EXCEPT !.key = setAt[lo][n].key]
            BY <2>1, <3>3, <3>4, <3>7, Zenon
        <3> HIDE DEF y
        <3> QED BY <2>1, <3>8, Zenon
    <2> QED BY <2>3, <2>4, Zenon
<1>6. DOMAIN y = DOMAIN x /\ y = [n \in DOMAIN y |-> y[n]]
    BY Zenon
<1>7. DOMAIN x = DOMAIN setAt[lo] /\ setAt[lo] = [n \in DOMAIN setAt[lo] |-> setAt[lo][n]]
    <2>1. DOMAIN x = DOMAIN setAt[lo] /\ AreRecords(setAt[lo])
        BY <1>3, <1>4, Zenon DEF Weighs, IsValidatorSet
    <2> QED BY <2>1, Zenon DEF AreRecords
<1> HIDE DEF y
<1>8. y = setAt[lo]
    BY <1>5, <1>6, <1>7, Zenon
<1> QED BY <1>2, <1>8, Zenon

-----------------------------------------------------------------------------
(* What is recorded, and what is answered.                                  *)

NoOrphans(S) == \A s \in S : Validates(S, Node[s]) # {}

\* Weights are sums of positive numbers.
LEMMA WeightFacts ==
    ASSUME NEW S \in SUBSET Stakers, NEW n
    PROVE  /\ TotalWeight(S, n) \in Nat
           /\ TotalWeight(S, n) # 0 <=> \E s \in S : Node[s] = n
<1> DEFINE T == {s \in S : Node[s] = n}
<1>1. TotalWeight(S, n) = Sum(Weight, T)
    BY Zenon DEF TotalWeight, Sum
<1>2. IsFiniteSet(Stakers) /\ Weight \in [Stakers -> Nat] /\ T \in SUBSET Stakers
    BY PlatformAssumption, Zenon
<1>3. Sum(Weight, T) \in Nat /\ Sum(Weight, {}) = 0
    BY <1>2, SumAddsOne, Zenon
<1>4. ASSUME NEW s \in T PROVE Sum(Weight, T) # 0
    <2> DEFINE R == T \ {s}
    <2>1. R \in SUBSET Stakers /\ s \in Stakers \ R /\ R \cup {s} = T
        BY <1>2, Zenon
    <2> HIDE DEF T, R
    <2>2. Sum(Weight, T) = Sum(Weight, R) + Weight[s] /\ Sum(Weight, R) \in Nat
        <3>1. /\ Sum(Weight, R) \in Nat
              /\ \A r \in Stakers \ R : Sum(Weight, R \cup {r}) = Sum(Weight, R) + Weight[r]
            BY <1>2, <2>1, SumAddsOne, Zenon
        <3>2. Sum(Weight, R \cup {s}) = Sum(Weight, R) + Weight[s]
            BY <2>1, <3>1, Zenon
        <3> QED BY <2>1, <3>1, <3>2, Zenon
    <2>3. Weight[s] \in Nat /\ Weight[s] > 0
        BY <2>1, PlatformAssumption, Zenon
    <2> QED BY <2>2, <2>3
<1>5. T = {} <=> ~\E s \in S : Node[s] = n
    BY Zenon
<1> HIDE DEF T
<1> QED BY <1>1, <1>3, <1>4, <1>5, Zenon

\* A snapshot of stakers whose delegators all have a validator loses nothing.
LEMMA SetFacts ==
    ASSUME NEW S \in SUBSET Stakers, NoOrphans(S)
    PROVE  /\ IsValidatorSet(ValidatorSet(S))
           /\ \A n \in Nodes : /\ WeightIn(ValidatorSet(S), n) = TotalWeight(S, n)
                               /\ KeyIn(ValidatorSet(S), n) = KeyOf(S, n)
<1> DEFINE V == ValidatorSet(S)
<1>1. /\ DOMAIN V = {n \in Nodes : Validates(S, n) # {}}
      /\ V = [n \in DOMAIN V |-> [weight |-> TotalWeight(S, n), key |-> KeyOf(S, n)]]
      /\ \A n \in DOMAIN V : V[n] = [weight |-> TotalWeight(S, n), key |-> KeyOf(S, n)]
    BY Zenon DEF ValidatorSet
<1> HIDE DEF V
<1>2. \A n \in DOMAIN V : V[n].weight = TotalWeight(S, n) /\ V[n].key = KeyOf(S, n)
    BY <1>1
<1>3. AreRecords(V)
    BY <1>1, <1>2, Zenon DEF AreRecords
<1>4. ASSUME NEW n \in Nodes, Validates(S, n) # {} PROVE TotalWeight(S, n) \in Nat \ {0}
    BY <1>4, WeightFacts, Zenon DEF Validates
<1>5. ASSUME NEW n \in Nodes, Validates(S, n) = {} PROVE TotalWeight(S, n) = 0
    <2>1. ~\E s \in S : Node[s] = n
        BY <1>5, Zenon DEF NoOrphans
    <2> QED BY <2>1, WeightFacts, Zenon
<1>6. IsValidatorSet(V)
    BY <1>1, <1>2, <1>3, <1>4, Zenon DEF IsValidatorSet
<1>7. ASSUME NEW n \in Nodes
      PROVE  WeightIn(V, n) = TotalWeight(S, n) /\ KeyIn(V, n) = KeyOf(S, n)
    <2>1. CASE n \in DOMAIN V
        BY <1>2, <2>1, Zenon DEF WeightIn, KeyIn
    <2>2. CASE n \notin DOMAIN V
        BY <1>1, <1>5, <2>2, Zenon DEF WeightIn, KeyIn, KeyOf
    <2> QED BY <2>1, <2>2, Zenon
<1> QED BY <1>6, <1>7, Zenon DEF V

-----------------------------------------------------------------------------
Recorded(height, set) == height \in 0 .. state.height /\ set = setAt[height]

Recording ==
    /\ NoOrphans(state.current)
    /\ 0 .. state.height \subseteq DOMAIN setAt
    /\ \A h \in 0 .. state.height : IsValidatorSet(setAt[h])
    /\ \A h \in 1 .. state.height : Undoes(h)
    /\ setAt[state.height] = ValidatorSet(state.current)
    /\ lastAccepted # state.lastAccepted =>
          /\ Height[lastAccepted] \in DOMAIN setAt
          /\ setAt[Height[lastAccepted]] = ValidatorSet(state.current)

Answers ==
    /\ Recorded(view.height, view.sets)
    /\ reader.pc = "loaded" => /\ Recorded(reader.view.height, reader.view.sets)
                               /\ reader.target \in 0 .. reader.view.height
    /\ \A i \in DOMAIN cache : Recorded(cache[i].height, cache[i].set)

HistoryTypes ==
    /\ state.height = Height[state.lastAccepted]
    /\ DOMAIN state.weightDiffs \subseteq 0 .. state.height
    /\ DOMAIN state.keyDiffs = DOMAIN state.weightDiffs
    /\ reader = [pc |-> reader.pc, target |-> reader.target, view |-> reader.view]
    /\ reader.pc = "missed" => reader.target \in Nat
    /\ \E U : cache \in Seq(U)

HistoryInv ==
    /\ HistoryTypes
    /\ "orphaned" \notin departures => Recording /\ Answers

\* The invariant says what the property does.
LEMMA HistoryExact ==
    ASSUME LayersInv, HistoryInv
    PROVE  HistoricalSetsExact
<1> SUFFICES ASSUME "orphaned" \notin departures
             PROVE  /\ \A h \in 0 .. view.height : MakeValidatorSet(view, h) = setAt[h]
                    /\ \A i \in DOMAIN cache : cache[i].set = setAt[cache[i].height]
    BY Zenon DEF HistoricalSetsExact
<1>1. Recording /\ Answers /\ HistoryTypes
    BY Zenon DEF HistoryInv
<1>2. Chronicle
    <2>1. state.height \in Nat
        BY <1>1, TreeFacts, Zenon DEF HistoryTypes, LayersInv, StateTypes
    <2> QED BY <1>1, <2>1, Zenon DEF Chronicle, Recording, HistoryTypes
<1> QED BY <1>1, <1>2, RebuiltIsRecorded, Zenon DEF Answers, Recorded

-----------------------------------------------------------------------------
\* The diffs of a block undo it.
LEMMA CommitUndoes ==
    ASSUME NEW S \in SUBSET Stakers, NEW T \in SUBSET Stakers, NoOrphans(S), NoOrphans(T)
    PROVE  Leads(ValidatorSet(T), ValidatorSet(S), WeightChanges(S, T), KeyChanges(S, T))
<1> DEFINE new == ValidatorSet(T)
           old == ValidatorSet(S)
<1>1. \A n \in Nodes : /\ WeightIn(new, n) = TotalWeight(T, n) /\ KeyIn(new, n) = KeyOf(T, n)
                       /\ WeightIn(old, n) = TotalWeight(S, n) /\ KeyIn(old, n) = KeyOf(S, n)
    BY SetFacts, Zenon
<1> HIDE DEF new, old
<1>2. /\ DOMAIN WeightChanges(S, T) = {n \in Nodes : WeightIn(new, n) # WeightIn(old, n)}
      /\ \A n \in DOMAIN WeightChanges(S, T) :
            WeightChanges(S, T)[n] = WeightIn(new, n) - WeightIn(old, n)
    <2>1. \A n : n \in DOMAIN WeightChanges(S, T) <=>
                    n \in Nodes /\ WeightIn(new, n) # WeightIn(old, n)
        BY <1>1, Zenon DEF WeightChanges
    <2>2. \A n \in DOMAIN WeightChanges(S, T) :
             n \in Nodes /\ WeightChanges(S, T)[n] = TotalWeight(T, n) - TotalWeight(S, n)
        BY Zenon DEF WeightChanges
    <2> QED BY <1>1, <2>1, <2>2, Zenon
<1>3. /\ DOMAIN KeyChanges(S, T) = {n \in Nodes : KeyIn(new, n) # KeyIn(old, n)}
      /\ \A n \in DOMAIN KeyChanges(S, T) : KeyChanges(S, T)[n] = KeyIn(old, n)
    <2>1. \A n : n \in DOMAIN KeyChanges(S, T) <=> n \in Nodes /\ KeyIn(new, n) # KeyIn(old, n)
        BY <1>1, Zenon DEF KeyChanges
    <2>2. \A n \in DOMAIN KeyChanges(S, T) :
             n \in Nodes /\ KeyChanges(S, T)[n] = KeyOf(S, n)
        BY Zenon DEF KeyChanges
    <2> QED BY <1>1, <2>1, <2>2, Zenon
<1> QED BY <1>2, <1>3, Zenon DEF Leads, new, old

\* A block is committed one height above the last committed one, or two when
\* a proposal was noted in between.
LEMMA CommitHeight ==
    ASSUME LayersInv, HistoryInv, accept.pc = "inner"
    PROVE  LET h == Height[accept.block]
           IN  /\ state.height \in Nat /\ h \in Nat
               /\ lastAccepted = state.lastAccepted => h = state.height + 1
               /\ lastAccepted # state.lastAccepted =>
                     Height[lastAccepted] = state.height + 1 /\ h = state.height + 2
<1>1. accept.pc \in Before
    BY Zenon DEF Before, Written
<1>2. /\ accept.block \in Blocks \ {Genesis} /\ Parent[accept.block] = lastAccepted
      /\ lastAccepted \in Blocks
    BY <1>1, AcceptingFacts, Zenon DEF LayersInv, StateTypes
<1>3. state.height = Height[state.lastAccepted] /\ state.lastAccepted \in Blocks
    BY Zenon DEF HistoryInv, HistoryTypes, LayersInv, StateTypes
<1>4. lastAccepted # state.lastAccepted =>
          lastAccepted \in Blocks \ {Genesis} /\ state.lastAccepted = Parent[lastAccepted]
    <2>1. ASSUME lastAccepted # state.lastAccepted
          PROVE  Kind[lastAccepted] = "proposal" /\ state.lastAccepted = Parent[lastAccepted]
        BY <2>1, Zenon DEF LayersInv, DiskTip
    <2> QED BY <1>2, <2>1, PlatformAssumption, Zenon
<1>5. Height[accept.block] = Height[lastAccepted] + 1
    BY <1>2, TreeFacts, Zenon
<1>6. lastAccepted # state.lastAccepted => Height[lastAccepted] = Height[state.lastAccepted] + 1
    BY <1>4, TreeFacts, Zenon
<1>7. Height[state.lastAccepted] \in Nat /\ Height[accept.block] \in Nat
    BY <1>2, <1>3, TreeFacts, Zenon
<1> QED BY <1>3, <1>5, <1>6, <1>7

\* Committing a block adds its set and its diffs above the recorded ones.
LEMMA CommitRecords ==
    ASSUME LayersInv, HistoryInv, accept.pc = "inner", AcceptDecision(accept.block)
    PROVE  /\ state'.height = Height[state'.lastAccepted] /\ state.height < state'.height
           /\ DOMAIN state'.weightDiffs \subseteq 0 .. state'.height
           /\ DOMAIN state'.keyDiffs = DOMAIN state'.weightDiffs
           /\ "orphaned" \notin departures' =>
                 /\ "orphaned" \notin departures
                 /\ Recording'
                 /\ \A k \in 0 .. state.height : setAt'[k] = setAt[k]
<1> DEFINE b == accept.block
           d == cached[b].onAccept
           S == state.current
           T == ApplyStakers(S, d)
           h == Height[b]
           H == state.height
<1>1. b \in DOMAIN cached /\ d # None /\ CommitAccept(b, d)
    BY Zenon DEF AcceptDecision, Acceptable
<1>2. /\ lastAccepted' = b /\ state'.lastAccepted = b
      /\ state'.height = h /\ state'.current = T
      /\ state'.weightDiffs = With(state.weightDiffs, h, WeightChanges(S, T))
      /\ state'.keyDiffs = With(state.keyDiffs, h, KeyChanges(S, T))
      /\ setAt' = With(setAt, h, ValidatorSet(T))
      /\ departures' = departures \cup Departs(S, T, d)
    BY <1>1, Zenon DEF CommitAccept
<1>3. S \in SUBSET Stakers /\ T \in SUBSET Stakers
    <2>1. d \in Diffs /\ S \in SUBSET Stakers
        BY <1>1, Zenon DEF LayersInv, CachedTypes, StateTypes
    <2> QED BY <2>1, StakersKept, Zenon
<1>4. /\ H \in Nat /\ h \in Nat
      /\ lastAccepted = state.lastAccepted => h = H + 1
      /\ lastAccepted # state.lastAccepted => Height[lastAccepted] = H + 1 /\ h = H + 2
    BY CommitHeight, Zenon
<1>5. DOMAIN state.weightDiffs \subseteq 0 .. H /\ DOMAIN state.keyDiffs = DOMAIN state.weightDiffs
    BY Zenon DEF HistoryInv, HistoryTypes
<1> HIDE DEF b, d, S, T, h, H
<1>6. /\ DOMAIN state'.weightDiffs = {h} \cup DOMAIN state.weightDiffs
      /\ DOMAIN state'.keyDiffs = {h} \cup DOMAIN state.keyDiffs
      /\ DOMAIN setAt' = {h} \cup DOMAIN setAt
      /\ state'.weightDiffs[h] = WeightChanges(S, T) /\ state'.keyDiffs[h] = KeyChanges(S, T)
      /\ setAt'[h] = ValidatorSet(T)
      /\ \A k \in DOMAIN state.weightDiffs \ {h} : state'.weightDiffs[k] = state.weightDiffs[k]
      /\ \A k \in DOMAIN state.keyDiffs \ {h} : state'.keyDiffs[k] = state.keyDiffs[k]
      /\ \A k \in DOMAIN setAt \ {h} : setAt'[k] = setAt[k]
    BY <1>2, Zenon DEF With
<1>7. /\ H < h /\ 0 .. H \subseteq 0 .. h /\ h \in 0 .. h /\ h \notin 0 .. H
      /\ h = H + 1 \/ h = H + 2
      /\ H + 1 \notin 0 .. H /\ (h = H + 2 => H + 1 # h)
    BY <1>4
<1>8. ASSUME "orphaned" \notin departures'
      PROVE  /\ "orphaned" \notin departures /\ Recording'
             /\ \A k \in 0 .. H : setAt'[k] = setAt[k]
    <2>1. "orphaned" \notin departures /\ NoOrphans(T)
        BY <1>2, <1>8, Zenon DEF Departs, NoOrphans
    <2>2. Recording
        BY <2>1, Zenon DEF HistoryInv
    <2>3. ASSUME NEW k \in 0 .. H PROVE k \in DOMAIN setAt /\ setAt'[k] = setAt[k]
        BY <1>6, <1>7, <2>2, Zenon DEF Recording, H
    <2>4. h = H + 2 => H + 1 \in DOMAIN setAt /\ setAt'[H + 1] = ValidatorSet(S)
        <3>1. ASSUME h = H + 2 PROVE H + 1 \in DOMAIN setAt /\ setAt[H + 1] = ValidatorSet(S)
            <4>1. lastAccepted # state.lastAccepted /\ Height[lastAccepted] = H + 1
                BY <1>4, <3>1
            <4> QED BY <2>2, <4>1, Zenon DEF Recording, S
        <3> QED BY <1>6, <1>7, <3>1, Zenon
    <2>5. setAt'[H] = ValidatorSet(S) /\ NoOrphans(S)
        <3>1. H \in 0 .. H
            BY <1>4
        <3> QED BY <2>2, <2>3, <3>1, Zenon DEF Recording, S, H
    <2>6. ASSUME NEW k \in 0 .. h PROVE k \in 0 .. H \/ k = h \/ (h = H + 2 /\ k = H + 1)
        BY <1>4
    <2>7. 0 .. h \subseteq DOMAIN setAt'
        BY <1>6, <2>3, <2>4, <2>6, Zenon
    <2>8. ASSUME NEW k \in 0 .. h PROVE IsValidatorSet(setAt'[k])
        <3>1. CASE k \in 0 .. H
            BY <2>2, <2>3, <3>1, Zenon DEF Recording, H
        <3>2. CASE k = h
            BY <1>3, <1>6, <2>1, <3>2, SetFacts, Zenon
        <3>3. CASE h = H + 2 /\ k = H + 1
            BY <1>3, <2>4, <2>5, <3>3, SetFacts, Zenon
        <3> QED BY <2>6, <3>1, <3>2, <3>3, Zenon
    <2>9. ASSUME NEW k \in 1 .. h PROVE Undoes(k)'
        <3>1. CASE k = h
            <4>1. setAt'[h - 1] = ValidatorSet(S)
                <5>1. CASE h = H + 1
                    BY <1>4, <2>5, <5>1
                <5>2. CASE h = H + 2
                    BY <1>4, <2>4, <5>2
                <5> QED BY <1>7, <5>1, <5>2, Zenon
            <4>2. Leads(setAt'[h], setAt'[h - 1], state'.weightDiffs[h], state'.keyDiffs[h])
                BY <1>3, <1>6, <2>1, <2>5, <4>1, CommitUndoes, Zenon
            <4>3. h \in DOMAIN state'.weightDiffs
                BY <1>6, Zenon
            <4> QED BY <3>1, <4>2, <4>3, Zenon DEF Undoes
        <3>2. CASE k \in 0 .. H
            <4>1. k \in 1 .. H /\ k - 1 \in 0 .. H /\ k # h
                BY <1>4, <1>7, <3>2
            <4>2. Undoes(k)
                BY <2>2, <4>1, Zenon DEF Recording, H
            <4>3. setAt'[k] = setAt[k] /\ setAt'[k - 1] = setAt[k - 1]
                BY <2>3, <3>2, <4>1, Zenon
            <4>4. /\ k \in DOMAIN state'.weightDiffs <=> k \in DOMAIN state.weightDiffs
                  /\ k \in DOMAIN state.weightDiffs =>
                        /\ state'.weightDiffs[k] = state.weightDiffs[k]
                        /\ state'.keyDiffs[k] = state.keyDiffs[k]
                BY <1>5, <1>6, <4>1, Zenon
            <4> QED BY <4>2, <4>3, <4>4, Zenon DEF Undoes
        <3>3. CASE h = H + 2 /\ k = H + 1
            <4>1. k \notin DOMAIN state'.weightDiffs
                BY <1>5, <1>6, <1>7, <3>3, Zenon
            <4>2. k - 1 = H
                BY <1>4, <3>3
            <4>3. setAt'[k - 1] = setAt'[k]
                BY <2>4, <2>5, <3>3, <4>2, Zenon
            <4> QED BY <4>1, <4>3, Zenon DEF Undoes
        <3>4. k \in 0 .. h
            BY <1>4
        <3> QED BY <2>6, <3>1, <3>2, <3>3, <3>4, Zenon
    <2>10. Recording'
        BY <1>2, <1>6, <2>1, <2>7, <2>8, <2>9, Zenon DEF Recording
    <2> QED BY <2>1, <2>3, <2>10, Zenon
<1>9. DOMAIN state'.weightDiffs \subseteq 0 .. h /\ DOMAIN state'.keyDiffs = DOMAIN state'.weightDiffs
    BY <1>5, <1>6, <1>7, Zenon
<1> QED BY <1>2, <1>7, <1>8, <1>9, Zenon DEF h, H

\* An accept: a proposal notes a set above the committed ones, a decision
\* commits.
LEMMA AcceptInnerHistory ==
    ASSUME LayersInv, HistoryInv, AcceptInner
    PROVE  HistoryInv'
<1> DEFINE b == accept.block
<1>1. accept.pc = "inner" /\ Accept(b) /\ UNCHANGED <<view, cache, reader>>
    BY Zenon DEF AcceptInner, Notify, managerVars
<1>2. CASE AcceptProposal(b)
    <2>1. /\ lastAccepted' = b /\ UNCHANGED <<state, departures>>
          /\ setAt' = With(setAt, Height[b], ValidatorSet(state.current))
          /\ Kind[b] = "proposal"
        BY <1>2, Zenon DEF AcceptProposal
    <2>2. lastAccepted = state.lastAccepted
        <3>1. accept.pc \in Before
            BY <1>1, Zenon DEF Before, Written
        <3>2. Kind[lastAccepted] # "proposal"
            BY <2>1, <3>1, AcceptingFacts, Zenon DEF Options
        <3> QED BY <3>2, Zenon DEF LayersInv, DiskTip
    <2>3. state.height \in Nat /\ Height[b] = state.height + 1
        BY <1>1, <2>2, CommitHeight, Zenon
    <2>4. Height[b] \notin 0 .. state.height
        BY <2>3
    <2>5. /\ DOMAIN setAt' = {Height[b]} \cup DOMAIN setAt
          /\ setAt'[Height[b]] = ValidatorSet(state.current)
          /\ \A k \in DOMAIN setAt \ {Height[b]} : setAt'[k] = setAt[k]
        BY <2>1, Zenon DEF With
    <2>6. HistoryTypes'
        BY <1>1, <2>1, Zenon DEF HistoryInv, HistoryTypes
    <2>7. ASSUME "orphaned" \notin departures PROVE Recording' /\ Answers'
        <3>1. Recording /\ Answers
            BY <2>7, Zenon DEF HistoryInv
        <3>2. ASSUME NEW k \in 0 .. state.height PROVE k \in DOMAIN setAt /\ setAt'[k] = setAt[k]
            BY <2>4, <2>5, <3>1, Zenon DEF Recording
        <3>3. /\ 0 .. state.height \subseteq DOMAIN setAt' /\ state.height \in 0 .. state.height
              /\ \A h \in 1 .. state.height : h \in 0 .. state.height /\ h - 1 \in 0 .. state.height
            <4>1. 0 .. state.height \subseteq DOMAIN setAt'
                BY <2>5, <3>2, Zenon
            <4> QED BY <2>3, <4>1
        <3>4. \A h \in 1 .. state.height : Undoes(h)'
            BY <2>1, <3>1, <3>2, <3>3, Zenon DEF Recording, Undoes
        <3>5. Recording'
            BY <2>1, <2>5, <3>1, <3>2, <3>3, <3>4, Zenon DEF Recording
        <3>6. Answers'
            BY <1>1, <2>1, <3>1, <3>2, Zenon DEF Answers, Recorded
        <3> QED BY <3>5, <3>6, Zenon
    <2> QED BY <2>1, <2>6, <2>7, Zenon DEF HistoryInv
<1>3. CASE AcceptDecision(b)
    <2>1. /\ state'.height = Height[state'.lastAccepted] /\ state.height < state'.height
          /\ DOMAIN state'.weightDiffs \subseteq 0 .. state'.height
          /\ DOMAIN state'.keyDiffs = DOMAIN state'.weightDiffs
          /\ "orphaned" \notin departures' =>
                /\ "orphaned" \notin departures /\ Recording'
                /\ \A k \in 0 .. state.height : setAt'[k] = setAt[k]
        BY <1>1, <1>3, CommitRecords, Zenon
    <2>2. HistoryTypes'
        BY <1>1, <2>1, Zenon DEF HistoryInv, HistoryTypes
    <2>3. 0 .. state.height \subseteq 0 .. state'.height
        <3>1. state.height \in Nat /\ state'.height \in Nat
            <4>1. state'.height = Height[b]
                BY <1>3, Zenon DEF AcceptDecision, CommitAccept
            <4> QED BY <1>1, <4>1, CommitHeight, Zenon
        <3> QED BY <2>1, <3>1
    <2>4. "orphaned" \notin departures' => Answers'
        BY <1>1, <2>1, <2>3, Zenon DEF HistoryInv, Answers, Recorded
    <2> QED BY <2>1, <2>2, <2>4, Zenon DEF HistoryInv
<1> QED BY <1>1, <1>2, <1>3, Zenon DEF Accept

\* Steps of the manager: the chain stands still.
ChainVars == <<state, lastAccepted, setAt, departures>>

\* Such a step keeps the records and has to keep the answers.
LEMMA ManagerHistory ==
    ASSUME HistoryInv, UNCHANGED ChainVars,
           reader' = [pc |-> reader'.pc, target |-> reader'.target, view |-> reader'.view],
           reader'.pc = "missed" => reader'.target \in Nat,
           \E U : cache' \in Seq(U),
           "orphaned" \notin departures /\ Recording /\ Answers => Answers'
    PROVE  HistoryInv'
<1>1. UNCHANGED <<state, lastAccepted, setAt, departures>>
    BY Zenon DEF ChainVars
<1>2. HistoryTypes'
    BY <1>1, Zenon DEF HistoryInv, HistoryTypes
<1>3. Recording => Recording'
    BY <1>1, Zenon DEF Recording, Undoes
<1> QED BY <1>1, <1>2, <1>3, Zenon DEF HistoryInv

\* The snapshot taken of the current state.
LEMMA CaptureRecorded ==
    ASSUME LayersInv, HistoryTypes, Recording
    PROVE  Recorded(Capture(state).height, Capture(state).sets)
<1>1. Capture(state).height = state.height /\ Capture(state).sets = ValidatorSet(state.current)
    BY Zenon DEF Capture
<1>2. state.height \in Nat
    BY TreeFacts, Zenon DEF HistoryTypes, LayersInv, StateTypes
<1>3. state.height \in 0 .. state.height
    BY <1>2
<1> QED BY <1>1, <1>3, Zenon DEF Recorded, Recording

\* The entries of the shorter and of the longer cache.
LEMMA WithoutEntries ==
    ASSUME NEW U, cache \in Seq(U), NEW i \in DOMAIN cache
    PROVE  /\ Without(i) \in Seq(U)
           /\ \A j \in DOMAIN Without(i) : \E k \in DOMAIN cache : Without(i)[j] = cache[k]
<1> DEFINE s == SubSeq(cache, 1, i - 1)
           t == SubSeq(cache, i + 1, Len(cache))
<1>1. i \in 1 .. Len(cache) /\ Len(cache) \in Nat /\ DOMAIN cache = 1 .. Len(cache)
    OBVIOUS
<1>2. /\ s \in Seq(U) /\ Len(s) = i - 1 /\ \A j \in 1 .. Len(s) : s[j] = cache[j]
    BY <1>1
<1>3. /\ t \in Seq(U) /\ Len(t) = Len(cache) - i
      /\ \A j \in 1 .. Len(t) : t[j] = cache[i + j]
    BY <1>1
<1> HIDE DEF s, t
<1>4. /\ s \o t \in Seq(U) /\ Len(s \o t) = Len(s) + Len(t)
      /\ \A j \in 1 .. Len(s \o t) : (s \o t)[j] = IF j <= Len(s) THEN s[j] ELSE t[j - Len(s)]
    <2>1. s \in Seq(U) /\ t \in Seq(U)
        BY <1>2, <1>3, Zenon
    <2>2. s \o t \in Seq(U)
        BY <2>1
    <2>3. Len(s \o t) = Len(s) + Len(t)
        BY <2>1
    <2>4. \A j \in 1 .. Len(s) + Len(t) : (s \o t)[j] = IF j <= Len(s) THEN s[j] ELSE t[j - Len(s)]
        BY <2>1
    <2> QED BY <2>2, <2>3, <2>4, Zenon
<1>5. ASSUME NEW j \in 1 .. Len(s \o t) PROVE \E k \in DOMAIN cache : (s \o t)[j] = cache[k]
    <2>1. CASE j <= Len(s)
        <3>1. j \in 1 .. Len(s) /\ j \in DOMAIN cache
            BY <1>1, <1>2, <2>1
        <3> QED BY <1>2, <1>4, <2>1, <3>1, Zenon
    <2>2. CASE ~(j <= Len(s))
        <3>1. j - Len(s) \in 1 .. Len(t) /\ i + (j - Len(s)) \in DOMAIN cache
            <4>1. /\ Len(s) = i - 1 /\ Len(t) = Len(cache) - i
                  /\ j \in 1 .. (Len(s) + Len(t)) /\ i \in 1 .. Len(cache) /\ Len(cache) \in Nat
                BY <1>1, <1>2, <1>3, <1>4, Zenon
            <4>2. j \in 1 .. ((i - 1) + (Len(cache) - i)) /\ ~(j <= i - 1)
                BY <2>2, <4>1, Zenon
            <4>3. j - (i - 1) \in 1 .. Len(cache) - i /\ i + (j - (i - 1)) \in 1 .. Len(cache)
                BY <1>1, <4>2
            <4>4. j - Len(s) \in 1 .. Len(t) /\ i + (j - Len(s)) \in 1 .. Len(cache)
                BY <4>1, <4>3, Zenon
            <4> QED BY <1>1, <4>4, Zenon
        <3> QED BY <1>3, <1>4, <2>2, <3>1, Zenon
    <2> QED BY <2>1, <2>2, Zenon
<1>6. DOMAIN (s \o t) = 1 .. Len(s \o t)
    BY <1>4
<1> QED BY <1>4, <1>5, <1>6, Zenon DEF Without, s, t

LEMMA AppendEntries ==
    ASSUME NEW U, NEW s \in Seq(U), NEW e
    PROVE  /\ Append(s, e) \in Seq(U \cup {e})
           /\ \A j \in DOMAIN Append(s, e) :
                 Append(s, e)[j] = e \/ (j \in DOMAIN s /\ Append(s, e)[j] = s[j])
OBVIOUS

LEMMA TailEntries ==
    ASSUME NEW U, NEW s \in Seq(U), s # <<>>
    PROVE  /\ Tail(s) \in Seq(U)
           /\ \A j \in DOMAIN Tail(s) : j + 1 \in DOMAIN s /\ Tail(s)[j] = s[j + 1]
OBVIOUS

\* Every entry of s is a cached one, or e.
OldOr(s, e) == \A j \in DOMAIN s : s[j] = e \/ \E k \in DOMAIN cache : s[j] = cache[k]

LEMMA AppendedEntries ==
    ASSUME NEW U, NEW s \in Seq(U), NEW e,
           \A j \in DOMAIN s : \E k \in DOMAIN cache : s[j] = cache[k]
    PROVE  Append(s, e) \in Seq(U \cup {e}) /\ OldOr(Append(s, e), e)
<1> DEFINE c == Append(s, e)
<1>1. /\ c \in Seq(U \cup {e})
      /\ \A j \in DOMAIN c : c[j] = e \/ (j \in DOMAIN s /\ c[j] = s[j])
    BY AppendEntries
<1> HIDE DEF c
<1>2. \A j \in DOMAIN c : c[j] = e \/ \E k \in DOMAIN cache : c[j] = cache[k]
    BY <1>1, Zenon
<1>3. c \in Seq(U \cup {e}) /\ OldOr(c, e)
    BY <1>1, <1>2, Zenon DEF OldOr
<1> QED BY <1>3, Zenon DEF c

\* A hit moves an entry to the end.
LEMMA LookupHistory ==
    ASSUME HistoryInv, NEW target \in Nat, Lookup(target), UNCHANGED ChainVars
    PROVE  HistoryInv'
<1> DEFINE i == Min(At(target))
<1>0. PICK U : cache \in Seq(U)
    BY Zenon DEF HistoryInv, HistoryTypes
<1>1. reader = [pc |-> reader.pc, target |-> reader.target, view |-> reader.view]
    BY Zenon DEF HistoryInv, HistoryTypes
<1>2. CASE At(target) # {}
    <2>1. cache' = Append(Without(i), cache[i]) /\ UNCHANGED <<view, reader>> /\ reader.pc = "idle"
        BY <1>2, Zenon DEF Lookup
    <2>2. i \in DOMAIN cache
        <3>1. At(target) \in SUBSET Nat /\ At(target) \subseteq DOMAIN cache
            BY <1>0 DEF At
        <3> QED BY <1>2, <3>1, SmallestIn, Zenon
    <2> HIDE DEF i
    <2>3. /\ Without(i) \in Seq(U)
          /\ \A j \in DOMAIN Without(i) : \E k \in DOMAIN cache : Without(i)[j] = cache[k]
        BY <1>0, <2>2, WithoutEntries, Zenon
    <2>4. /\ cache' \in Seq(U \cup {cache[i]})
          /\ \A j \in DOMAIN cache' : \E k \in DOMAIN cache : cache'[j] = cache[k]
        <3>1. /\ Append(Without(i), cache[i]) \in Seq(U \cup {cache[i]})
              /\ OldOr(Append(Without(i), cache[i]), cache[i])
            BY <2>3, AppendedEntries, Zenon
        <3> QED BY <2>1, <2>2, <3>1, Zenon DEF OldOr
    <2>5. Answers => Answers'
        BY <2>1, <2>4, Zenon DEF Answers, Recorded, ChainVars
    <2>6. reader'.pc # "missed"
        BY <2>1, Zenon
    <2> QED BY <1>1, <2>1, <2>4, <2>5, <2>6, ManagerHistory, Zenon
<1>3. CASE At(target) = {}
    <2>1. /\ reader' = [reader EXCEPT !.pc = "missed", !.target = target]
          /\ UNCHANGED <<view, cache>>
        BY <1>3, Zenon DEF Lookup
    <2>2. reader' = [pc |-> "missed", target |-> target, view |-> reader.view]
        BY <1>1, <2>1, Zenon
    <2>3. /\ reader' = [pc |-> reader'.pc, target |-> reader'.target, view |-> reader'.view]
          /\ reader'.pc = "missed" /\ reader'.target = target
        BY <2>2, Zenon
    <2>4. Answers => Answers'
        BY <2>1, <2>3, Zenon DEF Answers, Recorded, ChainVars
    <2> QED BY <1>0, <2>1, <2>3, <2>4, ManagerHistory, Zenon
<1> QED BY <1>2, <1>3, Zenon

\* A call takes the view it loads with it.
LEMMA LoadViewHistory ==
    ASSUME LayersInv, HistoryInv, LoadView, UNCHANGED ChainVars
    PROVE  HistoryInv'
<1>0. PICK U : cache \in Seq(U)
    BY Zenon DEF HistoryInv, HistoryTypes
<1>1. /\ reader = [pc |-> reader.pc, target |-> reader.target, view |-> reader.view]
      /\ reader.pc = "missed" /\ reader.target \in Nat /\ UNCHANGED <<view, cache>>
    BY Zenon DEF HistoryInv, HistoryTypes, LoadView
<1>2. CASE reader.target > view.height
    <2>1. reader' = [pc |-> "idle", target |-> None, view |-> None]
        BY <1>2, Zenon DEF LoadView, idleReader
    <2>2. /\ reader' = [pc |-> reader'.pc, target |-> reader'.target, view |-> reader'.view]
          /\ reader'.pc = "idle"
        BY <2>1, Zenon
    <2>3. Answers => Answers'
        BY <1>1, <2>2, Zenon DEF Answers, Recorded, ChainVars
    <2> QED BY <1>0, <1>1, <2>2, <2>3, ManagerHistory, Zenon
<1>3. CASE ~(reader.target > view.height)
    <2>1. reader' = [reader EXCEPT !.pc = "loaded", !.view = view]
        BY <1>3, Zenon DEF LoadView
    <2>2. reader' = [pc |-> "loaded", target |-> reader.target, view |-> view]
        BY <1>1, <2>1, Zenon
    <2>3. /\ reader' = [pc |-> reader'.pc, target |-> reader'.target, view |-> reader'.view]
          /\ reader'.pc = "loaded" /\ reader'.target = reader.target /\ reader'.view = view
        BY <2>2, Zenon
    <2>4. ASSUME Answers PROVE Answers'
        <3>1. view.height \in 0 .. state.height /\ state.height \in Nat
            BY <2>4, TreeFacts, Zenon
               DEF Answers, Recorded, HistoryInv, HistoryTypes, LayersInv, StateTypes
        <3>2. reader.target \in 0 .. view.height
            BY <1>1, <1>3, <3>1
        <3> QED BY <1>1, <2>3, <2>4, <3>2, Zenon DEF Answers, Recorded, ChainVars
    <2> QED BY <1>0, <1>1, <2>3, <2>4, ManagerHistory, Zenon
<1> QED BY <1>2, <1>3, Zenon

\* The call that loaded a recorded view caches a recorded set.
LEMMA AnswerHistory ==
    ASSUME LayersInv, HistoryInv, Answer, UNCHANGED ChainVars
    PROVE  HistoryInv'
<1> DEFINE t == reader.target
           e == [height |-> t, set |-> MakeValidatorSet(reader.view, t)]
<1>0. PICK U : cache \in Seq(U)
    BY Zenon DEF HistoryInv, HistoryTypes
<1>1. /\ reader.pc = "loaded" /\ cache' = Put(t, MakeValidatorSet(reader.view, t))
      /\ reader' = [pc |-> "idle", target |-> None, view |-> None] /\ UNCHANGED view
    BY Zenon DEF Answer, idleReader
<1>2. /\ reader' = [pc |-> reader'.pc, target |-> reader'.target, view |-> reader'.view]
      /\ reader'.pc = "idle"
    BY <1>1, Zenon
<1>3. /\ \E V : cache' \in Seq(V)
      /\ OldOr(cache', e)
    <2> HIDE DEF e, t
    <2>1. \/ \E i \in DOMAIN cache : cache' = Append(Without(i), e)
          \/ cache # <<>> /\ cache' = Append(Tail(cache), e)
          \/ cache' = Append(cache, e)
        <3>1. CASE At(t) # {}
            <4>1. At(t) \in SUBSET Nat /\ At(t) \subseteq DOMAIN cache
                BY <1>0 DEF At
            <4> QED BY <1>1, <3>1, <4>1, SmallestIn, Zenon DEF Put, e
        <3>2. CASE At(t) = {} /\ Len(cache) >= CacheCapacity
            <4>1. cache # <<>>
                BY <3>2, ManagerAssumption
            <4> QED BY <1>1, <3>2, <4>1, Zenon DEF Put, e
        <3>3. CASE At(t) = {} /\ ~(Len(cache) >= CacheCapacity)
            BY <1>1, <3>3, Zenon DEF Put, e
        <3> QED BY <3>1, <3>2, <3>3, Zenon
    <2>2. ASSUME NEW i \in DOMAIN cache, cache' = Append(Without(i), e)
          PROVE  cache' \in Seq(U \cup {e}) /\ OldOr(cache', e)
        <3>1. /\ Without(i) \in Seq(U)
              /\ \A j \in DOMAIN Without(i) : \E k \in DOMAIN cache : Without(i)[j] = cache[k]
            BY <1>0, WithoutEntries, Zenon
        <3>9. Append(Without(i), e) \in Seq(U \cup {e}) /\ OldOr(Append(Without(i), e), e)
            BY <3>1, AppendedEntries, Zenon
        <3> QED BY <2>2, <3>9, Zenon
    <2>3. ASSUME cache # <<>>, cache' = Append(Tail(cache), e)
          PROVE  cache' \in Seq(U \cup {e}) /\ OldOr(cache', e)
        <3>1. /\ Tail(cache) \in Seq(U)
              /\ \A j \in DOMAIN Tail(cache) :
                    j + 1 \in DOMAIN cache /\ Tail(cache)[j] = cache[j + 1]
            BY <1>0, <2>3, TailEntries, Zenon
        <3>2. \A j \in DOMAIN Tail(cache) : \E k \in DOMAIN cache : Tail(cache)[j] = cache[k]
            BY <3>1, Zenon
        <3>9. Append(Tail(cache), e) \in Seq(U \cup {e}) /\ OldOr(Append(Tail(cache), e), e)
            BY <3>1, <3>2, AppendedEntries, Zenon
        <3> QED BY <2>3, <3>9, Zenon
    <2>4. ASSUME cache' = Append(cache, e)
          PROVE  cache' \in Seq(U \cup {e}) /\ OldOr(cache', e)
        <3>1. \A j \in DOMAIN cache : \E k \in DOMAIN cache : cache[j] = cache[k]
            BY Zenon
        <3>9. Append(cache, e) \in Seq(U \cup {e}) /\ OldOr(Append(cache, e), e)
            BY <1>0, <3>1, AppendedEntries, Zenon
        <3> QED BY <2>4, <3>9, Zenon
    <2> QED BY <2>1, <2>2, <2>3, <2>4, Zenon
<1>4. ASSUME "orphaned" \notin departures, Recording, Answers PROVE Answers'
    <2>1. /\ reader.view.height \in 0 .. state.height /\ t \in 0 .. reader.view.height
          /\ reader.view.sets = setAt[reader.view.height] /\ state.height \in Nat
        BY <1>1, <1>4, TreeFacts, Zenon
           DEF Answers, Recorded, HistoryInv, HistoryTypes, LayersInv, StateTypes
    <2>2. Chronicle
        BY <1>4, <2>1, Zenon DEF Chronicle, Recording, HistoryInv, HistoryTypes
    <2>3. MakeValidatorSet(reader.view, t) = setAt[t]
        BY <2>1, <2>2, RebuiltIsRecorded, Zenon
    <2>4. t \in 0 .. state.height
        BY <2>1
    <2>5. Recorded(e.height, e.set)
        BY <2>3, <2>4, Zenon DEF Recorded
    <2> HIDE DEF e
    <2>6. \A j \in DOMAIN cache' : Recorded(cache'[j].height, cache'[j].set)
        BY <1>3, <1>4, <2>5, Zenon DEF Answers, OldOr
    <2> QED BY <1>1, <1>2, <1>4, <2>6, Zenon DEF Answers, Recorded, ChainVars
<1> QED BY <1>2, <1>3, <1>4, ManagerHistory, Zenon

\* A snapshot and an empty cache, with an idle reader or the same one.
LEMMA RefreshHistory ==
    ASSUME LayersInv, HistoryInv, RefreshView \/ RefreshCaches
    PROVE  HistoryInv'
<1>0. PICK U : cache \in Seq(U)
    BY Zenon DEF HistoryInv, HistoryTypes
<1>1. /\ UNCHANGED ChainVars /\ UNCHANGED reader
      /\ view' = view \/ view' = Capture(state)
      /\ cache' = cache \/ cache' = <<>>
    BY Zenon DEF RefreshView, RefreshCaches, StoreView, ClearCaches, ChainVars,
                 platformVars
<1>2. \E V : cache' \in Seq(V)
    <2>1. <<>> \in Seq(U)
        OBVIOUS
    <2> QED BY <1>0, <1>1, <2>1, Zenon
<1>3. /\ reader' = [pc |-> reader'.pc, target |-> reader'.target, view |-> reader'.view]
      /\ reader'.pc = "missed" => reader'.target \in Nat
    BY <1>1, Zenon DEF HistoryInv, HistoryTypes
<1>4. ASSUME Recording, Answers PROVE Answers'
    <2>1. Recorded(view'.height, view'.sets)
        BY <1>1, <1>4, CaptureRecorded, Zenon DEF Answers, HistoryInv
    <2>2. \A i \in DOMAIN cache' : i \in DOMAIN cache /\ cache'[i] = cache[i]
        BY <1>1
    <2> QED BY <1>1, <1>4, <2>1, <2>2, Zenon DEF Answers, Recorded, ChainVars
<1> QED BY <1>1, <1>2, <1>3, <1>4, ManagerHistory, Zenon

\* A restart takes a snapshot of what is on disk.
LEMMA ReloadHistory ==
    ASSUME LayersInv, HistoryInv, CrashRestart
    PROVE  HistoryInv'
<1>1. /\ lastAccepted' = state.lastAccepted /\ UNCHANGED <<state, setAt, departures>>
      /\ view' = Capture(state) /\ cache' = <<>>
      /\ reader' = [pc |-> "idle", target |-> None, view |-> None]
    BY Zenon DEF CrashRestart, Reload, ManagerReload, idleReader
<1>2. /\ reader' = [pc |-> reader'.pc, target |-> reader'.target, view |-> reader'.view]
      /\ reader'.pc = "idle"
    BY <1>1, Zenon
<1>3. cache' \in Seq({}) /\ DOMAIN cache' = {}
    BY <1>1
<1>4. HistoryTypes'
    BY <1>1, <1>2, <1>3, Zenon DEF HistoryInv, HistoryTypes
<1>5. ASSUME Recording PROVE Recording' /\ Answers'
    <2>1. Recording'
        BY <1>1, <1>5, Zenon DEF Recording, Undoes
    <2>2. Recorded(view'.height, view'.sets)
        BY <1>1, <1>5, CaptureRecorded, Zenon DEF HistoryInv
    <2> QED BY <1>1, <1>2, <1>3, <2>1, <2>2, Zenon DEF Answers, Recorded
<1> QED BY <1>1, <1>4, <1>5, Zenon DEF HistoryInv

\* Every step keeps the invariant.
LEMMA HistoryStep ==
    ASSUME LayersInv, HistoryInv, [Next]_vars
    PROVE  HistoryInv'
<1>1. ASSUME UNCHANGED <<ChainVars, view, cache, reader>> PROVE HistoryInv'
    BY <1>1, Zenon DEF ChainVars, HistoryInv, HistoryTypes, Recording, Answers,
                       Recorded, Undoes
<1>2. ASSUME NEW b \in Blocks \ {Genesis}, Issue(b) PROVE HistoryInv'
    <2>1. UNCHANGED managerVars /\ (VerifyStandard(b) \/ VerifyProposal(b) \/ VerifyOption(b))
        BY <1>2, Zenon DEF Issue, Verify
    <2>2. UNCHANGED ChainVars
        BY <2>1, Zenon DEF VerifyStandard, VerifyProposal, VerifyOption, ChainVars
    <2> QED BY <1>1, <2>1, <2>2, Zenon DEF managerVars
<1>3. ASSUME NEW b \in Blocks \ {Genesis}, Decide(b) PROVE HistoryInv'
    BY <1>1, <1>3, Zenon DEF Decide, platformVars, managerVars, ChainVars
<1>4. CASE SetLastAccepted \/ PutBlock \/ SetForkHeight \/ SetBlockIdAtHeight
    BY <1>1, <1>4, Zenon DEF SetLastAccepted, PutBlock, SetForkHeight,
                             SetBlockIdAtHeight, Write,
       platformVars, managerVars, ChainVars
<1>5. CASE AcceptInner
    BY <1>5, AcceptInnerHistory, Zenon
<1>6. CASE RefreshView \/ RefreshCaches
    BY <1>6, RefreshHistory, Zenon
<1>7. CASE RejectConflicts
    BY <1>1, <1>7, Zenon DEF RejectConflicts, Reject, managerVars, ChainVars
<1>8. CASE CrashRestart
    BY <1>8, ReloadHistory, Zenon
<1>9. CASE Query
    <2>1. UNCHANGED ChainVars
        BY <1>9, Zenon DEF Query, platformVars, ChainVars
    <2>2. ASSUME NEW h \in {Height[b] : b \in Blocks}, Lookup(h) PROVE HistoryInv'
        <3>1. \A b \in Blocks : Height[b] \in Nat
            BY TreeFacts, Zenon
        <3>2. h \in Nat
            BY <3>1, Zenon
        <3> QED BY <2>1, <2>2, <3>2, LookupHistory, Zenon
    <2>3. CASE LoadView
        BY <2>1, <2>3, LoadViewHistory, Zenon
    <2>4. CASE Answer
        BY <2>1, <2>4, AnswerHistory, Zenon
    <2>5. CASE ReadOldest \/ AnswerMinimum \/ Expire
        BY <1>1, <2>1, <2>5, Zenon DEF ReadOldest, AnswerMinimum, Expire
    <2> QED BY <1>9, <2>2, <2>3, <2>4, <2>5, Zenon DEF Query
<1>10. CASE UNCHANGED vars
    BY <1>1, <1>10, Zenon DEF vars, platformVars, managerVars, ChainVars
<1> QED BY <1>2, <1>3, <1>4, <1>5, <1>6, <1>7, <1>8, <1>9, <1>10, Zenon DEF Next

\* At genesis the stakers are the recorded set.
LEMMA InitHistory ==
    ASSUME ProposerInit
    PROVE  HistoryInv
<1>1. /\ state.current = RootStakers /\ state.weightDiffs = <<>> /\ state.keyDiffs = <<>>
      /\ state.lastAccepted = Genesis /\ state.height = 0 /\ lastAccepted = Genesis
      /\ setAt = [h \in {0} |-> ValidatorSet(RootStakers)]
      /\ view = Capture(state) /\ cache = <<>>
      /\ reader = [pc |-> "idle", target |-> None, view |-> None]
    BY Zenon DEF ProposerInit, Init, ManagerInit, idleReader
<1>2. /\ reader = [pc |-> reader.pc, target |-> reader.target, view |-> reader.view]
      /\ reader.pc = "idle"
    BY <1>1, Zenon
<1>3. cache \in Seq({}) /\ DOMAIN cache = {}
    BY <1>1
<1>4. DOMAIN state.weightDiffs = {} /\ DOMAIN state.keyDiffs = {}
    BY <1>1
<1>5. HistoryTypes
    BY <1>1, <1>2, <1>3, <1>4, PlatformAssumption, Zenon DEF HistoryTypes
<1>6. RootStakers \in SUBSET Stakers /\ NoOrphans(RootStakers)
    BY PlatformAssumption, Zenon DEF NoOrphans, Validates
<1>7. 0 .. state.height = {0} /\ 1 .. state.height = {}
    BY <1>1
<1>8. DOMAIN setAt = {0} /\ setAt[0] = ValidatorSet(RootStakers)
    BY <1>1, Zenon
<1>9. Recording
    BY <1>1, <1>6, <1>7, <1>8, SetFacts, Zenon DEF Recording
<1>10. view.height = 0 /\ view.sets = ValidatorSet(RootStakers)
    BY <1>1, Zenon DEF Capture
<1>11. Answers
    BY <1>2, <1>3, <1>7, <1>8, <1>10, Zenon DEF Answers, Recorded
<1> QED BY <1>5, <1>9, <1>11, Zenon DEF HistoryInv

\* The set answered for a past height, rebuilt from the diffs or cached, is
\* the one that was current at that height, whatever was accepted between a
\* call's steps, after any number of crashes.
THEOREM PastSetsExact == Spec => []HistoricalSetsExact
<1>1. Spec => []LayersInv
    BY InitLayers, LayersStep, PTL DEF Spec
<1>2. LayersInv /\ HistoryInv /\ [Next]_vars => HistoryInv'
    BY HistoryStep, Zenon
<1>3. ProposerInit => HistoryInv
    BY InitHistory, Zenon
<1>4. LayersInv /\ HistoryInv => HistoricalSetsExact
    BY HistoryExact, Zenon
<1> QED BY <1>1, <1>2, <1>3, <1>4, PTL DEF Spec

=============================================================================
