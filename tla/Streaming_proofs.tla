-------------------------- MODULE Streaming_proofs --------------------------
(***************************************************************************)
(* Streaming execution for every set of times and gas amounts, every Tau,  *)
(* queue capacity and height bound: what a node has settled is determined  *)
(* by the accepted chain, never moves back, and every execution result is  *)
(* the one a replay gives, across any interleaving of the engine with the  *)
(* executor, dropped blocks, stopped loops and restarts.                   *)
(*                                                                         *)
(* The invariant has three layers.  ChainIsReplay: the done field of the   *)
(* chain is the fold of AfterBlock, and times do not decrease.             *)
(* ExecutorInv: the executor's pointer, cached clock and results are a     *)
(* prefix of that fold.  SettledInv: LastSettled is the answer of one      *)
(* accepted block, has executed, and bounds the critical map.              *)
(***************************************************************************)
EXTENDS Streaming, SequenceTheorems, WellFoundedInduction, TLAPS

DoneAt(h) == IF h = 0 THEN 0 ELSE chain[h].done

ChainIsReplay ==
    /\ Len(chain) = accepted
    /\ \A h \in 1..accepted :
         chain[h].done = AfterBlock(DoneAt(h - 1), chain[h].time, chain[h].gas)
    /\ \A h \in 1..accepted : \A k \in 1..h : chain[k].time <= chain[h].time

ExecutorInv ==
    /\ \A i \in 1..Len(queue) : queue[i] <= accepted
    /\ engine = "enqueue" => accepted >= 1
    /\ executor.at \in {"running", "marked"} => executor.block \in 1..accepted
    /\ executor.at = "marked" => executor.block = lastExecuted + 1
    /\ lastExecuted <= accepted
    /\ clock = DoneAt(lastExecuted)
    /\ DOMAIN results =
         1..(IF executor.at = "marked" THEN lastExecuted + 1 ELSE lastExecuted)
    /\ \A h \in DOMAIN results : results[h] = chain[h].done

SettledInv ==
    /\ \E h \in 0..accepted : settled = SettledBy(h)
    /\ settled = 0 \/ settled \in DOMAIN results
    /\ critical = settled..accepted

IInv == TypeOK /\ ChainIsReplay /\ ExecutorInv /\ SettledInv

-----------------------------------------------------------------------------
(* Highest                                                                 *)

\* A non-empty set of heights bounded by n has a highest element: the least
\* of the distances to n is reached.
LEMMA HighestIn ==
    ASSUME NEW n \in Nat, NEW S, S \subseteq 0..n, S # {}
    PROVE  Highest(S) \in S /\ \A j \in S : j <= Highest(S)
<1> DEFINE T == {n - k : k \in S}
<1>1. T \subseteq Nat /\ T # {}
  <2>1. \A k \in S : n - k \in Nat
    OBVIOUS
  <2>2. PICK k \in S : TRUE
    BY Zenon
  <2>3. n - k \in T
    BY Zenon
  <2>4. QED BY <2>1, <2>3, Zenon
<1>2. PICK x \in T : \A y \in T : ~(<<y, x>> \in OpToRel(<, Nat))
  BY <1>1, WFMin, NatLessThanWellFounded, Zenon
<1>3. OpToRel(<, Nat) = {ss \in Nat \X Nat : ss[1] < ss[2]}
  BY Zenon DEF OpToRel
<1>4. \A y \in T : ~(<<y, x>> \in {ss \in Nat \X Nat : ss[1] < ss[2]})
  BY <1>2, <1>3, Zenon
<1>5. ASSUME NEW y \in T
      PROVE  x <= y
  <2>1. x \in Nat /\ y \in Nat
    BY <1>1, Zenon
  <2>2. ~(<<y, x>> \in {ss \in Nat \X Nat : ss[1] < ss[2]})
    BY <1>4, Zenon
  <2>3. QED BY <2>1, <2>2
<1>6. PICK k \in S : x = n - k
  BY Zenon
<1>7. \A j \in S : j <= k
  <2>1. SUFFICES ASSUME NEW j \in S
                 PROVE  j <= k
    BY Zenon
  <2>2. n - j \in T
    BY Zenon
  <2>3. n - k <= n - j
    BY <1>5, <1>6, <2>2, Zenon
  <2>4. j \in 0..n /\ k \in 0..n
    BY Zenon
  <2>5. QED BY <2>3, <2>4
<1>8. QED BY <1>7, ZenonT(20) DEF Highest

\* The highest element is the one that bounds the set.
LEMMA HighestIs ==
    ASSUME NEW n \in Nat, NEW S, S \subseteq 0..n,
           NEW k \in S, \A j \in S : j <= k
    PROVE  Highest(S) = k
<1>1. Highest(S) \in S /\ \A j \in S : j <= Highest(S)
  <2>1. S # {}
    BY Zenon
  <2>2. QED BY <2>1, HighestIn, Zenon
<1>2. Highest(S) <= k /\ k <= Highest(S)
  BY <1>1, Zenon
<1>3. Highest(S) \in 0..n /\ k \in 0..n
  BY <1>1, Zenon
<1>4. QED BY <1>2, <1>3

-----------------------------------------------------------------------------
(* What the accepted chain determines                                      *)

\* The blocks of the chain are records of naturals.
LEMMA ChainBlocks ==
    ASSUME TypeOK, ChainIsReplay, NEW h \in 1..accepted
    PROVE  /\ chain[h] \in [time : Nat, gas : Nat, done : Nat]
           /\ chain[h].time <= chain[h].done
<1>1. accepted \in Nat /\ Len(chain) = accepted
  BY DEF TypeOK, ChainIsReplay
<1>a. \A i \in 1..accepted : chain[i] \in [time : Nat, gas : Nat, done : Nat]
  BY <1>1, ElementOfSeq, Zenon DEF TypeOK
<1>2. chain[h] \in [time : Nat, gas : Nat, done : Nat]
  BY <1>a, Zenon
<1>3. DoneAt(h - 1) \in Nat
  <2>1. CASE h = 1
    BY <2>1 DEF DoneAt
  <2>2. CASE h # 1
    <3>1. h - 1 \in 1..accepted
      BY <1>1, <2>2
    <3>2. chain[h - 1] \in [time : Nat, gas : Nat, done : Nat]
      BY <1>a, <3>1, Zenon
    <3>3. QED BY <3>1, <3>2, Zenon DEF DoneAt
  <2>3. QED BY <2>1, <2>2, Zenon
<1>4. chain[h].done = AfterBlock(DoneAt(h - 1), chain[h].time, chain[h].gas)
  BY Zenon DEF ChainIsReplay
<1>5. QED BY <1>2, <1>3, <1>4 DEF AfterBlock, Larger

\* The block h settles is an ancestor whose replay ended Tau before it.
LEMMA SettledByIs ==
    ASSUME NEW h \in Nat \ {0}
    PROVE  /\ SettledBy(h) \in 0..(h - 1)
           /\ SettledBy(h) = 0
                \/ chain[SettledBy(h)].done <= SettleAt(chain[h].time)
           /\ \A k \in 0..(h - 1) :
                (k = 0 \/ chain[k].done <= SettleAt(chain[h].time))
                  => k <= SettledBy(h)
<1> DEFINE S == {k \in 0..(h - 1) :
                   k = 0 \/ chain[k].done <= SettleAt(chain[h].time)}
<1>1. h - 1 \in Nat /\ S \subseteq 0..(h - 1) /\ 0 \in S
  OBVIOUS
<1>2. Highest(S) \in S /\ \A j \in S : j <= Highest(S)
  BY <1>1, HighestIn, Zenon
<1>3. SettledBy(h) = Highest(S)
  BY Zenon DEF SettledBy
<1>4. QED BY <1>2, <1>3, Zenon

\* A block h settles an ancestor of itself or block 0.
LEMMA SettledByBelow ==
    ASSUME NEW h \in Nat
    PROVE  SettledBy(h) \in 0..h
<1>1. CASE h = 0
  BY <1>1 DEF SettledBy
<1>2. CASE h # 0
  BY <1>2, SettledByIs
<1>3. QED BY <1>1, <1>2, Zenon

\* Times do not decrease along the chain, so neither does the bound Tau below.
LEMMA SettleAtMonotone ==
    ASSUME NEW s \in Nat, NEW t \in Nat, s <= t
    PROVE  SettleAt(s) \in Nat /\ SettleAt(t) \in Nat /\ SettleAt(s) <= SettleAt(t)
BY StreamingAssumption DEF SettleAt

\* What a block settles depends on the chain up to it and nothing later.
LEMMA SettledByStable ==
    ASSUME NEW h \in Nat, \A k \in 1..h : chain'[k] = chain[k]
    PROVE  SettledBy(h)' = SettledBy(h)
<1>1. CASE h = 0
  BY <1>1, Zenon DEF SettledBy
<1>2. CASE h # 0
  <2> DEFINE S == {k \in 0..(h - 1) :
                     k = 0 \/ chain[k].done <= SettleAt(chain[h].time)}
             T == {k \in 0..(h - 1) :
                     k = 0 \/ chain'[k].done <= SettleAt(chain'[h].time)}
  <2>1. chain'[h] = chain[h]
    BY <1>2
  <2>2. \A k \in 0..(h - 1) : k # 0 => chain'[k] = chain[k]
    OBVIOUS
  <2>3. S = T
    BY <2>1, <2>2, Zenon
  <2>4. SettledBy(h) = Highest(S) /\ SettledBy(h)' = Highest(T)
    BY <1>2, Zenon DEF SettledBy, SettleAt, Highest
  <2>5. QED BY <2>3, <2>4, Zenon
<1>3. QED BY <1>1, <1>2, Zenon

-----------------------------------------------------------------------------
(* Accept                                                                  *)

\* Appending a block extends the replay and keeps the blocks below it.
LEMMA AcceptChain ==
    ASSUME TypeOK, ChainIsReplay, NEW time \in Times, NEW gas \in Gas,
           Accept(time, gas)
    PROVE  /\ ChainIsReplay'
           /\ chain' \in Seq([time : Nat, gas : Nat, done : Nat])
           /\ \A k \in 1..accepted : chain'[k] = chain[k]
           /\ chain'[accepted + 1].time = time
<1> DEFINE before == IF accepted = 0 THEN 0 ELSE chain[accepted].done
           block  == [time |-> time, gas |-> gas,
                      done |-> AfterBlock(before, time, gas)]
<1>1. /\ chain' = Append(chain, block)
      /\ accepted' = accepted + 1
      /\ accepted > 0 => time >= chain[accepted].time
  BY Zenon DEF Accept
<1>2. accepted \in Nat /\ Len(chain) = accepted /\ time \in Nat /\ gas \in Nat
  BY StreamingAssumption DEF TypeOK, ChainIsReplay
<1>3. before \in Nat
  BY <1>2, ChainBlocks
<1>4. block \in [time : Nat, gas : Nat, done : Nat]
  BY <1>2, <1>3 DEF AfterBlock, Larger
<1>5. chain \in Seq([time : Nat, gas : Nat, done : Nat])
  BY Zenon DEF TypeOK
<1> HIDE DEF block
<1>6. /\ chain' \in Seq([time : Nat, gas : Nat, done : Nat])
      /\ Len(chain') = accepted + 1
      /\ \A k \in 1..accepted : chain'[k] = chain[k]
      /\ chain'[accepted + 1] = block
  BY <1>1, <1>2, <1>4, <1>5, AppendProperties
<1>7. block.time = time /\ block.gas = gas /\ block.done = AfterBlock(before, time, gas)
  BY Zenon DEF block
<1>8. \A h \in 1..accepted + 1 :
        chain'[h].done = AfterBlock(IF h - 1 = 0 THEN 0 ELSE chain'[h - 1].done,
                                    chain'[h].time, chain'[h].gas)
  <2>1. ASSUME NEW h \in 1..accepted
        PROVE  chain'[h].done = AfterBlock(IF h - 1 = 0 THEN 0 ELSE chain'[h - 1].done,
                                           chain'[h].time, chain'[h].gas)
    <3>1. chain[h].done = AfterBlock(DoneAt(h - 1), chain[h].time, chain[h].gas)
      BY Zenon DEF ChainIsReplay
    <3>2. chain'[h] = chain[h]
      BY <1>6, Zenon
    <3>3. h - 1 # 0 => chain'[h - 1] = chain[h - 1]
      <4>1. h - 1 # 0 => h - 1 \in 1..accepted
        BY <1>2
      <4>2. QED BY <1>6, <4>1, Zenon
    <3>4. QED BY <3>1, <3>2, <3>3, Zenon DEF DoneAt
  <2>2. (accepted + 1) - 1 = accepted
    BY <1>2
  <2>3. before = IF accepted = 0 THEN 0 ELSE chain'[accepted].done
    BY <1>2, <1>6
  <2>4. chain'[accepted + 1].done =
          AfterBlock(IF (accepted + 1) - 1 = 0 THEN 0 ELSE chain'[(accepted + 1) - 1].done,
                     chain'[accepted + 1].time, chain'[accepted + 1].gas)
    BY <1>6, <1>7, <2>2, <2>3, Zenon
  <2>5. \A h \in 1..accepted + 1 : h \in 1..accepted \/ h = accepted + 1
    BY <1>2
  <2>6. QED BY <2>1, <2>4, <2>5, Zenon
<1>9. \A h \in 1..accepted + 1 : \A k \in 1..h : chain'[k].time <= chain'[h].time
  <2>1. SUFFICES ASSUME NEW h \in 1..accepted + 1, NEW k \in 1..h
                 PROVE  chain'[k].time <= chain'[h].time
    BY Zenon
  <2>2. CASE h \in 1..accepted
    <3>1. k \in 1..accepted
      BY <1>2, <2>2
    <3>2. chain[k].time <= chain[h].time
      BY <2>2, Zenon DEF ChainIsReplay
    <3>3. QED BY <1>6, <2>2, <3>1, <3>2, Zenon
  <2>3. CASE h = accepted + 1 /\ k = h
    BY <1>2, <1>6, <1>7, <2>3
  <2>4. CASE h = accepted + 1 /\ k # h
    <3>1. k \in 1..accepted /\ accepted \in 1..accepted /\ k \in 1..accepted
      BY <1>2, <2>4
    <3>2. chain[k].time <= chain[accepted].time
      BY <3>1, Zenon DEF ChainIsReplay
    <3>3. chain[k].time \in Nat /\ chain[accepted].time \in Nat
      BY <3>1, ChainBlocks, Zenon
    <3>4. chain[accepted].time <= time
      BY <1>1, <1>2, <3>1
    <3>5. chain[k].time <= time
      BY <1>2, <3>2, <3>3, <3>4
    <3>6. chain'[k] = chain[k] /\ chain'[h].time = time
      BY <1>6, <1>7, <2>4, <3>1, Zenon
    <3>7. QED BY <3>5, <3>6, Zenon
  <2>5. QED BY <1>2, <2>2, <2>3, <2>4
<1>10. ChainIsReplay'
  BY <1>1, <1>6, <1>8, <1>9, Zenon DEF ChainIsReplay, DoneAt, AfterBlock, Larger
<1>11. QED BY <1>6, <1>7, <1>10, Zenon

\* accept settles what the accepted block settles by the chain alone, or
\* leaves LastSettled where it was because execution lags.
LEMMA AcceptSettles ==
    ASSUME IInv, NEW time \in Times, NEW gas \in Gas, Accept(time, gas)
    PROVE  /\ settled' = settled \/ settled' = SettledBy(accepted)'
           /\ settled' \in settled..accepted
           /\ settled' = 0 \/ settled' \in DOMAIN results
<1> DEFINE at    == SettleAt(time)
           stops == Stops(at, accepted)
           k     == Highest(stops)
<1> USE DEF IInv
<1>1. /\ accepted \in Nat /\ settled \in Nat /\ settled <= accepted
      /\ time \in Nat /\ at \in Nat
  <2>1. PICK h \in 0..accepted : settled = SettledBy(h)
    BY Zenon DEF SettledInv
  <2>2. accepted \in Nat /\ time \in Nat
    BY StreamingAssumption DEF TypeOK
  <2>3. settled \in 0..h
    BY <2>1, <2>2, SettledByBelow
  <2>4. at \in Nat
    BY <2>2, SettleAtMonotone
  <2>5. QED BY <2>1, <2>2, <2>3, <2>4
<1>2. settled' = Settle(at, accepted)
  BY Zenon DEF Accept
<1>3. CASE stops # {} /\ Executed(k)
  <2>1. stops \subseteq 0..accepted
    BY <1>1 DEF Stops
  <2>2. k \in stops /\ \A j \in stops : j <= k
    BY <1>1, <1>3, <2>1, HighestIn, Zenon
  <2>3. k \in settled..accepted /\ StopsAt(k, at)
    BY <2>2, Zenon DEF Stops
  <2>4. settled' = k
    BY <1>1, <1>2, <1>3, <2>3 DEF Settle, Larger
  <2>5. k = 0 \/ (k \in DOMAIN results /\ k \in 1..accepted /\ chain[k].done <= at)
    BY <1>1, <1>3, <2>3 DEF StopsAt, Executed, ExecutorInv
  <2>6. /\ chain'[accepted + 1].time = time
        /\ \A j \in 1..accepted : chain'[j] = chain[j]
    BY AcceptChain, Zenon
  <2>7. ASSUME NEW j \in 0..accepted, j = 0 \/ chain[j].done <= at
        PROVE  j <= k
    <3>1. CASE j <= settled
      BY <1>1, <2>3, <3>1
    <3>2. CASE j > settled
      <4>1. j \in 1..accepted /\ j \in settled..accepted /\ j # 0
        BY <1>1, <3>2
      <4>2. /\ chain[j].time <= chain[j].done
            /\ chain[j].time \in Nat /\ chain[j].done \in Nat
        BY <4>1, ChainBlocks, Zenon
      <4>3. chain[j].done <= at /\ chain[j].time <= at
        BY <1>1, <2>7, <4>1, <4>2
      <4>4. Executed(j) => results[j] = chain[j].done
        BY <4>1, Zenon DEF Executed, ExecutorInv
      <4>5. j \in stops
        BY <4>1, <4>3, <4>4, Zenon DEF Stops, StopsAt
      <4>6. QED BY <2>2, <4>5, Zenon
    <3>3. QED BY <1>1, <3>1, <3>2
  <2> DEFINE S == {j \in 0..((accepted + 1) - 1) :
                     j = 0 \/ chain'[j].done <= SettleAt(chain'[accepted + 1].time)}
  <2>8. S = {j \in 0..accepted : j = 0 \/ chain[j].done <= at}
    <3>1. (accepted + 1) - 1 = accepted
      BY <1>1
    <3>2. \A j \in 0..accepted : j # 0 => chain'[j] = chain[j]
      BY <1>1, <2>6
    <3>3. QED BY <2>6, <3>1, <3>2, Zenon
  <2>9. k \in S /\ \A j \in S : j <= k
    BY <1>1, <2>3, <2>5, <2>7, <2>8
  <2>10. Highest(S) = k
    <3>1. S \subseteq 0..accepted
      BY <2>8, Zenon
    <3>2. QED BY <1>1, <2>9, <3>1, HighestIs, Zenon
  <2>11. SettledBy(accepted)' = Highest(S)
    <3>1. accepted' = accepted + 1 /\ accepted + 1 # 0
      BY <1>1 DEF Accept
    <3>2. SettledBy(accepted)' =
            Highest({j \in 0..(accepted' - 1) :
                       j = 0 \/ chain'[j].done <= SettleAt(chain'[accepted'].time)})
      BY <3>1, Zenon DEF SettledBy, SettleAt, Highest
    <3>3. QED BY <3>1, <3>2, Zenon
  <2>12. QED BY <2>3, <2>4, <2>5, <2>10, <2>11, Zenon
<1>4. CASE ~(stops # {} /\ Executed(k))
  <2>1. settled' = settled
    BY <1>2, <1>4, Zenon DEF Settle
  <2>2. QED BY <1>1, <2>1 DEF SettledInv
<1>5. QED BY <1>3, <1>4, Zenon

\* accept preserves the invariant.
LEMMA AcceptInv ==
    ASSUME IInv, NEW time \in Times, NEW gas \in Gas, Accept(time, gas)
    PROVE  IInv' /\ settled' >= settled
<1> USE DEF IInv
<1>1. /\ accepted \in Nat /\ accepted < MaxHeight /\ accepted' = accepted + 1
      /\ settled \in Nat /\ MaxHeight \in Nat
      /\ lastExecuted \in Nat /\ lastExecuted <= accepted
  BY StreamingAssumption DEF TypeOK, Accept, ExecutorInv
<1>2. /\ ChainIsReplay'
      /\ chain' \in Seq([time : Nat, gas : Nat, done : Nat])
      /\ \A k \in 1..accepted : chain'[k] = chain[k]
  BY AcceptChain, Zenon
<1>3. /\ settled' = settled \/ settled' = SettledBy(accepted)'
      /\ settled' \in settled..accepted
      /\ settled' = 0 \/ settled' \in DOMAIN results
  BY AcceptSettles, Zenon
<1>4. UNCHANGED <<results, lastExecuted, clock, queue, executor, phase, woken,
                  dropped, crashes>>
      /\ engine' = "enqueue"
  BY Zenon DEF Accept
<1>5. critical' = settled'..accepted'
  <2>1. critical' = {h \in settled..accepted : h >= settled'} \cup {accepted + 1}
    BY Zenon DEF Accept, SettledInv
  <2>2. QED BY <1>1, <1>3, <2>1
<1>6. TypeOK'
  <2>1. accepted' \in 0..MaxHeight /\ settled' \in 0..MaxHeight
    BY <1>1, <1>3
  <2>2. critical' \subseteq 0..MaxHeight
    BY <1>1, <1>5, <2>1
  <2>3. QED BY <1>2, <1>4, <2>1, <2>2, Zenon DEF TypeOK
<1>7. ExecutorInv'
  <2>1. DoneAt(lastExecuted)' = DoneAt(lastExecuted)
    BY <1>1, <1>2, <1>4 DEF DoneAt
  <2>2. clock' = DoneAt(lastExecuted)'
    BY <1>4, <2>1, Zenon DEF ExecutorInv
  <2>3. \A i \in 1..Len(queue) : queue[i] <= accepted + 1
    <3>1. ASSUME NEW i \in 1..Len(queue)
          PROVE  queue[i] <= accepted + 1
      <4>1. queue[i] <= accepted
        BY Zenon DEF ExecutorInv
      <4>2. queue[i] \in 1..MaxHeight
        BY ElementOfSeq, Zenon DEF TypeOK
      <4>3. QED BY <1>1, <4>1, <4>2
    <3>2. QED BY <3>1, Zenon
  <2>4. \A h \in DOMAIN results : results[h] = chain'[h].done
    <3>1. ASSUME NEW h \in DOMAIN results
          PROVE  h \in 1..accepted
      BY <1>1, <3>1 DEF ExecutorInv
    <3>2. QED BY <1>2, <3>1, Zenon DEF ExecutorInv
  <2>5. executor.at \in {"running", "marked"} => executor.block \in 1..(accepted + 1)
    BY <1>1 DEF ExecutorInv
  <2>6. QED
    BY <1>1, <1>4, <2>2, <2>3, <2>4, <2>5 DEF ExecutorInv
<1>8. SettledInv'
  <2>1. \E h \in 0..accepted' : settled' = SettledBy(h)'
    <3>1. CASE settled' = settled
      <4>1. PICK h \in 0..accepted : settled = SettledBy(h)
        BY Zenon DEF SettledInv
      <4>2. h \in Nat /\ \A k \in 1..h : chain'[k] = chain[k]
        BY <1>1, <1>2
      <4>3. SettledBy(h)' = SettledBy(h)
        BY <4>2, SettledByStable, Zenon
      <4>4. QED BY <1>1, <3>1, <4>1, <4>3
    <3>2. CASE settled' = SettledBy(accepted)'
      <4>1. accepted' \in 0..accepted'
        BY <1>1
      <4>2. QED BY <3>2, <4>1, Zenon
    <3>3. QED BY <1>3, <3>1, <3>2, Zenon
  <2>2. QED BY <1>3, <1>4, <1>5, <2>1, Zenon DEF SettledInv
<1>9. settled' >= settled
  BY <1>1, <1>3
<1>10. QED BY <1>2, <1>6, <1>7, <1>8, <1>9, Zenon

-----------------------------------------------------------------------------
(* Recover                                                                 *)

\* The floor recover computes is what the head settles by the chain alone.
LEMMA RecoveredFloorIs ==
    ASSUME TypeOK, ChainIsReplay
    PROVE  RecoveredFloor(accepted) = SettledBy(accepted)
<1>1. CASE accepted = 0
  BY <1>1, Zenon DEF RecoveredFloor, SettledBy
<1>2. CASE accepted # 0
  <2> DEFINE at == SettleAt(chain[accepted].time)
             S  == {k \in 0..(accepted - 1) :
                      k = 0 \/ (chain[k].time <= at /\ chain[k].done <= at)}
             T  == {k \in 0..(accepted - 1) : k = 0 \/ chain[k].done <= at}
  <2>1. accepted \in Nat
    BY DEF TypeOK
  <2>2. at \in Nat
    <3>1. accepted \in 1..accepted
      BY <1>2, <2>1
    <3>2. chain[accepted].time \in Nat
      BY <3>1, ChainBlocks, Zenon
    <3>3. QED BY <3>2, SettleAtMonotone
  <2>3. ASSUME NEW k \in 0..(accepted - 1), k # 0, chain[k].done <= at
        PROVE  chain[k].time <= at
    <3>1. k \in 1..accepted
      BY <2>1, <2>3
    <3>2. /\ chain[k].time <= chain[k].done
          /\ chain[k].time \in Nat /\ chain[k].done \in Nat
      BY <3>1, ChainBlocks, Zenon
    <3>3. QED BY <2>2, <2>3, <3>2
  <2>4. S = T
    BY <2>3, Zenon
  <2>5. RecoveredFloor(accepted) = Highest(S) /\ SettledBy(accepted) = Highest(T)
    BY <1>2, ZenonT(20) DEF RecoveredFloor, SettledBy
  <2>6. QED BY <2>4, <2>5, Zenon
<1>3. QED BY <1>1, <1>2, Zenon

\* Whatever an accepted block settled, the head settles at least as much.
LEMMA HeadSettlesMost ==
    ASSUME TypeOK, ChainIsReplay, NEW h \in 0..accepted
    PROVE  SettledBy(h) <= SettledBy(accepted)
<1>1. accepted \in Nat /\ h \in Nat
  BY DEF TypeOK
<1>2. CASE h = 0
  <2>1. SettledBy(h) = 0 /\ SettledBy(accepted) \in 0..accepted
    BY <1>1, <1>2, SettledByBelow, Zenon DEF SettledBy
  <2>2. QED BY <1>1, <2>1
<1>3. CASE h # 0
  <2>1. h \in 1..accepted /\ accepted \in 1..accepted
    BY <1>1, <1>3
  <2>2. chain[h].time <= chain[accepted].time
    BY <2>1, Zenon DEF ChainIsReplay
  <2>3. chain[h].time \in Nat /\ chain[accepted].time \in Nat
    BY <2>1, ChainBlocks, Zenon
  <2>4. /\ SettleAt(chain[h].time) <= SettleAt(chain[accepted].time)
        /\ SettleAt(chain[h].time) \in Nat /\ SettleAt(chain[accepted].time) \in Nat
    BY <2>2, <2>3, SettleAtMonotone, Zenon
  <2> DEFINE k == SettledBy(h)
  <2>5. /\ k \in 0..(h - 1)
        /\ k = 0 \/ chain[k].done <= SettleAt(chain[h].time)
    BY <1>1, <1>3, SettledByIs, Zenon
  <2>6. k \in 0..(accepted - 1)
    BY <1>1, <2>1, <2>5
  <2>7. k = 0 \/ chain[k].done <= SettleAt(chain[accepted].time)
    <3>1. CASE k # 0
      <4>1. k \in 1..accepted
        BY <1>1, <2>6, <3>1
      <4>2. chain[k].done \in Nat
        BY <4>1, ChainBlocks, Zenon
      <4>3. QED BY <2>4, <2>5, <3>1, <4>2
    <3>2. QED BY <3>1, Zenon
  <2>8. accepted \in Nat \ {0}
    BY <1>1, <2>1
  <2>9. QED BY <2>6, <2>7, <2>8, SettledByIs, Zenon
<1>4. QED BY <1>2, <1>3, Zenon

\* A restart re-establishes the invariant from the chain, and what had
\* settled is settled again.
LEMMA RecoverInv ==
    ASSUME IInv, Recover
    PROVE  IInv' /\ settled' >= settled
<1> USE DEF IInv
<1>1. /\ accepted \in Nat /\ accepted <= MaxHeight /\ Len(chain) = accepted
      /\ MaxHeight \in Nat
  BY StreamingAssumption DEF TypeOK, ChainIsReplay
<1>2. /\ settled' = SettledBy(accepted)
      /\ accepted' = accepted /\ chain' = chain /\ lastExecuted' = accepted
      /\ critical' = settled'..accepted
      /\ results' = [h \in 1..accepted |-> chain[h].done]
  BY <1>1, RecoveredFloorIs, Zenon DEF Recover
<1>3. settled' \in 0..accepted
  BY <1>1, <1>2, SettledByBelow, Zenon
<1>4. settled' >= settled
  <2>1. PICK h \in 0..accepted : settled = SettledBy(h)
    BY Zenon DEF SettledInv
  <2>2. SettledBy(h) <= SettledBy(accepted)
    BY HeadSettlesMost, Zenon
  <2>3. settled \in Nat
    BY DEF TypeOK
  <2>4. QED BY <1>1, <1>2, <1>3, <2>1, <2>2, <2>3, Zenon
<1>5. clock' = DoneAt(lastExecuted)'
  BY <1>1, <1>2, Zenon DEF Recover, DoneAt
<1>6. DoneAt(accepted) \in Nat
  BY <1>1, ChainBlocks DEF DoneAt
<1>7. TypeOK'
  <2>1. /\ accepted' \in 0..MaxHeight /\ settled' \in 0..MaxHeight
        /\ lastExecuted' \in 0..MaxHeight
    BY <1>1, <1>2, <1>3
  <2>2. critical' \subseteq 0..MaxHeight
    BY <1>1, <1>2, <2>1
  <2>3. clock' \in Nat
    BY <1>2, <1>5, <1>6, Zenon DEF DoneAt
  <2>4. DOMAIN results' \subseteq 1..MaxHeight
    BY <1>1, <1>2
  <2>5. executor' = Idle /\ queue' = <<>> /\ phase' = "initializing"
        /\ engine' = "idle" /\ woken' = FALSE /\ dropped' = {} /\ crashes' = crashes
    BY Zenon DEF Recover
  <2>6. executor' \in [at : {"idle", "running", "marked", "stopped"},
                       block : 0..MaxHeight]
    BY <1>1, <2>5 DEF Idle
  <2>7. queue' \in Seq(1..MaxHeight) /\ woken' \in BOOLEAN
    <3>1. queue' \in Seq(1..MaxHeight)
      BY <2>5
    <3>2. woken' \in BOOLEAN
      BY <2>5, Zenon
    <3>3. QED BY <3>1, <3>2, Zenon
  <2>8. phase' \in {"initializing", "bootstrapping", "normal", "down"}
        /\ engine' \in {"idle", "enqueue", "check", "recheck", "parked", "late",
                        "rearmed", "failed"}
    BY <2>5, Zenon
  <2>9. crashes' \in 0..MaxCrashes /\ dropped' \subseteq 1..MaxHeight
    BY <2>5, Zenon DEF TypeOK
  <2>10. chain' \in Seq([time : Nat, gas : Nat, done : Nat])
    BY <1>2, Zenon DEF TypeOK
  <2>11. QED
    BY <2>1, <2>2, <2>3, <2>4, <2>6, <2>7, <2>8, <2>9, <2>10, Zenon DEF TypeOK
<1>8. ChainIsReplay'
  BY <1>2, Zenon DEF ChainIsReplay, DoneAt
<1>9. ExecutorInv'
  <2>1. executor'.at = "idle" /\ queue' = <<>> /\ engine' = "idle"
    BY Zenon DEF Recover, Idle
  <2>2. QED BY <1>1, <1>2, <1>5, <2>1 DEF ExecutorInv
<1>10. SettledInv'
  <2>1. SettledBy(accepted)' = SettledBy(accepted)
    BY <1>2 DEF SettledBy, Highest, SettleAt
  <2>2. accepted' \in 0..accepted'
    BY <1>1, <1>2
  <2>3. \E h \in 0..accepted' : settled' = SettledBy(h)'
    <3>1. settled' = SettledBy(accepted)'
      BY <1>2, <2>1, Zenon
    <3>2. QED BY <2>2, <3>1, Zenon
  <2>4. settled' = 0 \/ settled' \in DOMAIN results'
    BY <1>1, <1>2, <1>3
  <2>5. QED BY <1>2, <2>3, <2>4, Zenon DEF SettledInv
<1>11. QED BY <1>4, <1>7, <1>8, <1>9, <1>10, Zenon

-----------------------------------------------------------------------------
(* The executor and the rest of the engine                                 *)

\* A step that keeps the chain, the frontiers and the results settles the same.
LEMMA SettledKept ==
    ASSUME SettledInv, UNCHANGED <<chain, accepted, settled, critical>>,
           DOMAIN results \subseteq DOMAIN results'
    PROVE  SettledInv'
<1>1. \A h : SettledBy(h)' = SettledBy(h)
  BY DEF SettledBy, Highest, SettleAt
<1>2. QED BY <1>1, Zenon DEF SettledInv

\* The executor and engine steps keep the chain and so the replay.
LEMMA ReplayKept ==
    ASSUME ChainIsReplay, UNCHANGED <<chain, accepted>>
    PROVE  ChainIsReplay' /\ \A h : DoneAt(h)' = DoneAt(h)
BY Zenon DEF ChainIsReplay, DoneAt

\* The engine's own steps inside accept, set_state and a crash change no
\* frontier and no result.
LEMMA EngineInv ==
    ASSUME IInv,
           SetState \/ CheckAndArm \/ Recheck \/ Wake \/ WaitTimesOut \/ Rearm \/ Crash
    PROVE  IInv'
<1> USE DEF IInv
<1>1. /\ UNCHANGED <<chain, results, lastExecuted, clock, queue, executor,
                     accepted, settled, critical, dropped>>
      /\ engine' # "enqueue" \/ engine' = engine
  BY Zenon DEF SetState, CheckAndArm, Recheck, Wake, WaitTimesOut, Rearm, Crash,
         engineOnly, volatile
<1>2. /\ phase' \in {"initializing", "bootstrapping", "normal", "down"}
      /\ engine' \in {"idle", "enqueue", "check", "recheck", "parked", "late",
                      "rearmed", "failed"}
  BY Zenon DEF SetState, CheckAndArm, Recheck, Wake, WaitTimesOut, Rearm, Crash,
         engineOnly, volatile, TypeOK
<1>3. crashes' \in 0..MaxCrashes
  BY StreamingAssumption
     DEF SetState, CheckAndArm, Recheck, Wake, WaitTimesOut, Rearm, Crash,
         engineOnly, volatile, TypeOK
<1>4. woken' \in BOOLEAN
  <2>1. woken' = woken \/ woken' = FALSE
    BY Zenon DEF SetState, CheckAndArm, Recheck, Wake, WaitTimesOut, Rearm, Crash,
           volatile
  <2>2. QED BY <2>1, Zenon DEF TypeOK
<1>5. TypeOK'
  BY <1>1, <1>2, <1>3, <1>4, Zenon DEF TypeOK
<1>6. ChainIsReplay' /\ \A h : DoneAt(h)' = DoneAt(h)
  BY <1>1, ReplayKept, Zenon
<1>7. ExecutorInv'
  BY <1>1, <1>6, Zenon DEF ExecutorInv, DoneAt
<1>8. SettledInv'
  BY <1>1, SettledKept, Zenon
<1>9. QED BY <1>5, <1>6, <1>7, <1>8, Zenon

\* Sending the accepted block to the executor preserves the invariant.
LEMMA EnqueueInv ==
    ASSUME IInv, Enqueue
    PROVE  IInv'
<1> USE DEF IInv
<1>1. /\ UNCHANGED <<chain, results, lastExecuted, clock, executor, accepted,
                     settled, critical, phase, woken, dropped, crashes>>
      /\ engine = "enqueue"
      /\ engine' \in {"idle", "check", "failed"}
      /\ queue' = queue \/ queue' = Append(queue, accepted)
  BY Zenon DEF Enqueue
<1>2. accepted \in 1..MaxHeight
  BY <1>1, StreamingAssumption DEF TypeOK, ExecutorInv
<1>3. queue \in Seq(1..MaxHeight)
  BY Zenon DEF TypeOK
<1>4. /\ queue' \in Seq(1..MaxHeight)
      /\ \A i \in 1..Len(queue') : queue'[i] <= accepted
  <2>1. CASE queue' = queue
    BY <1>3, <2>1, Zenon DEF ExecutorInv
  <2>2. CASE queue' = Append(queue, accepted)
    <3>1. /\ queue' \in Seq(1..MaxHeight) /\ Len(queue') = Len(queue) + 1
          /\ \A i \in 1..Len(queue) : queue'[i] = queue[i]
          /\ queue'[Len(queue) + 1] = accepted
      BY <1>2, <1>3, <2>2, AppendProperties
    <3>2. Len(queue) \in Nat /\ accepted \in Nat
      BY <1>2, <1>3
    <3>3. ASSUME NEW i \in 1..Len(queue')
          PROVE  queue'[i] <= accepted
      <4>1. CASE i = Len(queue) + 1
        BY <3>1, <3>2, <4>1
      <4>2. CASE i # Len(queue) + 1
        <5>1. i \in 1..Len(queue)
          BY <3>1, <3>2, <4>2
        <5>2. QED BY <3>1, <5>1, Zenon DEF ExecutorInv
      <4>3. QED BY <4>1, <4>2, Zenon
    <3>4. QED BY <3>1, <3>3, Zenon
  <2>3. QED BY <1>1, <2>1, <2>2, Zenon
<1>5. TypeOK'
  BY <1>1, <1>4, Zenon DEF TypeOK
<1>6. ChainIsReplay' /\ \A h : DoneAt(h)' = DoneAt(h)
  BY <1>1, ReplayKept, Zenon
<1>7. ExecutorInv'
  BY <1>1, <1>4, <1>6, Zenon DEF ExecutorInv, DoneAt
<1>8. SettledInv'
  BY <1>1, SettledKept, Zenon
<1>9. QED BY <1>5, <1>6, <1>7, <1>8, Zenon

\* Taking a block off the channel, dropping it on a recoverable error and
\* ending the loop change no result and no pointer.
LEMMA DrainInv ==
    ASSUME IInv, Dequeue \/ FailBlock \/ StopLoop
    PROVE  IInv'
<1> USE DEF IInv
<1>1. /\ UNCHANGED <<chain, results, lastExecuted, clock, accepted, settled,
                     critical, phase, engine, woken, crashes>>
      /\ executor.at # "marked"
  BY Zenon DEF Dequeue, FailBlock, StopLoop, executorOnly
<1>2. MaxHeight \in Nat /\ accepted \in Nat /\ queue \in Seq(1..MaxHeight)
  BY StreamingAssumption DEF TypeOK
<1>3. /\ queue' \in Seq(1..MaxHeight)
      /\ \A i \in 1..Len(queue') : queue'[i] <= accepted
      /\ executor' \in [at : {"idle", "running", "marked", "stopped"},
                        block : 0..MaxHeight]
      /\ executor'.at # "marked"
      /\ executor'.at = "running" => executor'.block \in 1..accepted
  <2>1. CASE Dequeue
    <3>1. /\ queue # <<>> /\ queue' = Tail(queue)
          /\ executor' = [at |-> "running", block |-> Head(queue)]
      BY <2>1, Zenon DEF Dequeue
    <3>2. /\ Len(queue) \in Nat \ {0} /\ Head(queue) = queue[1]
          /\ queue' \in Seq(1..MaxHeight) /\ Len(queue') = Len(queue) - 1
          /\ \A i \in 1..Len(queue') : queue'[i] = queue[i + 1]
      BY <1>2, <3>1, HeadTailProperties, EmptySeq
    <3>3. queue[1] \in 1..MaxHeight /\ queue[1] <= accepted
      BY <1>2, <3>2, ElementOfSeq DEF ExecutorInv
    <3>4. \A i \in 1..Len(queue') : queue'[i] <= accepted
      <4>1. \A i \in 1..Len(queue') : i + 1 \in 1..Len(queue)
        BY <3>2
      <4>2. \A i \in 1..Len(queue) : queue[i] <= accepted
        BY Zenon DEF ExecutorInv
      <4>3. QED BY <3>2, <4>1, <4>2, Zenon
    <3>5. executor'.block \in 1..accepted
      BY <1>2, <3>1, <3>2, <3>3
    <3>6. QED BY <1>2, <3>1, <3>2, <3>3, <3>4, <3>5
  <2>2. CASE FailBlock
    BY <1>2, <2>2 DEF FailBlock, Idle, ExecutorInv
  <2>3. CASE StopLoop
    <3>1. queue' = <<>> /\ executor' = [at |-> "stopped", block |-> 0]
      BY <2>3, Zenon DEF StopLoop, Stop
    <3>2. QED BY <1>2, <3>1
  <2>4. QED BY <2>1, <2>2, <2>3, Zenon
<1>a. dropped' \subseteq 1..MaxHeight
  <2>1. CASE FailBlock
    <3>1. executor.block \in 1..MaxHeight /\ dropped' = dropped \cup {executor.block}
      BY <1>2, <2>1 DEF FailBlock, ExecutorInv, TypeOK
    <3>2. QED BY <3>1, Zenon DEF TypeOK
  <2>2. CASE Dequeue \/ StopLoop
    BY <2>2, Zenon DEF Dequeue, StopLoop, TypeOK
  <2>3. QED BY <2>1, <2>2, Zenon
<1>4. TypeOK'
  BY <1>1, <1>3, <1>a, Zenon DEF TypeOK
<1>5. ChainIsReplay' /\ \A h : DoneAt(h)' = DoneAt(h)
  BY <1>1, ReplayKept, Zenon
<1>6. ExecutorInv'
  BY <1>1, <1>3, <1>5, Zenon DEF ExecutorInv, DoneAt
<1>7. SettledInv'
  BY <1>1, SettledKept, Zenon
<1>8. QED BY <1>4, <1>5, <1>6, <1>7, Zenon

\* Executing a block writes the result a replay gives, because the parent
\* check makes the cached clock that of the parent.
LEMMA ExecuteStepInv ==
    ASSUME IInv, ExecuteStep
    PROVE  IInv'
<1> USE DEF IInv
<1> DEFINE h   == executor.block
           end == AfterBlock(clock, chain[h].time, chain[h].gas)
<1>1. /\ UNCHANGED <<chain, lastExecuted, clock, accepted, settled, critical,
                     phase, engine, woken, dropped, crashes>>
      /\ executor.at = "running"
  BY Zenon DEF ExecuteStep, executorOnly
<1>2. /\ MaxHeight \in Nat /\ accepted \in Nat /\ accepted <= MaxHeight
      /\ lastExecuted \in Nat /\ h \in 1..accepted
      /\ DOMAIN results = 1..lastExecuted
  BY <1>1, StreamingAssumption DEF TypeOK, ExecutorInv
<1>3. ChainIsReplay' /\ \A k : DoneAt(k)' = DoneAt(k)
  BY <1>1, ReplayKept, Zenon
<1>4. CASE ParentIsExecuted(h)
  <2>1. /\ results' = [k \in DOMAIN results \cup {h} |->
                          IF k = h THEN end ELSE results[k]]
        /\ executor' = [executor EXCEPT !.at = "marked"]
        /\ queue' = queue
    BY <1>4, Zenon DEF ExecuteStep
  <2>2. h = lastExecuted + 1
    BY <1>4, Zenon DEF ParentIsExecuted
  <2>3. end = chain[h].done
    <3>1. chain[h].done = AfterBlock(DoneAt(h - 1), chain[h].time, chain[h].gas)
      BY <1>2, Zenon DEF ChainIsReplay
    <3>2. h - 1 = lastExecuted
      BY <1>2, <2>2
    <3>3. clock = DoneAt(lastExecuted)
      BY Zenon DEF ExecutorInv
    <3>4. QED BY <3>1, <3>2, <3>3, Zenon
  <2>4. DOMAIN results' = 1..(lastExecuted + 1)
    BY <1>2, <2>1, <2>2
  <2>5. \A k \in DOMAIN results' : results'[k] = chain[k].done
    BY <2>1, <2>3, Zenon DEF ExecutorInv
  <2>6. /\ executor' \in [at : {"idle", "running", "marked", "stopped"},
                          block : 0..MaxHeight]
        /\ executor'.at = "marked" /\ executor'.block = h
    BY <2>1, Zenon DEF TypeOK
  <2>7. TypeOK'
    <3>1. DOMAIN results' \subseteq 1..MaxHeight
      BY <1>2, <2>2, <2>4
    <3>2. QED BY <1>1, <2>1, <2>6, <3>1, Zenon DEF TypeOK
  <2>8. ExecutorInv'
    BY <1>1, <1>2, <1>3, <2>1, <2>2, <2>4, <2>5, <2>6, Zenon DEF ExecutorInv, DoneAt
  <2>9. SettledInv'
    BY <1>1, <2>1, SettledKept, Zenon
  <2>10. QED BY <1>3, <2>7, <2>8, <2>9, Zenon
<1>5. CASE ~ParentIsExecuted(h)
  <2>1. /\ results' = results /\ queue' = <<>>
        /\ executor' = [at |-> "stopped", block |-> 0]
    BY <1>5, Zenon DEF ExecuteStep, Stop
  <2>2. TypeOK'
    <3>1. queue' \in Seq(1..MaxHeight)
      BY <2>1
    <3>2. executor' \in [at : {"idle", "running", "marked", "stopped"},
                         block : 0..MaxHeight]
      BY <1>2, <2>1
    <3>3. QED BY <1>1, <2>1, <3>1, <3>2, Zenon DEF TypeOK
  <2>3. ExecutorInv'
    <3>1. executor'.at = "stopped" /\ Len(queue') = 0
      BY <2>1, Zenon
    <3>2. QED BY <1>1, <1>2, <1>3, <2>1, <3>1 DEF ExecutorInv, DoneAt
  <2>4. SettledInv'
    BY <1>1, <2>1, SettledKept, Zenon
  <2>5. QED BY <1>3, <2>2, <2>3, <2>4, Zenon
<1>6. QED BY <1>4, <1>5, Zenon

\* Publishing a result moves the pointer and the cached clock together.
LEMMA PublishInv ==
    ASSUME IInv, Publish
    PROVE  IInv'
<1> USE DEF IInv
<1>1. /\ UNCHANGED <<chain, results, queue, accepted, settled, critical, phase,
                     engine, dropped, crashes>>
      /\ executor.at = "marked" /\ executor' = Idle
      /\ lastExecuted' = executor.block /\ clock' = results[executor.block]
  BY Zenon DEF Publish, executorOnly
<1>2. /\ MaxHeight \in Nat /\ accepted \in Nat /\ accepted <= MaxHeight
      /\ lastExecuted \in Nat /\ executor.block \in 1..accepted
      /\ executor.block = lastExecuted + 1
      /\ DOMAIN results = 1..(lastExecuted + 1)
  BY <1>1, StreamingAssumption DEF TypeOK, ExecutorInv
<1>3. ChainIsReplay' /\ \A k : DoneAt(k)' = DoneAt(k)
  BY <1>1, ReplayKept, Zenon
<1>4. clock' = chain[executor.block].done
  BY <1>1, <1>2 DEF ExecutorInv
<1>5. clock' = DoneAt(lastExecuted)' /\ clock' \in Nat
  BY <1>1, <1>2, <1>4, ChainBlocks DEF DoneAt
<1>6. executor'.at = "idle"
      /\ executor' \in [at : {"idle", "running", "marked", "stopped"},
                        block : 0..MaxHeight]
  BY <1>1, <1>2 DEF Idle
<1>7. woken' \in BOOLEAN
  BY Zenon DEF Publish
<1>8. TypeOK'
  <2>1. lastExecuted' \in 0..MaxHeight
    BY <1>1, <1>2
  <2>2. QED BY <1>1, <1>5, <1>6, <1>7, <2>1, Zenon DEF TypeOK
<1>9. ExecutorInv'
  BY <1>1, <1>2, <1>3, <1>5, <1>6 DEF ExecutorInv
<1>10. SettledInv'
  BY <1>1, SettledKept, Zenon
<1>11. QED BY <1>3, <1>8, <1>9, <1>10, Zenon

-----------------------------------------------------------------------------
(* The theorems                                                            *)

\* A fresh node, with block 0 executed and settled, satisfies the invariant.
LEMMA InitInv == Init => IInv
<1> SUFFICES ASSUME Init PROVE IInv
  BY Zenon
<1>1. /\ chain = <<>> /\ results = <<>> /\ lastExecuted = 0 /\ clock = 0
      /\ queue = <<>> /\ executor = Idle /\ accepted = 0 /\ settled = 0
      /\ critical = {0} /\ phase = "initializing" /\ engine = "idle"
      /\ woken = FALSE /\ dropped = {} /\ crashes = 0
  BY Zenon DEF Init
<1>2. TypeOK
  <2>1. woken \in BOOLEAN
    BY <1>1, Zenon
  <2>2. executor \in [at : {"idle", "running", "marked", "stopped"},
                      block : 0..MaxHeight]
    BY <1>1, StreamingAssumption DEF Idle
  <2>3. DOMAIN results \subseteq 1..MaxHeight
    BY <1>1
  <2>4. QED BY <1>1, <2>1, <2>2, <2>3, StreamingAssumption DEF TypeOK
<1>3. ChainIsReplay
  BY <1>1 DEF ChainIsReplay
<1>4. ExecutorInv
  BY <1>1 DEF ExecutorInv, DoneAt, Idle
<1>5. SettledInv
  BY <1>1 DEF SettledInv, SettledBy
<1>6. QED BY <1>2, <1>3, <1>4, <1>5, Zenon DEF IInv

\* Every step preserves the invariant and settles no less.
LEMMA NextInv == IInv /\ [Next]_vars => IInv' /\ settled' >= settled
<1> SUFFICES ASSUME IInv, [Next]_vars
             PROVE  IInv' /\ settled' >= settled
  BY Zenon
<1>0. settled \in Nat
  BY DEF IInv, TypeOK
<1>1. ASSUME NEW time \in Times, NEW gas \in Gas, Accept(time, gas)
      PROVE  IInv' /\ settled' >= settled
  BY <1>1, AcceptInv, Zenon
<1>2. CASE Recover
  BY <1>2, RecoverInv, Zenon
<1>3. CASE SetState \/ CheckAndArm \/ Recheck \/ Wake \/ WaitTimesOut \/ Rearm \/ Crash
  <2>1. settled' = settled
    BY <1>3, Zenon DEF SetState, CheckAndArm, Recheck, Wake, WaitTimesOut, Rearm,
                Crash, engineOnly, volatile
  <2>2. QED BY <1>0, <1>3, <2>1, EngineInv
<1>4. CASE Enqueue
  BY <1>0, <1>4, EnqueueInv DEF Enqueue
<1>5. CASE Dequeue \/ FailBlock \/ StopLoop
  <2>1. settled' = settled
    BY <1>5, Zenon DEF Dequeue, FailBlock, StopLoop, executorOnly
  <2>2. QED BY <1>0, <1>5, <2>1, DrainInv
<1>6. CASE ExecuteStep
  <2>1. settled' = settled
    BY <1>6, Zenon DEF ExecuteStep, executorOnly
  <2>2. QED BY <1>0, <1>6, <2>1, ExecuteStepInv
<1>7. CASE Publish
  <2>1. settled' = settled
    BY <1>7, Zenon DEF Publish, executorOnly
  <2>2. QED BY <1>0, <1>7, <2>1, PublishInv
<1>8. CASE UNCHANGED vars
  <2>1. UNCHANGED <<chain, results, lastExecuted, clock, queue, executor, accepted,
                    settled, critical, phase, engine, woken, dropped, crashes>>
    BY <1>8, Zenon DEF vars
  <2>2. ChainIsReplay'
    BY <2>1, ReplayKept, Zenon DEF IInv
  <2>3. SettledInv'
    BY <2>1, SettledKept, Zenon DEF IInv
  <2>4. TypeOK' /\ ExecutorInv'
    BY <2>1, Zenon DEF IInv, TypeOK, ExecutorInv, DoneAt
  <2>5. QED BY <1>0, <2>1, <2>2, <2>3, <2>4 DEF IInv
<1>9. QED
  BY <1>1, <1>2, <1>3, <1>4, <1>5, <1>6, <1>7, <1>8, Zenon
     DEF Next, EngineNext, ExecutorNext

\* The invariant holds in every reachable state.
THEOREM StreamingInvariant == Spec => []IInv
<1>1. Init => IInv
  BY InitInv, Zenon
<1>2. IInv /\ [Next]_vars => IInv'
  BY NextInv, Zenon
<1>3. QED BY <1>1, <1>2, PTL DEF Spec

\* LastSettled is always what some accepted block settles by the chain alone
\* (settle, last_to_settle_at, recover).
THEOREM SettlementDeterminism == Spec => []SettlementIsDeterministic
<1>1. IInv => SettlementIsDeterministic
  BY Zenon DEF IInv, SettledInv, SettlementIsDeterministic
<1>2. QED BY <1>1, StreamingInvariant, PTL

\* The critical map is the window from LastSettled to LastAccepted
\* (advance_accepted, advance_settled, recover).
THEOREM CriticalWindow == Spec => []WindowIsExact
<1>1. IInv => WindowIsExact
  BY Zenon DEF IInv, SettledInv, WindowIsExact
<1>2. QED BY <1>1, StreamingInvariant, PTL

\* Nothing settles unexecuted and every result is the replay's (execute_step).
THEOREM ReplayableResults == Spec => []ResultsAreReplayable
<1>1. IInv => ResultsAreReplayable
  <2>1. SUFFICES ASSUME IInv
                 PROVE  /\ settled = 0 \/ settled \in DOMAIN results
                        /\ \A h \in DOMAIN results :
                             h <= accepted /\ results[h] = chain[h].done
    BY Zenon DEF ResultsAreReplayable
  <2>2. accepted \in Nat /\ lastExecuted \in Nat
    BY <2>1 DEF IInv, TypeOK
  <2>3. \A h \in DOMAIN results : h <= accepted
    BY <2>1, <2>2 DEF IInv, ExecutorInv
  <2>4. QED BY <2>1, <2>3, Zenon DEF IInv, ExecutorInv, SettledInv
<1>2. QED BY <1>1, StreamingInvariant, PTL

\* LastSettled never moves back, restarts included (recover).
THEOREM SettledMonotone == Spec => SettledNeverRegresses
<1>1. IInv /\ [Next]_vars => [settled' >= settled]_vars
  BY NextInv, Zenon
<1>2. QED BY <1>1, StreamingInvariant, PTL DEF Spec, SettledNeverRegresses
=============================================================================
