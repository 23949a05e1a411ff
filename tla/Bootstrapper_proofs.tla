------------------------ MODULE Bootstrapper_proofs -------------------------
(***************************************************************************)
(* Fetching, replaying and the agreement on what to fetch, for every set   *)
(* of beacons, blocks, replies and failures; and that the interval tree is *)
(* a set of heights, for every height width.                               *)
(*                                                                         *)
(* The lemmas about fetching and replaying take three facts that are shown *)
(* after them: the tree answers for the stored blocks (StoreIsExact), a    *)
(* set of heights has a least element (LeastHeights), and weights add up   *)
(* (WeightsAddUp).                                                         *)
(*                                                                         *)
(* About the tree everything rests on two facts about maps whose intervals *)
(* are keyed by their upper bounds and kept apart: dropping a key, and     *)
(* inserting an interval that touches no other, keep that shape and change *)
(* the covered heights by exactly that interval.  Every branch of add and  *)
(* remove is a composition of the two.  The bootstrapper uses the tree by  *)
(* add and remove only, so the same holds of the heights it stores.        *)
(***************************************************************************)
EXTENDS Bootstrapper, TLAPS

\* What the current call works on, and the map of blocks next to the tree:
\* add_block and execute change the two together.
WorkInv ==
    /\ DOMAIN blocks = Tracked
    /\ work.op = "walk" => work.blk \in Blocks /\ work.reply \subseteq Blocks
    /\ work.op = "execute" => work.left \subseteq DOMAIN blocks

StoreAnswers ==
    /\ WorkInv
    /\ \A h \in Heights : Contains(h) <=> h \in DOMAIN blocks

HeightsHaveLeast ==
    \A S \in SUBSET Heights : S # {} => Min(S) \in S /\ \A y \in S : Min(S) <= y

\* Request ids are handed out in order.
IdInv ==
    /\ requestId \in Nat /\ unparsable \in Nat
    /\ \A k \in DOMAIN outstanding : k[2] \in Requests

\* Which state belongs to which phase.  Nothing is replayed while a request
\* is outstanding.
PhaseInv ==
    /\ phase \in {"Initializing", "DiscoveringFrontier", "AgreeingFrontier"} =>
          blocks = EmptyFun /\ acceptedTips = {} /\ Idle
    /\ phase \notin {"Executing", "Finished"} => vmLast = LocalTip
    /\ phase # "Fetching" => DOMAIN outstanding = {} /\ work.op \notin {"fetch", "walk"}
    /\ phase # "Executing" => work.op # "execute"

\* A block is stored at its height, above the local tip.
StoreInv ==
    \A h \in DOMAIN blocks :
        blocks[h] \in Blocks /\ Height[blocks[h]] = h /\ h > LastAcceptedHeight

\* Everything asked for, stored or accepted is on the network's chain.
MainInv ==
    /\ Pending \subseteq Main /\ vmLast \in Main
    /\ \A h \in DOMAIN blocks : blocks[h] \in Main

\* NothingForgotten, with stored blocks known by their heights.
FetchInv ==
    phase = "Fetching" /\ unparsable = 0 =>
        /\ \A t \in acceptedTips : 
              Height[t] > LastAcceptedHeight => Height[t] \in DOMAIN blocks \/ t \in Pending
        /\ \A h \in DOMAIN blocks :
              h - 1 > LastAcceptedHeight =>
                  h - 1 \in DOMAIN blocks \/ Parent[blocks[h]] \in Pending

\* What is left to replay goes on from the VM's last accepted block without a
\* gap, up to every agreed tip.
ReplayInv ==
    work.op = "execute" /\ unparsable = 0 =>
        /\ \A h \in work.left :
              h > Height[vmLast] /\ (h - 1 \in work.left \/ h - 1 = Height[vmLast])
        /\ \A t \in acceptedTips : Height[t] <= Height[vmLast] \/ Height[t] \in work.left

CaughtUp ==
    phase = "Finished" /\ unparsable = 0 =>
        \A t \in acceptedTips : Height[t] <= Height[vmLast]

\* The blocks the network accepted, as the rest of the invariant needs them.
OnMain ==
    acceptedTips \subseteq Main => MainInv /\ FetchInv /\ ReplayInv /\ CaughtUp

FetchingInv == IdInv /\ PhaseInv /\ StoreInv /\ OnMain

BootInv == StoreAnswers /\ FetchingInv

LEMMA HeightsOfBlocks == \A b \in Blocks : Height[b] \in Heights /\ Height[b] \in Nat
BY BlockTreeAssumption, BootstrapAssumption, MaxHeightAssumption DEF Heights

\* Main goes down to the genesis block, so what is above the local tip has a
\* parent on it.
LEMMA MainParent ==
    ASSUME HeightsHaveLeast, NEW b \in Main, Height[b] > LastAcceptedHeight
    PROVE  /\ b # Genesis /\ Parent[b] \in Main /\ Parent[b] \in Blocks
           /\ Height[Parent[b]] = Height[b] - 1
<1> DEFINE S == {Height[m] : m \in Main}
<1>1. S \subseteq Heights /\ S # {}
  BY HeightsOfBlocks, BootstrapAssumption
<1>2. Min(S) \in S /\ \A y \in S : Min(S) <= y
  BY <1>1, Zenon DEF HeightsHaveLeast
<1>3. PICK m \in Main : Height[m] = Min(S)
  BY <1>2, Zenon
<1>4. m = Genesis
  <2> SUFFICES ASSUME m # Genesis PROVE FALSE
    BY Zenon
  <2>1. m \in Blocks \ {Genesis} /\ Parent[m] \in Main
    BY BootstrapAssumption, <1>3, Zenon
  <2>2. Height[m] = Height[Parent[m]] + 1 /\ Height[Parent[m]] \in Nat /\ Height[m] \in Nat
    BY <2>1, BlockTreeAssumption, HeightsOfBlocks, BootstrapAssumption, Zenon
  <2>3. Height[Parent[m]] \in S
    BY <2>1, Zenon
  <2>4. Height[m] <= Height[Parent[m]]
    BY <1>2, <1>3, <2>3, Zenon
  <2>5. QED BY <2>2, <2>4
<1>5. LocalTip \in Main /\ b \in Blocks /\ Height[LocalTip] \in S
  BY BootstrapAssumption, Zenon
<1>6. Height[Genesis] <= Height[LocalTip]
  BY <1>2, <1>3, <1>4, <1>5, Zenon
<1>7. b # Genesis
  <2>1. Height[b] \in Nat /\ Height[LocalTip] \in Nat
    BY <1>5, HeightsOfBlocks, BootstrapAssumption, Zenon
  <2>2. QED BY <1>6, <2>1 DEF LastAcceptedHeight
<1>8. Parent[b] \in Main /\ Parent[b] \in Blocks
  BY <1>5, <1>7, BootstrapAssumption, Zenon
<1>9. Height[b] = Height[Parent[b]] + 1 /\ Height[Parent[b]] \in Nat
  BY <1>5, <1>7, <1>8, BlockTreeAssumption, HeightsOfBlocks, Zenon
<1>10. QED BY <1>7, <1>8, <1>9

\* fetch(b) adds b to what is asked for, and its request id is new.
LEMMA FetchAsks ==
    ASSUME IdInv, NEW b, NEW out, DOMAIN out \subseteq DOMAIN outstanding, Fetch(b, out)
    PROVE  /\ Range(outstanding') = Range(out) \cup {b}
           /\ requestId' \in Nat
           /\ \A k \in DOMAIN outstanding' : k[2] \in Requests'
<1>1. CASE b \in Range(out)
  <2>1. outstanding' = out /\ requestId' = requestId
    BY <1>1, Zenon DEF Fetch
  <2>2. Range(outstanding') = Range(out) \cup {b}
    BY <1>1, <2>1, Zenon
  <2>3. QED BY <2>1, <2>2, Zenon DEF IdInv, Requests
<1>2. CASE b \notin Range(out)
  <2> DEFINE key == <<BeaconOrder[fetchCursor + 1], requestId'>>
  <2>1. requestId' = requestId + 1 /\ outstanding' = With(out, key, b)
    BY <1>2, Zenon DEF Fetch
  <2>2. requestId \in Nat /\ \A k \in DOMAIN out : k[2] \in 1 .. requestId
    BY Zenon DEF IdInv, Requests
  <2>3. key[2] = requestId + 1
    BY <2>1, Zenon
  <2> HIDE DEF key
  <2>4. key \notin DOMAIN out
    BY <2>2, <2>3
  <2>5. DOMAIN outstanding' = DOMAIN out \cup {key}
        /\ outstanding'[key] = b
        /\ \A k \in DOMAIN out : outstanding'[k] = out[k]
    BY <2>1, <2>4, Zenon DEF With
  <2>6. Range(outstanding') = Range(out) \cup {b}
    BY <2>5 DEF Range
  <2>7. \A k \in DOMAIN outstanding' : k[2] \in Requests'
    BY <2>1, <2>2, <2>3, <2>5 DEF Requests
  <2>8. QED BY <2>1, <2>2, <2>6, <2>7
<1>3. QED BY <1>1, <1>2, Zenon

\* Taking a request out leaves the other blocks asked for.
LEMMA WithoutRange ==
    ASSUME NEW f, NEW k \in DOMAIN f
    PROVE  /\ DOMAIN Without(f, {k}) \subseteq DOMAIN f
           /\ Range(f) = Range(Without(f, {k})) \cup {f[k]}
<1>1. DOMAIN Without(f, {k}) = DOMAIN f \ {k}
      /\ \A x \in DOMAIN f \ {k} : Without(f, {k})[x] = f[x]
  BY Zenon DEF Without, Restrict
<1>2. QED BY <1>1, Zenon DEF Range

\* A step of the fetching that changes who is asked and not what for.
LEMMA PendingKept ==
    ASSUME OnMain, phase = "Fetching", UNCHANGED <<phase, acceptedTips, blocks, vmLast, unparsable>>,
           Pending' = Pending, work'.op # "execute"
    PROVE  OnMain'
<1> SUFFICES ASSUME acceptedTips' \subseteq Main
             PROVE  MainInv' /\ FetchInv' /\ ReplayInv' /\ CaughtUp'
  BY Zenon DEF OnMain
<1>1. MainInv /\ FetchInv
  BY Zenon DEF OnMain
<1>2. MainInv'
  BY <1>1, Zenon DEF MainInv
<1>3. FetchInv'
  BY <1>1, Zenon DEF FetchInv
<1>4. QED BY <1>2, <1>3, Zenon DEF ReplayInv, CaughtUp

-----------------------------------------------------------------------------
(* Every step keeps the invariant.                                         *)

\* Before the fetching there is nothing to keep.
LEMMA FrontierStep ==
    ASSUME BootInv, FrontierNext \/ Start
    PROVE  FetchingInv'
<1>1. /\ Idle /\ phase \in {"Initializing", "DiscoveringFrontier"}
      /\ phase' \in {"DiscoveringFrontier", "AgreeingFrontier", "Finished"}
      /\ UNCHANGED <<acceptedTips, outstanding, blocks, vmLast, work, unparsable>>
      /\ requestId' = requestId \/ requestId' = requestId + 1
  <2>1. CASE Start
    BY <2>1, Zenon DEF Start, agreeVars, fetchVars, storeVars, boundVars
  <2>2. CASE FrontierNext
    BY <2>2, Zenon DEF FrontierNext, AcceptedFrontier, GetAcceptedFrontierFailed,
                MaybeBeginFrontierAgreement, Useless, fetchVars, storeVars, boundVars
  <2>3. QED BY <2>1, <2>2, Zenon
<1>2. /\ blocks = EmptyFun /\ acceptedTips = {} /\ work = IdleItem /\ vmLast = LocalTip
      /\ DOMAIN outstanding = {} /\ requestId \in Nat /\ unparsable \in Nat
  BY <1>1, Zenon DEF BootInv, FetchingInv, PhaseInv, IdInv, Idle
<1>3. DOMAIN blocks' = {} /\ work'.op = "idle" /\ Range(outstanding') = {}
  BY <1>1, <1>2, Zenon DEF EmptyFun, IdleItem, Range
<1>4. IdInv' /\ PhaseInv' /\ StoreInv'
  BY <1>1, <1>2, <1>3 DEF IdInv, PhaseInv, StoreInv, Idle
<1>5. MainInv'
  BY <1>1, <1>2, <1>3, BootstrapAssumption, Zenon DEF MainInv, Pending
<1>6. FetchInv' /\ ReplayInv' /\ CaughtUp'
  BY <1>1, <1>2, <1>3, Zenon DEF FetchInv, ReplayInv, CaughtUp
<1>7. QED BY <1>4, <1>5, <1>6, Zenon DEF FetchingInv, OnMain

\* When the last beacon has responded, the agreed tips are what is pending.
LEMMA AgreeStep ==
    ASSUME BootInv, NEW n \in Beacons, NEW r \in Requests,
           \/ \E ids \in SUBSET View(n) : Accepted(n, r, ids)
           \/ GetAcceptedFailed(n, r)
    PROVE  FetchingInv'
<1> DEFINE step ==
             /\ Idle /\ phase = "AgreeingFrontier"
             /\ UNCHANGED <<requestId, outstanding, blocks, vmLast, unparsable>>
             /\ \/ UNCHANGED <<acceptedTips, phase, work>>
                \/ phase' = "Fetching" /\ work' = FetchItem(acceptedTips')
<1>1. step
  <2>1. CASE GetAcceptedFailed(n, r)
    BY <2>1, Zenon DEF GetAcceptedFailed, MaybeBeginFetching, Useless, fetchVars,
                       storeVars
  <2>2. ASSUME NEW ids \in SUBSET View(n), Accepted(n, r, ids)
        PROVE  step
    BY <2>2, Zenon DEF Accepted, MaybeBeginFetching, fetchVars, storeVars, boundVars
  <2>3. QED BY <2>1, <2>2, Zenon
<1>2. /\ blocks = EmptyFun /\ acceptedTips = {} /\ work = IdleItem /\ vmLast = LocalTip
      /\ DOMAIN outstanding = {} /\ requestId \in Nat /\ unparsable \in Nat
  BY <1>1, Zenon DEF BootInv, FetchingInv, PhaseInv, IdInv, Idle
<1>3. DOMAIN blocks' = {} /\ Range(outstanding') = {}
  BY <1>1, <1>2, Zenon DEF EmptyFun, Range
<1>4. \/ work' = IdleItem /\ work'.op = "idle" /\ acceptedTips' = {}
         /\ phase' = "AgreeingFrontier"
      \/ work'.op = "fetch" /\ work'.tips = acceptedTips' /\ phase' = "Fetching"
  BY <1>1, <1>2 DEF IdleItem, FetchItem
<1>5. IdInv' /\ PhaseInv' /\ StoreInv'
  BY <1>1, <1>2, <1>3, <1>4, Zenon DEF IdInv, PhaseInv, StoreInv, Idle, Requests
<1>6. Pending' = acceptedTips'
  BY <1>3, <1>4, Zenon DEF Pending
<1>7. acceptedTips' \subseteq Main => MainInv'
  BY <1>1, <1>2, <1>3, <1>6, BootstrapAssumption, Zenon DEF MainInv
<1>8. FetchInv' /\ ReplayInv' /\ CaughtUp'
  BY <1>3, <1>4, <1>6, Zenon DEF FetchInv, ReplayInv, CaughtUp
<1>9. QED BY <1>5, <1>7, <1>8, Zenon DEF FetchingInv, OnMain

\* A reply takes its request out and starts a walk from the block wanted.
LEMMA AncestorsStep ==
    ASSUME BootInv, NEW n, NEW r, NEW reply, Ancestors(n, r, reply)
    PROVE  FetchingInv'
<1> DEFINE k == <<n, r>>
<1>1. /\ Idle /\ k \in DOMAIN outstanding
      /\ outstanding' = Without(outstanding, {k})
      /\ work' = WalkItem(outstanding[k], reply)
      /\ UNCHANGED <<phase, requestId, acceptedTips, blocks, vmLast, unparsable>>
  BY Zenon DEF Ancestors, agreeVars, storeVars, boundVars
<1> HIDE DEF k
<1>2. phase = "Fetching"
  BY <1>1, Zenon DEF BootInv, FetchingInv, PhaseInv
<1>3. work.op = "idle" /\ work'.op = "walk" /\ work'.blk = outstanding[k]
  BY <1>1, Zenon DEF Idle, IdleItem, WalkItem
<1>4. DOMAIN outstanding' \subseteq DOMAIN outstanding
      /\ Range(outstanding) = Range(outstanding') \cup {outstanding[k]}
  BY <1>1, WithoutRange, Zenon
<1>5. Pending' = Pending
  BY <1>3, <1>4, Zenon DEF Pending
<1>6. OnMain'
  BY <1>1, <1>2, <1>3, <1>5, PendingKept, Zenon DEF BootInv, FetchingInv
<1>7. IdInv' /\ PhaseInv' /\ StoreInv'
  BY <1>1, <1>2, <1>3, <1>4, Zenon
  DEF BootInv, FetchingInv, IdInv, PhaseInv, StoreInv, Requests
<1>8. QED BY <1>6, <1>7, Zenon DEF FetchingInv

\* A useless reply asks another beacon for the same block.
LEMMA UselessStep ==
    ASSUME BootInv, NEW n, NEW r, AncestorsUseless(n, r)
    PROVE  FetchingInv'
<1> DEFINE k == <<n, r>>
           rest == Without(outstanding, {k})
<1>1. /\ Idle /\ k \in DOMAIN outstanding
      /\ Fetch(outstanding[k], rest)
      /\ UNCHANGED <<phase, work, acceptedTips, blocks, vmLast, unparsable>>
  BY Zenon DEF AncestorsUseless, Useless, agreeVars, storeVars
<1> HIDE DEF k
<1>2. phase = "Fetching" /\ IdInv
  BY <1>1, Zenon DEF BootInv, FetchingInv, PhaseInv
<1>3. DOMAIN rest \subseteq DOMAIN outstanding
      /\ Range(outstanding) = Range(rest) \cup {outstanding[k]}
  BY <1>1, WithoutRange, Zenon
<1> HIDE DEF rest
<1>4. /\ Range(outstanding') = Range(outstanding)
      /\ requestId' \in Nat /\ \A j \in DOMAIN outstanding' : j[2] \in Requests'
  BY <1>1, <1>2, <1>3, FetchAsks, Zenon
<1>5. Pending' = Pending /\ work'.op # "execute"
  BY <1>1, <1>4, Zenon DEF Pending, Idle, IdleItem
<1>6. OnMain'
  BY <1>1, <1>2, <1>5, PendingKept, Zenon DEF BootInv, FetchingInv
<1>7. IdInv' /\ PhaseInv' /\ StoreInv'
  BY <1>1, <1>2, <1>4, Zenon DEF BootInv, FetchingInv, IdInv, PhaseInv, StoreInv,
                                 Idle
<1>8. QED BY <1>6, <1>7, Zenon DEF FetchingInv

\* A reply that does not parse loses its block, and is counted.
LEMMA UnparsableStep ==
    ASSUME BootInv, NEW n, NEW r, AncestorsUnparsable(n, r)
    PROVE  FetchingInv'
<1> DEFINE k == <<n, r>>
<1>1. /\ Idle /\ k \in DOMAIN outstanding
      /\ outstanding' = Without(outstanding, {k})
      /\ unparsable' = unparsable + 1
      /\ UNCHANGED <<phase, requestId, work, acceptedTips, blocks, vmLast>>
  BY Zenon DEF AncestorsUnparsable, agreeVars, storeVars
<1> HIDE DEF k
<1>2. phase = "Fetching" /\ unparsable \in Nat /\ unparsable' # 0
  BY <1>1 DEF BootInv, FetchingInv, PhaseInv, IdInv
<1>3. DOMAIN outstanding' \subseteq DOMAIN outstanding
      /\ Range(outstanding) = Range(outstanding') \cup {outstanding[k]}
  BY <1>1, WithoutRange, Zenon
<1>4. IdInv' /\ PhaseInv' /\ StoreInv'
  <2>1. IdInv'
    <3>1. requestId' \in Nat /\ unparsable' \in Nat /\ Requests' = Requests
      BY <1>1, <1>2 DEF BootInv, FetchingInv, IdInv, Requests
    <3>2. \A j \in DOMAIN outstanding' : j[2] \in Requests
      BY <1>3, Zenon DEF BootInv, FetchingInv, IdInv
    <3>3. QED BY <3>1, <3>2, Zenon DEF IdInv
  <2>2. PhaseInv' /\ StoreInv'
    BY <1>1, <1>2, <1>3, Zenon DEF BootInv, FetchingInv, PhaseInv, StoreInv, Idle
  <2>3. QED BY <2>1, <2>2, Zenon
<1>5. Pending' \subseteq Pending
  BY <1>1, <1>3, Zenon DEF Pending, Idle, IdleItem
<1>6. acceptedTips' \subseteq Main => MainInv'
  BY <1>1, <1>5, Zenon DEF BootInv, FetchingInv, OnMain, MainInv
<1>7. FetchInv' /\ ReplayInv' /\ CaughtUp'
  BY <1>2, Zenon DEF FetchInv, ReplayInv, CaughtUp
<1>8. QED BY <1>4, <1>6, <1>7, Zenon DEF FetchingInv, OnMain

\* try_start_executing after what was stored is `blocks'`: when nothing is
\* outstanding, everything needed is stored, and the replay has no gap.
LEMMA TryStartStep ==
    ASSUME BootInv, phase = "Fetching", IdInv', StoreInv', WorkInv',
           UNCHANGED <<outstanding, acceptedTips, vmLast, unparsable>>,
           TryStartExecuting(DOMAIN blocks'),
           acceptedTips \subseteq Main =>
               /\ \A h \in DOMAIN blocks' : blocks'[h] \in Main
               /\ unparsable = 0 =>
                  /\ \A t \in acceptedTips : Height[t] > LastAcceptedHeight =>
                         Height[t] \in DOMAIN blocks' \/ t \in Range(outstanding)
                  /\ \A h \in DOMAIN blocks' : h - 1 > LastAcceptedHeight =>
                         h - 1 \in DOMAIN blocks' \/ Parent[blocks'[h]] \in Range(outstanding)
    PROVE  FetchingInv'
<1>1. vmLast = LocalTip /\ vmLast' = LocalTip
  BY Zenon DEF BootInv, FetchingInv, PhaseInv
<1>2. acceptedTips \subseteq Main => Range(outstanding) \subseteq Main
  BY Zenon DEF BootInv, FetchingInv, OnMain, MainInv, Pending
<1>3. CASE outstanding = EmptyFun
  <2>1. /\ phase' = "Executing" /\ work'.op = "execute" /\ work'.left = DOMAIN blocks'
        /\ DOMAIN outstanding' = {} /\ Range(outstanding') = {} /\ Range(outstanding) = {}
    BY <1>3 DEF TryStartExecuting, ExecuteItem, EmptyFun, Range
  <2>2. PhaseInv'
    BY <2>1, Zenon DEF PhaseInv
  <2>3. acceptedTips' \subseteq Main => MainInv'
    BY <1>1, <2>1, BootstrapAssumption, Zenon DEF MainInv, Pending
  <2>4. ASSUME acceptedTips \subseteq Main, unparsable = 0, NEW h \in work'.left
        PROVE  h > Height[vmLast'] /\ (h - 1 \in work'.left \/ h - 1 = Height[vmLast'])
    <3>1. h \in Nat /\ Height[LocalTip] \in Nat /\ h > Height[LocalTip]
      BY <2>1, <2>4, HeightsOfBlocks, BootstrapAssumption
         DEF StoreInv, LastAcceptedHeight
    <3>2. h - 1 > Height[LocalTip] => h - 1 \in DOMAIN blocks'
      BY <2>1, <2>4, Zenon DEF LastAcceptedHeight
    <3>3. QED BY <1>1, <2>1, <3>1, <3>2
  <2>5. ASSUME acceptedTips \subseteq Main, unparsable = 0, NEW t \in acceptedTips
        PROVE  Height[t] <= Height[vmLast'] \/ Height[t] \in work'.left
    <3>1. Height[t] \in Nat /\ Height[LocalTip] \in Nat
      BY <2>5, HeightsOfBlocks, BootstrapAssumption, Zenon
    <3>2. QED BY <1>1, <2>1, <2>5, <3>1 DEF LastAcceptedHeight
  <2>6. acceptedTips' \subseteq Main => ReplayInv'
    BY <2>4, <2>5, Zenon DEF ReplayInv
  <2>7. FetchInv' /\ CaughtUp'
    BY <2>1, Zenon DEF FetchInv, CaughtUp
  <2>8. QED BY <2>2, <2>3, <2>6, <2>7, Zenon DEF FetchingInv, OnMain
<1>4. CASE outstanding # EmptyFun
  <2>1. phase' = "Fetching" /\ work'.op = "idle"
    BY <1>4 DEF TryStartExecuting, IdleItem
  <2>2. PhaseInv'
    BY <1>1, <2>1, Zenon DEF PhaseInv
  <2>3. Pending' = Range(outstanding)
    BY <2>1, Zenon DEF Pending
  <2>4. acceptedTips' \subseteq Main => MainInv'
    BY <1>1, <1>2, <2>3, BootstrapAssumption, Zenon DEF MainInv
  <2>5. acceptedTips' \subseteq Main => FetchInv'
    BY <2>3, Zenon DEF FetchInv
  <2>6. ReplayInv' /\ CaughtUp'
    BY <2>1, Zenon DEF ReplayInv, CaughtUp
  <2>7. QED BY <2>2, <2>4, <2>5, <2>6, Zenon DEF FetchingInv, OnMain
<1>5. QED BY <1>3, <1>4, Zenon

\* A tip goes from the call to the requests; after the last one the replay
\* begins if nothing has to be fetched.
LEMMA FetchTipStep ==
    ASSUME BootInv, FetchTip, WorkInv'
    PROVE  FetchingInv'
<1>1. /\ phase = "Fetching" /\ work.op = "fetch" /\ IdInv
      /\ UNCHANGED <<acceptedTips, blocks, vmLast, unparsable>>
  BY Zenon DEF FetchTip, BootInv, FetchingInv, PhaseInv, agreeVars, storeVars,
               boundVars
<1>2. ASSUME NEW t \in work.tips, Fetch(t, outstanding),
             work' = FetchItem(work.tips \ {t}), UNCHANGED phase
      PROVE  FetchingInv'
  <2>1. /\ Range(outstanding') = Range(outstanding) \cup {t}
        /\ requestId' \in Nat /\ \A j \in DOMAIN outstanding' : j[2] \in Requests'
    BY <1>1, <1>2, FetchAsks, Zenon
  <2>2. work'.op = "fetch" /\ work'.tips = work.tips \ {t}
    BY <1>2, Zenon DEF FetchItem
  <2>3. Pending' = Pending
    BY <1>1, <1>2, <2>1, <2>2, Zenon DEF Pending
  <2>4. OnMain'
    BY <1>1, <1>2, <2>2, <2>3, PendingKept, Zenon DEF BootInv, FetchingInv
  <2>5. IdInv' /\ PhaseInv' /\ StoreInv'
    BY <1>1, <1>2, <2>1, <2>2, Zenon DEF BootInv, FetchingInv, IdInv, PhaseInv,
                                         StoreInv
  <2>6. QED BY <2>4, <2>5, Zenon DEF FetchingInv
<1>3. CASE /\ work.tips = {} /\ TryStartExecuting(DOMAIN blocks)
           /\ UNCHANGED <<requestId, fetchVars>>
  <2>1. outstanding' = outstanding /\ TryStartExecuting(DOMAIN blocks')
    BY <1>1, <1>3, Zenon DEF fetchVars
  <2>2. IdInv' /\ StoreInv'
    BY <1>1, <1>3, <2>1, Zenon DEF BootInv, FetchingInv, IdInv, StoreInv, Requests
  <2>3. Pending = Range(outstanding)
    BY <1>1, <1>3, Zenon DEF Pending
  <2>4. acceptedTips \subseteq Main => MainInv /\ FetchInv
    BY Zenon DEF BootInv, FetchingInv, OnMain
  <2>5. QED BY <1>1, <2>1, <2>2, <2>3, <2>4, TryStartStep, Zenon
               DEF MainInv, FetchInv
<1>4. QED BY <1>2, <1>3, Zenon DEF FetchTip

\* One turn of process_chain.
LEMMA ProcessStep ==
    ASSUME HeightsHaveLeast, BootInv, ProcessBlock, WorkInv'
    PROVE  FetchingInv'
<1> DEFINE b == work.blk
           p == Parent[b]
<1>1. /\ phase = "Fetching" /\ work.op = "walk" /\ IdInv /\ StoreInv
      /\ UNCHANGED <<acceptedTips, vmLast, unparsable>>
      /\ b \in Blocks /\ b \in Pending
  BY Zenon DEF ProcessBlock, BootInv, FetchingInv, StoreAnswers, PhaseInv, WorkInv,
               Pending,
               agreeVars, boundVars
<1>2. Height[b] \in Nat /\ Height[b] \in Heights /\ LastAcceptedHeight \in Nat
  BY <1>1, HeightsOfBlocks, BootstrapAssumption, Zenon DEF LastAcceptedHeight
<1>3. Addable(b) <=> Height[b] > LastAcceptedHeight /\ Height[b] \notin DOMAIN blocks
  BY <1>2, Zenon DEF BootInv, StoreAnswers, Addable
<1>4. /\ Addable(b) => blocks' = With(blocks, Height[b], b)
      /\ ~Addable(b) => blocks' = blocks
  BY Zenon DEF ProcessBlock, storeVars
<1>5. /\ DOMAIN blocks \subseteq DOMAIN blocks'
      /\ \A h \in DOMAIN blocks : blocks'[h] = blocks[h]
      /\ \A h \in DOMAIN blocks' \ DOMAIN blocks :
            Addable(b) /\ h = Height[b] /\ blocks'[h] = b
      /\ Height[b] > LastAcceptedHeight => Height[b] \in DOMAIN blocks'
  <2>1. CASE Addable(b)
    BY <1>3, <1>4, <2>1, Zenon DEF With
  <2>2. CASE ~Addable(b)
    BY <1>3, <1>4, <2>2, Zenon
  <2>3. QED BY <2>1, <2>2, Zenon
<1>6. StoreInv'
  BY <1>1, <1>3, <1>5, Zenon DEF StoreInv
<1>7. acceptedTips \subseteq Main =>
          b \in Main /\ \A h \in DOMAIN blocks' : blocks'[h] \in Main
  BY <1>1, <1>5, Zenon DEF BootInv, FetchingInv, OnMain, MainInv
<1>8. Pending = Range(outstanding) \cup {b}
  BY <1>1, Zenon DEF Pending
<1> HIDE DEF b
\* What was pending is stored now, or still asked for.
<1>9. ASSUME acceptedTips \subseteq Main, unparsable = 0
      PROVE  /\ \A t \in acceptedTips : Height[t] > LastAcceptedHeight =>
                    Height[t] \in DOMAIN blocks' \/ t \in Range(outstanding)
             /\ \A h \in DOMAIN blocks : h - 1 > LastAcceptedHeight =>
                    h - 1 \in DOMAIN blocks' \/ Parent[blocks[h]] \in Range(outstanding)
  <2>1. FetchInv /\ MainInv
    BY <1>9, Zenon DEF BootInv, FetchingInv, OnMain
  <2>2. ASSUME NEW t \in acceptedTips, Height[t] > LastAcceptedHeight
        PROVE  Height[t] \in DOMAIN blocks' \/ t \in Range(outstanding)
    <3>1. Height[t] \in DOMAIN blocks \/ t \in Range(outstanding) \/ t = b
      BY <1>1, <1>8, <1>9, <2>1, <2>2, Zenon DEF FetchInv
    <3>2. QED BY <1>5, <2>2, <3>1, Zenon
  <2>3. ASSUME NEW h \in DOMAIN blocks, h - 1 > LastAcceptedHeight
        PROVE  h - 1 \in DOMAIN blocks' \/ Parent[blocks[h]] \in Range(outstanding)
    <3>1. h - 1 \in DOMAIN blocks \/ Parent[blocks[h]] \in Range(outstanding)
          \/ Parent[blocks[h]] = b
      BY <1>1, <1>8, <1>9, <2>1, <2>3, Zenon DEF FetchInv
    <3>2. blocks[h] \in Main /\ Height[blocks[h]] = h /\ h > LastAcceptedHeight
      BY <1>1, <2>1, Zenon DEF MainInv, StoreInv
    <3>3. Height[Parent[blocks[h]]] = h - 1
      BY <3>2, MainParent, Zenon
    <3>4. QED BY <1>5, <2>3, <3>1, <3>3, Zenon
  <2>4. QED BY <2>2, <2>3
\* A block that was added needs its parent, unless that is not wanted., Zenon
<1>10. ASSUME acceptedTips \subseteq Main, Addable(b)
       PROVE  /\ p \in Main /\ Height[p] = Height[b] - 1
              /\ WantsParent(b) <=> Height[b] - 1 > LastAcceptedHeight
                                    /\ Height[b] - 1 \notin DOMAIN blocks
  <2>1. p \in Main /\ p \in Blocks /\ Height[p] = Height[b] - 1
    BY <1>3, <1>7, <1>10, MainParent, Zenon
  <2>2. Height[b] - 1 \in Heights
    BY <2>1, HeightsOfBlocks, Zenon
  <2>3. WantsParent(b) <=> Height[b] - 1 # LastAcceptedHeight
                           /\ Height[b] - 1 \notin DOMAIN blocks
    BY <2>2, Zenon DEF BootInv, StoreAnswers, WantsParent
  <2>4. QED BY <1>2, <1>3, <1>10, <2>1, <2>3
<1> HIDE DEF p
<1>11. CASE /\ ~(Addable(b) /\ WantsParent(b))
            /\ TryStartExecuting(DOMAIN blocks')
            /\ UNCHANGED <<requestId, fetchVars>>
  <2>1. outstanding' = outstanding /\ IdInv'
    BY <1>1, <1>11, Zenon DEF IdInv, Requests, fetchVars
  <2>2. ASSUME acceptedTips \subseteq Main, unparsable = 0, NEW h \in DOMAIN blocks',
               h - 1 > LastAcceptedHeight
        PROVE  h - 1 \in DOMAIN blocks' \/ Parent[blocks'[h]] \in Range(outstanding)
    <3>1. CASE h \in DOMAIN blocks
      BY <1>5, <1>9, <2>2, <3>1, Zenon
    <3>2. CASE h \notin DOMAIN blocks
      <4>1. Addable(b) /\ h = Height[b]
        BY <1>5, <3>2, Zenon
      <4>2. h - 1 \in DOMAIN blocks
        BY <1>10, <1>11, <2>2, <4>1, Zenon
      <4>3. QED BY <1>5, <4>2, Zenon
    <3>3. QED BY <3>1, <3>2, Zenon
  <2>3. QED BY <1>1, <1>6, <1>7, <1>9, <1>11, <2>1, <2>2, TryStartStep, Zenon
<1>12. ASSUME Addable(b), WantsParent(b), work'.op \in {"walk", "idle"}, UNCHANGED phase,
              Pending' = Range(outstanding) \cup {p}, IdInv'
       PROVE  FetchingInv'
  <2>1. PhaseInv'
    BY <1>1, <1>12, Zenon DEF BootInv, FetchingInv, PhaseInv
  <2>2. acceptedTips' \subseteq Main => MainInv'
    <3>1. acceptedTips \subseteq Main => vmLast \in Main /\ Pending \subseteq Main
      BY Zenon DEF BootInv, FetchingInv, OnMain, MainInv
    <3>2. QED BY <1>1, <1>7, <1>8, <1>10, <1>12, <3>1, Zenon DEF MainInv
  <2>3. ASSUME acceptedTips \subseteq Main, unparsable = 0, NEW h \in DOMAIN blocks',
               h - 1 > LastAcceptedHeight
        PROVE  h - 1 \in DOMAIN blocks' \/ Parent[blocks'[h]] \in Pending'
    <3>1. CASE h \in DOMAIN blocks
      BY <1>5, <1>9, <1>12, <2>3, <3>1, Zenon
    <3>2. CASE h \notin DOMAIN blocks
      BY <1>5, <1>12, <3>2, Zenon DEF p
    <3>3. QED BY <3>1, <3>2, Zenon
  <2>4. acceptedTips' \subseteq Main => FetchInv'
    BY <1>1, <1>9, <1>12, <2>3, Zenon DEF FetchInv
  <2>5. ReplayInv' /\ CaughtUp'
    BY <1>1, <1>12, Zenon DEF ReplayInv, CaughtUp
  <2>6. QED BY <1>6, <1>12, <2>1, <2>2, <2>4, <2>5, Zenon DEF FetchingInv, OnMain
<1>13. CASE /\ Addable(b) /\ WantsParent(b) /\ p \in work.reply
            /\ work' = WalkItem(p, work.reply)
            /\ UNCHANGED <<phase, requestId, fetchVars>>
  <2>1. work'.op = "walk" /\ work'.blk = p /\ outstanding' = outstanding
    BY <1>13, Zenon DEF WalkItem, fetchVars
  <2>2. IdInv'
    BY <1>1, <1>13, <2>1, Zenon DEF IdInv, Requests
  <2>3. Pending' = Range(outstanding) \cup {p}
    BY <2>1, Zenon DEF Pending
  <2>4. QED BY <1>12, <1>13, <2>1, <2>2, <2>3, Zenon
<1>14. CASE /\ Addable(b) /\ WantsParent(b) /\ p \notin work.reply
            /\ Fetch(p, outstanding) /\ work' = IdleItem /\ UNCHANGED phase
  <2>1. /\ Range(outstanding') = Range(outstanding) \cup {p}
        /\ requestId' \in Nat /\ \A j \in DOMAIN outstanding' : j[2] \in Requests'
    BY <1>1, <1>14, FetchAsks, Zenon
  <2>2. work'.op = "idle" /\ Pending' = Range(outstanding) \cup {p}
    BY <1>14, <2>1, Zenon DEF Pending, IdleItem
  <2>3. IdInv'
    BY <1>1, <2>1, Zenon DEF IdInv
  <2>4. QED BY <1>12, <1>14, <2>2, <2>3, Zenon
<1>15. QED BY <1>11, <1>13, <1>14, Zenon DEF ProcessBlock, b, p

\* The lowest block left is the child of the VM's last accepted one.
LEMMA LowestVerifies ==
    ASSUME HeightsHaveLeast, BootInv, acceptedTips \subseteq Main, work.op = "execute",
           work.left # {}, unparsable = 0
    PROVE  LET h == Min(work.left)
           IN  /\ h \in Nat /\ Height[vmLast] \in Nat /\ h - 1 = Height[vmLast]
               /\ \A g \in work.left : g >= h
               /\ Parent[blocks[h]] = vmLast
<1> DEFINE h == Min(work.left)
<1>1. work.left \subseteq DOMAIN blocks /\ DOMAIN blocks \subseteq Heights
  BY Zenon DEF BootInv, StoreAnswers, WorkInv, Tracked
<1>2. h \in work.left /\ \A g \in work.left : h <= g
  BY <1>1, Zenon DEF HeightsHaveLeast
<1>3. MainInv /\ ReplayInv /\ StoreInv
  BY Zenon DEF BootInv, FetchingInv, OnMain
<1> HIDE DEF h
<1>4. work.left \subseteq Nat
  BY <1>1, MaxHeightAssumption DEF Heights
<1>5. vmLast \in Main /\ Height[vmLast] \in Nat
  BY <1>3, HeightsOfBlocks, BootstrapAssumption, Zenon DEF MainInv
<1>6. h - 1 = Height[vmLast]
  <2>1. h - 1 \in work.left \/ h - 1 = Height[vmLast]
    BY <1>2, <1>3, Zenon DEF ReplayInv
  <2>2. h - 1 \notin work.left
    BY <1>2, <1>4
  <2>3. QED BY <2>1, <2>2, Zenon
<1>7. blocks[h] \in Main /\ Height[blocks[h]] = h /\ h > LastAcceptedHeight
  BY <1>1, <1>2, <1>3, Zenon DEF MainInv, StoreInv
<1>8. Parent[blocks[h]] \in Main /\ Height[Parent[blocks[h]]] = h - 1
  BY <1>7, MainParent, Zenon
<1>9. Parent[blocks[h]] = vmLast
  BY <1>5, <1>6, <1>8, BootstrapAssumption, Zenon
<1>10. QED BY <1>2, <1>4, <1>5, <1>6, <1>9, Zenon DEF h

\* One block replayed: the next one goes on from it.
LEMMA ExecuteStep ==
    ASSUME HeightsHaveLeast, BootInv, ExecuteBlock
    PROVE  FetchingInv'
<1> DEFINE h == Min(work.left)
<1>1. /\ work.op = "execute" /\ work.left # {} /\ work'.op = "execute"
      /\ work'.left = work.left \ {h}
      /\ blocks' = Without(blocks, {h})
      /\ vmLast' = IF h > LastAcceptedHeight THEN blocks[h] ELSE vmLast
      /\ UNCHANGED <<phase, requestId, acceptedTips, outstanding, unparsable>>
  BY Zenon DEF ExecuteBlock, TakeLowest, ExecuteItem, agreeVars, fetchVars,
               boundVars
<1>2. h \in work.left /\ h \in DOMAIN blocks /\ work.left \subseteq Nat
  <2>1. work.left \subseteq DOMAIN blocks /\ DOMAIN blocks \subseteq Heights
    BY <1>1, Zenon DEF BootInv, StoreAnswers, WorkInv, Tracked
  <2>2. h \in work.left
    BY <1>1, <2>1, Zenon DEF HeightsHaveLeast
  <2>3. work.left \subseteq Nat
    BY <2>1, MaxHeightAssumption DEF Heights
  <2>4. QED BY <2>1, <2>2, <2>3, Zenon
<1>3. ASSUME acceptedTips \subseteq Main, unparsable = 0
      PROVE  /\ h \in Nat /\ h - 1 = Height[vmLast] /\ Height[vmLast] \in Nat
             /\ \A g \in work.left : g >= h
  BY <1>1, <1>3, LowestVerifies, Zenon
<1> HIDE DEF h
<1>4. phase = "Executing" /\ DOMAIN outstanding = {} /\ IdInv /\ StoreInv
  BY <1>1, Zenon DEF BootInv, FetchingInv, PhaseInv
<1>5. blocks[h] \in Blocks /\ Height[blocks[h]] = h /\ h > LastAcceptedHeight /\ vmLast' = blocks[h]
  BY <1>1, <1>2, <1>4, Zenon DEF StoreInv
<1>6. /\ DOMAIN blocks' \subseteq DOMAIN blocks
      /\ \A g \in DOMAIN blocks' : blocks'[g] = blocks[g]
  BY <1>1, Zenon DEF Without, Restrict
<1>7. IdInv' /\ PhaseInv' /\ StoreInv'
  <2>1. IdInv'
    BY <1>1, <1>4, Zenon DEF IdInv, Requests
  <2>2. PhaseInv' /\ StoreInv'
    BY <1>1, <1>4, <1>6, Zenon DEF PhaseInv, StoreInv
  <2>3. QED BY <2>1, <2>2, Zenon
<1>8. Pending' = {}
  BY <1>1, <1>4, Zenon DEF Pending, Range
<1>9. acceptedTips' \subseteq Main => MainInv'
  BY <1>1, <1>2, <1>5, <1>6, <1>8, Zenon DEF BootInv, FetchingInv, OnMain, MainInv
<1>10. ASSUME acceptedTips \subseteq Main, unparsable = 0
       PROVE  ReplayInv'
  <2>1. ReplayInv
    BY <1>10, Zenon DEF BootInv, FetchingInv, OnMain
  <2>2. work.left \subseteq Nat
    BY <1>2, Zenon
  <2>3. \A g \in work'.left :
            g > Height[vmLast'] /\ (g - 1 \in work'.left \/ g - 1 = Height[vmLast'])
    <3> SUFFICES ASSUME NEW g \in work'.left
                 PROVE  g > h /\ (g - 1 \in work'.left \/ g - 1 = h)
      BY <1>5, Zenon
    <3>1. g \in work.left /\ g # h /\ g \in Nat /\ g >= h
      BY <1>1, <1>3, <1>10, <2>2, Zenon
    <3>2. g - 1 \in work.left \/ g - 1 = h - 1
      BY <1>1, <1>3, <1>10, <2>1, <3>1, Zenon DEF ReplayInv
    <3>3. QED BY <1>1, <1>3, <1>10, <3>1, <3>2
  <2>4. \A t \in acceptedTips : Height[t] <= Height[vmLast'] \/ Height[t] \in work'.left
    <3> SUFFICES ASSUME NEW t \in acceptedTips
                 PROVE  Height[t] <= h \/ Height[t] \in work'.left
      BY <1>5, Zenon
    <3>1. Height[t] \in Nat
      BY <1>10, HeightsOfBlocks, BootstrapAssumption, Zenon
    <3>2. Height[t] <= h - 1 \/ Height[t] \in work.left
      BY <1>1, <1>3, <1>10, <2>1, Zenon DEF ReplayInv
    <3>3. QED BY <1>1, <1>3, <1>10, <3>1, <3>2
  <2>5. QED BY <1>1, <2>3, <2>4, Zenon DEF ReplayInv
<1>11. FetchInv' /\ CaughtUp'
  BY <1>1, <1>4, Zenon DEF FetchInv, CaughtUp
<1>12. acceptedTips' \subseteq Main => ReplayInv'
  BY <1>1, <1>10, Zenon DEF ReplayInv
<1>13. QED BY <1>7, <1>9, <1>11, <1>12, Zenon DEF FetchingInv, OnMain

\* The replay ends, by an error, the token, or because nothing is left.
LEMMA EndStep ==
    ASSUME BootInv, ExecuteFails \/ ExecuteHalted \/ Finish
    PROVE  FetchingInv'
<1> DEFINE h == Min(work.left)
<1>1. /\ work.op = "execute" /\ work' = IdleItem
      /\ \/ blocks' = blocks
         \/ blocks' = Without(blocks, {h})
      /\ \/ phase' = phase
         \/ phase' = "Finished" /\ work.left = {}
      /\ UNCHANGED <<requestId, acceptedTips, outstanding, vmLast, unparsable>>
  BY Zenon DEF ExecuteFails, ExecuteHalted, Finish, TakeLowest, agreeVars,
               fetchVars, storeVars, boundVars
<1>2. work'.op = "idle" /\ work' = IdleItem
  BY <1>1, Zenon DEF IdleItem
<1>3. phase = "Executing" /\ DOMAIN outstanding = {} /\ IdInv /\ StoreInv
  BY <1>1, Zenon DEF BootInv, FetchingInv, PhaseInv
<1>4. /\ DOMAIN blocks' \subseteq DOMAIN blocks
      /\ \A g \in DOMAIN blocks' : blocks'[g] = blocks[g]
  BY <1>1, Zenon DEF Without, Restrict
<1>5. IdInv' /\ PhaseInv' /\ StoreInv'
  <2>1. IdInv'
    BY <1>1, <1>3, Zenon DEF IdInv, Requests
  <2>2. PhaseInv'
    BY <1>1, <1>2, <1>3, Zenon DEF PhaseInv
  <2>3. StoreInv'
    BY <1>3, <1>4, Zenon DEF StoreInv
  <2>4. QED BY <2>1, <2>2, <2>3, Zenon
<1>6. Pending' = {}
  BY <1>1, <1>2, <1>3, Zenon DEF Pending, Range
<1>7. acceptedTips' \subseteq Main => MainInv'
  BY <1>1, <1>4, <1>6, Zenon DEF BootInv, FetchingInv, OnMain, MainInv
<1>8. FetchInv' /\ ReplayInv'
  BY <1>1, <1>2, <1>3, Zenon DEF FetchInv, ReplayInv
<1>9. acceptedTips' \subseteq Main => CaughtUp'
  BY <1>1, <1>3, Zenon DEF BootInv, FetchingInv, OnMain, ReplayInv, CaughtUp
<1>10. QED BY <1>5, <1>7, <1>8, <1>9, Zenon DEF FetchingInv, OnMain

\* Every other handler, and a step that changes nothing.
LEMMA FetchingStep ==
    ASSUME HeightsHaveLeast, BootInv, [Next]_vars, WorkInv'
    PROVE  FetchingInv'
<1>1. ASSUME UNCHANGED <<phase, requestId, acceptedTips, outstanding, blocks, vmLast, work,
                         unparsable>>
      PROVE  FetchingInv'
  <2>1. IdInv' /\ PhaseInv' /\ StoreInv'
    BY <1>1, Zenon DEF BootInv, FetchingInv, IdInv, PhaseInv, StoreInv, Requests,
                       Idle
  <2>2. Pending' = Pending
    BY <1>1, Zenon DEF Pending
  <2>3. OnMain'
    BY <1>1, <2>2, Zenon DEF BootInv, FetchingInv, OnMain, MainInv, FetchInv,
                             ReplayInv, CaughtUp
  <2>4. QED BY <2>1, <2>3, Zenon DEF FetchingInv
<1>2. CASE UNCHANGED vars
  BY <1>1, <1>2, Zenon DEF vars, agreeVars, fetchVars, storeVars, boundVars
<1>3. CASE Halt
  BY <1>1, <1>3, Zenon DEF Halt, agreeVars, fetchVars, storeVars, boundVars
<1>4. CASE FrontierNext \/ Start
  BY <1>4, FrontierStep, Zenon
<1>5. ASSUME NEW n \in Beacons, NEW r \in Requests,
             \/ \E ids \in SUBSET View(n) : Accepted(n, r, ids)
             \/ GetAcceptedFailed(n, r)
      PROVE  FetchingInv'
  BY <1>5, AgreeStep, Zenon
<1>6. ASSUME NEW n \in Beacons, NEW r \in Requests,
             \/ \E reply \in SUBSET Blocks : Ancestors(n, r, reply)
             \/ AncestorsUseless(n, r)
             \/ AncestorsUnparsable(n, r)
      PROVE  FetchingInv'
  BY <1>6, AncestorsStep, UselessStep, UnparsableStep, Zenon
<1>7. CASE FetchTip
  BY <1>7, FetchTipStep, Zenon
<1>8. CASE ProcessBlock
  BY <1>8, ProcessStep, Zenon
<1>9. CASE ExecuteBlock
  BY <1>9, ExecuteStep, Zenon
<1>10. CASE ExecuteFails \/ ExecuteHalted \/ Finish
  BY <1>10, EndStep, Zenon
<1>11. QED
  BY <1>2, <1>3, <1>4, <1>5, <1>6, <1>7, <1>8, <1>9, <1>10, Zenon
     DEF Next, OtherNext

LEMMA FetchingInitially ==
    ASSUME Init
    PROVE  FetchingInv
<1>1. /\ phase = "Initializing" /\ requestId = 0 /\ unparsable = 0 /\ acceptedTips = {}
      /\ outstanding = EmptyFun /\ blocks = EmptyFun /\ vmLast = LocalTip
      /\ work = IdleItem
  BY Zenon DEF Init
<1>2. DOMAIN outstanding = {} /\ DOMAIN blocks = {} /\ work.op = "idle"
  BY <1>1, Zenon DEF EmptyFun, IdleItem
<1>3. IdInv /\ PhaseInv /\ StoreInv
  BY <1>1, <1>2, Zenon DEF IdInv, PhaseInv, StoreInv, Idle
<1>4. MainInv
  BY <1>1, <1>2, BootstrapAssumption, Zenon DEF MainInv, Pending, Range
<1>5. FetchInv /\ ReplayInv /\ CaughtUp
  BY <1>1, <1>2, Zenon DEF FetchInv, ReplayInv, CaughtUp
<1>6. QED BY <1>3, <1>4, <1>5, Zenon DEF FetchingInv, OnMain

\* While the agreed tips are on the network's chain, the invariant gives the
\* properties of fetching and replaying.
LEMMA FetchingIsSound ==
    ASSUME HeightsHaveLeast, BootInv, acceptedTips \subseteq Main
    PROVE  NothingForgotten /\ ReplayIsContiguous /\ FinishedCaughtUp
<1>1. MainInv /\ FetchInv /\ StoreInv /\ CaughtUp
  BY Zenon DEF BootInv, FetchingInv, OnMain
<1>2. FinishedCaughtUp
  BY <1>1, Zenon DEF MainInv, CaughtUp, FinishedCaughtUp
<1>3. ReplayIsContiguous
  BY LowestVerifies, Zenon DEF ReplayIsContiguous, Verifies
<1>4. ASSUME NEW b \in Main, Height[b] \in DOMAIN blocks
      PROVE  Stored(b)
  <2>1. blocks[Height[b]] \in Main /\ Height[blocks[Height[b]]] = Height[b]
    BY <1>1, <1>4, Zenon DEF MainInv, StoreInv
  <2>2. blocks[Height[b]] = b
    BY <2>1, BootstrapAssumption, Zenon
  <2>3. Contains(Height[b])
    BY <1>4, HeightsOfBlocks, BootstrapAssumption, Zenon DEF BootInv, StoreAnswers
  <2>4. QED BY <2>2, <2>3, Zenon DEF Stored
<1>5. NothingForgotten
  <2> SUFFICES ASSUME phase = "Fetching", unparsable = 0,
                      NEW b \in acceptedTips \cup {Parent[blocks[h]] : h \in DOMAIN blocks},
                      Height[b] > LastAcceptedHeight
               PROVE  Stored(b) \/ b \in Pending
    BY Zenon DEF NothingForgotten
  <2>1. CASE b \in acceptedTips
    BY <1>1, <1>4, <2>1, Zenon DEF FetchInv
  <2>2. ASSUME NEW h \in DOMAIN blocks, b = Parent[blocks[h]]
        PROVE  Stored(b) \/ b \in Pending
    <3>1. blocks[h] \in Main /\ Height[blocks[h]] = h /\ h > LastAcceptedHeight
      BY <1>1, <2>2, Zenon DEF MainInv, StoreInv
    <3>2. b \in Main /\ Height[b] = h - 1
      BY <2>2, <3>1, MainParent, Zenon
    <3>3. h - 1 \in DOMAIN blocks \/ b \in Pending
      BY <1>1, <2>2, <3>2, Zenon DEF FetchInv
    <3>4. QED BY <1>4, <3>2, <3>3, Zenon
  <2>3. QED BY <2>1, <2>2, Zenon
<1>6. QED BY <1>2, <1>3, <1>5, Zenon

-----------------------------------------------------------------------------
(* The agreement                                                           *)

\* The weight of disjoint sets of beacons adds up; WeightsAddUp shows it.
WeightsAdd ==
    /\ \A S \in SUBSET Beacons : TotalWeight(S) \in Nat
    /\ \A n \in Beacons : TotalWeight({n}) = Weight[n]
    /\ \A S, T \in SUBSET Beacons :
          S \cap T = {} => TotalWeight(S \cup T) = TotalWeight(S) + TotalWeight(T)

\* What is not on the network's chain has the weight of beacons that are not
\* Good, at most.
QuorumInv ==
    /\ acceptedReplies \subseteq Beacons
    /\ acceptedWeight \in [Blocks -> Nat]
    /\ \A b \in Blocks \ Main : acceptedWeight[b] <= TotalWeight(acceptedReplies \ Good)
    /\ acceptedTips \subseteq Main

\* One more response: a Good beacon names blocks of the chain only.
LEMMA ResponseCounts ==
    ASSUME WeightsAdd, QuorumInv, NEW n \in Beacons, n \notin acceptedReplies,
           NEW weight \in [Blocks -> Nat],
           \A b \in Blocks : weight[b] <= acceptedWeight[b] + Weight[n],
           n \in Good => \A b \in Blocks \ Main : weight[b] = acceptedWeight[b],
           MaybeBeginFetching(n, weight)
    PROVE  QuorumInv'
<1> DEFINE R == acceptedReplies \cup {n}
<1>1. acceptedWeight' = weight /\ acceptedReplies' = R /\ R \subseteq Beacons
  BY Zenon DEF MaybeBeginFetching, QuorumInv
<1>2. ASSUME NEW b \in Blocks \ Main
      PROVE  weight[b] <= TotalWeight(R \ Good)
  <2>1. acceptedWeight[b] <= TotalWeight(acceptedReplies \ Good) /\ acceptedWeight[b] \in Nat
    BY Zenon DEF QuorumInv
  <2>2. CASE n \in Good
    <3>1. R \ Good = acceptedReplies \ Good
      BY <2>2, Zenon
    <3>2. QED BY <2>1, <2>2, <3>1, Zenon
  <2>3. CASE n \notin Good
    <3> DEFINE S == acceptedReplies \ Good
    <3>1. R \ Good = S \cup {n} /\ S \cap {n} = {} /\ S \in SUBSET Beacons /\ {n} \in SUBSET Beacons
      BY <2>3, Zenon DEF QuorumInv
    <3> HIDE DEF S, R
    <3>2. TotalWeight(S \cup {n}) = TotalWeight(S) + TotalWeight({n})
      BY <3>1, Zenon DEF WeightsAdd
    <3>3. TotalWeight({n}) = Weight[n] /\ TotalWeight(S) \in Nat
      BY <3>1, Zenon DEF WeightsAdd
    <3>4. weight[b] <= acceptedWeight[b] + Weight[n] /\ weight[b] \in Nat /\ Weight[n] \in Nat
      BY BootstrapAssumption, Zenon
    <3>5. acceptedWeight[b] <= TotalWeight(S)
      BY <2>1, Zenon DEF S
    <3>6. QED BY <2>1, <3>1, <3>2, <3>3, <3>4, <3>5
  <2>4. QED BY <2>2, <2>3, Zenon
<1>3. ASSUME R = Beacons
      PROVE  Majority(weight) \subseteq Main
  <2> SUFFICES ASSUME NEW b \in Blocks \ Main PROVE ~(weight[b] > TotalWeight(Beacons) \div 2)
    BY Zenon DEF Majority
  <2> DEFINE W == TotalWeight(Beacons \ Good)
             V == TotalWeight(Good)
             T == TotalWeight(Beacons)
  <2>1. weight[b] <= W /\ weight[b] \in Nat
    BY <1>2, <1>3, Zenon
  <2>2. /\ (Beacons \ Good) \cup Good = Beacons /\ (Beacons \ Good) \cap Good = {}
        /\ Good \in SUBSET Beacons /\ (Beacons \ Good) \in SUBSET Beacons
    BY BootstrapAssumption, Zenon
  <2>3. T = W + V /\ W \in Nat /\ V \in Nat
    BY <2>2, Zenon DEF WeightsAdd
  <2>4. 2 * V > T
    BY BootstrapAssumption, Zenon
  <2> HIDE DEF W, V, T
  <2>5. ~(weight[b] > T \div 2)
    BY <2>1, <2>3, <2>4
  <2>6. QED BY <2>5, Zenon DEF T
<1>4. acceptedTips' \subseteq Main
  BY <1>1, <1>3, Zenon DEF MaybeBeginFetching, QuorumInv
<1>5. QED BY <1>1, <1>2, <1>4, Zenon DEF QuorumInv

LEMMA QuorumStep ==
    ASSUME WeightsAdd, QuorumInv, [Next]_vars
    PROVE  QuorumInv'
<1>1. ASSUME UNCHANGED <<acceptedWeight, acceptedReplies, acceptedTips>>
      PROVE  QuorumInv'
  BY <1>1, Zenon DEF QuorumInv
<1>2. ASSUME NEW n \in Beacons, NEW r \in Requests, NEW ids \in SUBSET View(n), Accepted(n, r, ids)
      PROVE  QuorumInv'
  <2> DEFINE weight == [b \in Blocks |-> acceptedWeight[b] + IF b \in ids THEN Weight[n] ELSE 0]
  <2>1. acceptedWeight \in [Blocks -> Nat] /\ Weight[n] \in Nat
    BY BootstrapAssumption, Zenon DEF QuorumInv
  <2>2. weight \in [Blocks -> Nat]
        /\ \A b \in Blocks : weight[b] <= acceptedWeight[b] + Weight[n]
    BY <2>1
  <2>3. n \in Good => \A b \in Blocks \ Main : weight[b] = acceptedWeight[b]
    BY <2>1 DEF View
  <2>4. n \notin acceptedReplies /\ MaybeBeginFetching(n, weight)
    BY <1>2, Zenon DEF Accepted
  <2> HIDE DEF weight
  <2>5. QED BY <2>2, <2>3, <2>4, ResponseCounts, Zenon
<1>3. ASSUME NEW n \in Beacons, NEW r \in Requests, GetAcceptedFailed(n, r)
      PROVE  QuorumInv'
  <2>1. /\ acceptedWeight \in [Blocks -> Nat]
        /\ \A b \in Blocks : acceptedWeight[b] <= acceptedWeight[b] + Weight[n]
    BY BootstrapAssumption DEF QuorumInv
  <2>2. n \notin acceptedReplies /\ MaybeBeginFetching(n, acceptedWeight)
    BY <1>3, Zenon DEF GetAcceptedFailed
  <2>3. QED BY <2>1, <2>2, ResponseCounts, Zenon
<1>4. CASE UNCHANGED vars
  BY <1>1, <1>4, Zenon DEF vars, agreeVars
<1>5. CASE FrontierNext
  BY <1>1, <1>5, Zenon DEF FrontierNext, AcceptedFrontier, GetAcceptedFrontierFailed
<1>6. CASE Start \/ FetchTip \/ ProcessBlock \/ ExecuteBlock \/ ExecuteFails
           \/ ExecuteHalted \/ Finish \/ Halt
  BY <1>1, <1>6, Zenon
  DEF Start, FetchTip, ProcessBlock, ExecuteBlock, ExecuteFails, ExecuteHalted,
      Finish, Halt, agreeVars
<1>7. ASSUME NEW n \in Beacons, NEW r \in Requests,
             \/ \E reply \in SUBSET Blocks : Ancestors(n, r, reply)
             \/ AncestorsUseless(n, r)
             \/ AncestorsUnparsable(n, r)
      PROVE  QuorumInv'
  BY <1>1, <1>7, Zenon DEF Ancestors, AncestorsUseless, AncestorsUnparsable,
                           agreeVars
<1>8. QED BY <1>2, <1>3, <1>4, <1>5, <1>6, <1>7, Zenon DEF Next, OtherNext

-----------------------------------------------------------------------------
(* The interval tree                                                       *)

INSTANCE Sums

\* The shape of a map: IntervalsApart and the types of its intervals.
Shaped(f) ==
    /\ DOMAIN f \in SUBSET Heights
    /\ \A u \in DOMAIN f : f[u] \in [lower : Heights, upper : Heights]
    /\ \A u \in DOMAIN f : f[u].upper = u /\ f[u].lower <= u
    /\ \A u, v \in DOMAIN f : u < v => u + 1 < f[v].lower

\* The heights a map covers.
Span(f) == {h \in Heights : \E u \in DOMAIN f : f[u].lower <= h /\ h <= u}

\* The interval from a to b touches no interval of the map but the one at b.
Clear(f, a, b) ==
    \A v \in DOMAIN f \ {b} : v + 1 < a \/ b + 1 < f[v].lower

LEMMA DropShaped ==
    ASSUME NEW f, Shaped(f), NEW k \in DOMAIN f
    PROVE  /\ Shaped(Drop(f, k))
           /\ Span(Drop(f, k)) = Span(f) \ (f[k].lower .. k)
<1>1. DOMAIN Drop(f, k) = DOMAIN f \ {k}
      /\ \A u \in DOMAIN f \ {k} : Drop(f, k)[u] = f[u]
  BY Zenon DEF Drop
<1>2. Shaped(Drop(f, k))
  BY <1>1, Zenon DEF Shaped
<1>3. ASSUME NEW h \in Heights
      PROVE  h \in Span(Drop(f, k)) <=> h \in Span(f) \ (f[k].lower .. k)
  BY <1>1, MaxHeightAssumption DEF Shaped, Span, Heights
<1>4. Span(Drop(f, k)) \subseteq Heights /\ Span(f) \subseteq Heights
  BY Zenon DEF Span
<1>5. QED BY <1>2, <1>3, <1>4, Zenon

LEMMA InsertShaped ==
    ASSUME NEW f, Shaped(f), NEW a \in Heights, NEW b \in Heights, a <= b,
           Clear(f, a, b), b \in DOMAIN f => a <= f[b].lower
    PROVE  /\ Shaped(Insert(f, Interval(a, b)))
           /\ Span(Insert(f, Interval(a, b))) = Span(f) \cup (a .. b)
<1> DEFINE g == Insert(f, Interval(a, b))
<1>1. DOMAIN g = DOMAIN f \cup {b}
      /\ g[b] = [lower |-> a, upper |-> b]
      /\ \A u \in DOMAIN f \ {b} : g[u] = f[u]
  BY Zenon DEF Insert, Interval
<1> HIDE DEF g
<1>2. Shaped(g)
  BY <1>1, MaxHeightAssumption DEF Shaped, Clear, Heights
<1>3. ASSUME NEW h \in Heights
      PROVE  h \in Span(g) <=> h \in Span(f) \cup (a .. b)
  BY <1>1, MaxHeightAssumption DEF Shaped, Span, Heights
<1>4. Span(g) \subseteq Heights /\ Span(f) \subseteq Heights /\ a .. b \subseteq Heights
  BY MaxHeightAssumption DEF Span, Heights
<1>5. QED BY <1>2, <1>3, <1>4, Zenon DEF g

\* Inserting replaces what was under the key.
LEMMA InsertReplaces ==
    ASSUME NEW f, NEW a, NEW b
    PROVE  Insert(f, Interval(a, b)) = Insert(Drop(f, b), Interval(a, b))
BY Zenon DEF Insert, Drop, Interval

-----------------------------------------------------------------------------
(* What ceiling and floor find.                                            *)

LEMMA CeilingFound ==
    ASSUME Shaped(known), NEW h \in Heights, NEW i \in Ceiling(h)
    PROVE  /\ i.upper \in DOMAIN known /\ known[i.upper] = i
           /\ i.lower \in Heights /\ i.upper \in Heights /\ i.lower <= i.upper
           /\ h <= i.upper
           /\ \A w \in DOMAIN known : h <= w => i.upper <= w
BY MaxHeightAssumption, Zenon DEF Shaped, Ceiling, Heights

LEMMA FloorFound ==
    ASSUME Shaped(known), NEW h \in Heights, NEW j \in Floor(h)
    PROVE  /\ j.upper \in DOMAIN known /\ known[j.upper] = j
           /\ j.lower \in Heights /\ j.upper \in Heights /\ j.lower <= j.upper
           /\ j.upper <= h
           /\ \A w \in DOMAIN known : w <= h => w <= j.upper
BY MaxHeightAssumption, Zenon DEF Shaped, Floor, Heights

\* The interval that covers a height, or starts right above it, is its ceiling;
\* the one that ends right below it is its floor unless the height is covered.
LEMMA CeilingFinds ==
    ASSUME Shaped(known), NEW h \in Heights, NEW u \in DOMAIN known,
           h <= u, known[u].lower <= h + 1
    PROVE  known[u] \in Ceiling(h)
<1>1. \A w \in DOMAIN known : w >= h => u <= w
  BY MaxHeightAssumption DEF Shaped, Heights
<1>2. QED BY <1>1, MaxHeightAssumption, Zenon DEF Ceiling, Shaped, Heights

LEMMA ContainsSpan ==
    ASSUME Shaped(known), NEW h \in Heights
    PROVE  Contains(h) <=> h \in Span(known)
<1>1. ASSUME Contains(h) PROVE h \in Span(known)
  BY <1>1, CeilingFound, Zenon DEF Contains, Covers, Span
<1>2. ASSUME NEW u \in DOMAIN known, known[u].lower <= h, h <= u
      PROVE  Contains(h)
  <2>1. known[u] \in Ceiling(h)
    BY <1>2, CeilingFinds, MaxHeightAssumption DEF Shaped, Heights
  <2>2. QED BY <2>1, <1>2, Zenon DEF Contains, Covers, Shaped
<1>3. QED BY <1>1, <1>2, Zenon DEF Span

LEMMA FloorFinds ==
    ASSUME Shaped(known), NEW h \in Heights, h \notin Span(known),
           NEW u \in DOMAIN known, u + 1 = h
    PROVE  known[u] \in Floor(h)
<1>1. \A w \in DOMAIN known : w <= h => w <= u
  BY MaxHeightAssumption DEF Shaped, Heights, Span
<1>2. QED BY <1>1, MaxHeightAssumption DEF Floor, Shaped, Heights

-----------------------------------------------------------------------------
(* add.                                                                    *)

\* Around a height that is not covered: an interval lies above it or below.
LEMMA Around ==
    ASSUME Shaped(known), NEW h \in Heights, h \notin Span(known),
           NEW v \in DOMAIN known
    PROVE  v < h \/ h < known[v].lower
BY MaxHeightAssumption DEF Shaped, Span, Heights

LEMMA MergeAdds ==
    ASSUME Shaped(known), NEW h \in Heights, h \notin Span(known), Merge(h)
    PROVE  Shaped(known') /\ Span(known') = Span(known) \cup {h}
<1>1. PICK i \in Ceiling(h), j \in Floor(h) :
        /\ AdjacentToLowerBound(i, h) /\ AdjacentToUpperBound(j, h)
        /\ known' = Insert(Drop(known, j.upper), Interval(j.lower, i.upper))
  BY Zenon DEF Merge
<1>2. h + 1 = i.lower /\ j.upper + 1 = h
  BY <1>1, Zenon DEF AdjacentToLowerBound, AdjacentToUpperBound
<1>3. /\ i.upper \in DOMAIN known /\ known[i.upper] = i
      /\ i.lower \in Heights /\ i.upper \in Heights /\ i.lower <= i.upper
  BY CeilingFound, Zenon
<1>4. /\ j.upper \in DOMAIN known /\ known[j.upper] = j
      /\ j.lower \in Heights /\ j.upper \in Heights /\ j.lower <= j.upper
  BY FloorFound, Zenon
<1> DEFINE f == Drop(known, j.upper)
<1>5. Shaped(f) /\ Span(f) = Span(known) \ (j.lower .. j.upper)
  BY <1>4, DropShaped, Zenon
<1>6. DOMAIN f = DOMAIN known \ {j.upper} /\ \A u \in DOMAIN f : f[u] = known[u]
  BY Zenon DEF Drop
<1> HIDE DEF f
<1>7. \A v \in DOMAIN known : v < j.upper => v + 1 < j.lower
  BY <1>4, Zenon DEF Shaped
<1>8. \A v \in DOMAIN known : i.upper < v => i.upper + 1 < known[v].lower
  BY <1>3, Zenon DEF Shaped
<1>9. \A v \in DOMAIN known : v # j.upper /\ v # i.upper => v < j.upper \/ i.upper < v
  BY <1>2, <1>3, <1>4, Around, MaxHeightAssumption DEF Heights, Shaped
<1>10. Clear(f, j.lower, i.upper)
  BY <1>6, <1>7, <1>8, <1>9, Zenon DEF Clear
<1>11. j.lower <= i.upper /\ (i.upper \in DOMAIN f => j.lower <= f[i.upper].lower)
  BY <1>2, <1>3, <1>4, <1>6, MaxHeightAssumption DEF Heights
<1>12. Shaped(known') /\ Span(known') = Span(f) \cup (j.lower .. i.upper)
  BY <1>1, <1>3, <1>4, <1>5, <1>10, <1>11, InsertShaped DEF f
<1>13. i.lower .. i.upper \subseteq Span(known) /\ j.lower .. j.upper \subseteq Span(known)
  BY <1>3, <1>4, MaxHeightAssumption DEF Span, Heights
<1>14. j.lower .. i.upper = (j.lower .. j.upper) \cup {h} \cup (i.lower .. i.upper)
  BY <1>2, <1>3, <1>4, MaxHeightAssumption DEF Heights
<1>15. QED BY <1>5, <1>12, <1>13, <1>14, Zenon

LEMMA ExtendDownAdds ==
    ASSUME Shaped(known), NEW h \in Heights, h \notin Span(known), ExtendDown(h)
    PROVE  Shaped(known') /\ Span(known') = Span(known) \cup {h}
<1>1. PICK i \in Ceiling(h) :
        /\ AdjacentToLowerBound(i, h)
        /\ \A j \in Floor(h) : ~AdjacentToUpperBound(j, h)
        /\ known' = Insert(known, Interval(h, i.upper))
  BY Zenon DEF ExtendDown
<1>2. h + 1 = i.lower
  BY <1>1, Zenon DEF AdjacentToLowerBound
<1>3. /\ i.upper \in DOMAIN known /\ known[i.upper] = i
      /\ i.lower \in Heights /\ i.upper \in Heights /\ i.lower <= i.upper
  BY CeilingFound, Zenon
<1>4. \A v \in DOMAIN known : v + 1 # h
  BY <1>1, FloorFinds, MaxHeightAssumption DEF AdjacentToUpperBound, Shaped, Heights
<1>5. \A v \in DOMAIN known : i.upper < v => i.upper + 1 < known[v].lower
  BY <1>3, Zenon DEF Shaped
<1>6. Clear(known, h, i.upper)
  BY <1>2, <1>3, <1>4, <1>5, Around, MaxHeightAssumption DEF Clear, Shaped, Heights
<1>7. h <= i.upper /\ h <= known[i.upper].lower
  BY <1>2, <1>3, MaxHeightAssumption DEF Heights
<1>8. Shaped(known') /\ Span(known') = Span(known) \cup (h .. i.upper)
  BY <1>1, <1>3, <1>6, <1>7, InsertShaped, Zenon
<1>9. i.lower .. i.upper \subseteq Span(known)
  BY <1>3, MaxHeightAssumption DEF Span, Heights
<1>10. h .. i.upper = {h} \cup (i.lower .. i.upper)
  BY <1>2, <1>3, MaxHeightAssumption DEF Heights
<1>11. QED BY <1>8, <1>9, <1>10, Zenon

LEMMA ExtendUpAdds ==
    ASSUME Shaped(known), NEW h \in Heights, h \notin Span(known), ExtendUp(h)
    PROVE  Shaped(known') /\ Span(known') = Span(known) \cup {h}
<1>1. PICK j \in Floor(h) :
        /\ AdjacentToUpperBound(j, h)
        /\ \A i \in Ceiling(h) : ~AdjacentToLowerBound(i, h)
        /\ known' = Insert(Drop(known, j.upper), Interval(j.lower, h))
  BY Zenon DEF ExtendUp
<1>2. j.upper + 1 = h
  BY <1>1, Zenon DEF AdjacentToUpperBound
<1>3. /\ j.upper \in DOMAIN known /\ known[j.upper] = j
      /\ j.lower \in Heights /\ j.upper \in Heights /\ j.lower <= j.upper
  BY FloorFound, Zenon
<1> DEFINE f == Drop(known, j.upper)
<1>4. Shaped(f) /\ Span(f) = Span(known) \ (j.lower .. j.upper)
  BY <1>3, DropShaped, Zenon
<1>5. DOMAIN f = DOMAIN known \ {j.upper} /\ \A u \in DOMAIN f : f[u] = known[u]
  BY Zenon DEF Drop
<1> HIDE DEF f
<1>6. ASSUME NEW v \in DOMAIN known, known[v].lower = h + 1 PROVE FALSE
  <2>1. h <= v /\ known[v].lower <= h + 1
    BY <1>6, MaxHeightAssumption DEF Shaped, Heights
  <2>2. known[v] \in Ceiling(h)
    BY <2>1, CeilingFinds, Zenon
  <2>3. h < MaxHeight
    BY <1>6, MaxHeightAssumption DEF Shaped, Heights
  <2>4. QED BY <1>1, <1>6, <2>2, <2>3, Zenon DEF AdjacentToLowerBound
<1>7. h \notin DOMAIN known
  BY Around, MaxHeightAssumption DEF Shaped, Heights
<1>8. \A v \in DOMAIN known : v < j.upper => v + 1 < j.lower
  BY <1>3, Zenon DEF Shaped
<1>9. Clear(f, j.lower, h)
  BY <1>2, <1>3, <1>5, <1>6, <1>8, Around, MaxHeightAssumption
     DEF Clear, Shaped, Heights
<1>10. Shaped(known') /\ Span(known') = Span(f) \cup (j.lower .. h)
  <2>1. j.lower <= h /\ h \notin DOMAIN f
    BY <1>2, <1>3, <1>5, <1>7, MaxHeightAssumption DEF Heights
  <2>2. QED BY <1>1, <1>3, <1>4, <1>9, <2>1, InsertShaped DEF f
<1>11. j.lower .. j.upper \subseteq Span(known)
  BY <1>3, MaxHeightAssumption DEF Span, Heights
<1>12. j.lower .. h = (j.lower .. j.upper) \cup {h}
  BY <1>2, <1>3, MaxHeightAssumption DEF Heights
<1>13. QED BY <1>4, <1>10, <1>11, <1>12, Zenon

LEMMA SingletonAdds ==
    ASSUME Shaped(known), NEW h \in Heights, h \notin Span(known), Singleton(h)
    PROVE  Shaped(known') /\ Span(known') = Span(known) \cup {h}
<1>1. ASSUME NEW v \in DOMAIN known, known[v].lower = h + 1 PROVE FALSE
  <2>1. h <= v /\ known[v].lower <= h + 1
    BY <1>1, MaxHeightAssumption DEF Shaped, Heights
  <2>2. known[v] \in Ceiling(h)
    BY <2>1, CeilingFinds, Zenon
  <2>3. h < MaxHeight
    BY <1>1, MaxHeightAssumption DEF Shaped, Heights
  <2>4. QED BY <1>1, <2>2, <2>3, Zenon DEF AdjacentToLowerBound, Singleton
<1>2. \A v \in DOMAIN known : v + 1 # h
  BY FloorFinds, MaxHeightAssumption DEF AdjacentToUpperBound, Shaped, Heights,
                                         Singleton
<1>3. h \notin DOMAIN known
  BY Around, MaxHeightAssumption DEF Shaped, Heights
<1>4. Clear(known, h, h)
  BY <1>1, <1>2, Around, MaxHeightAssumption DEF Clear, Shaped, Heights
<1>5. Shaped(known') /\ Span(known') = Span(known) \cup (h .. h)
  BY <1>3, <1>4, InsertShaped, MaxHeightAssumption DEF Singleton, Heights
<1>6. h .. h = {h}
  BY MaxHeightAssumption DEF Heights
<1>7. QED BY <1>5, <1>6, Zenon

\* add(h) adds the height h.
LEMMA AddAdds ==
    ASSUME Shaped(known), NEW h \in Heights, Add(h)
    PROVE  /\ h \notin Span(known)
           /\ Shaped(known') /\ Span(known') = Span(known) \cup {h}
<1>1. h \notin Span(known)
  BY ContainsSpan, Zenon DEF Add
<1>2. QED
  BY <1>1, MergeAdds, ExtendDownAdds, ExtendUpAdds, SingletonAdds, Zenon DEF Add

-----------------------------------------------------------------------------
(* remove.                                                                 *)

\* remove(h) removes the height h.
LEMMA RemoveRemoves ==
    ASSUME Shaped(known), NEW h \in Heights, Remove(h)
    PROVE  /\ h \in Span(known)
           /\ Shaped(known') /\ Span(known') = Span(known) \ {h}
<1>1. PICK i \in Ceiling(h) :
        /\ Covers(i, h)
        /\ known' = IF i.lower = i.upper THEN Drop(known, h)
                    ELSE IF i.lower = h THEN Insert(known, Interval(h + 1, i.upper))
                    ELSE IF i.upper = h
                    THEN Insert(Drop(known, h), Interval(i.lower, h - 1))
                    ELSE Insert(Insert(known, Interval(i.lower, h - 1)),
                                Interval(h + 1, i.upper))
  BY Zenon DEF Remove
<1> DEFINE a == i.lower
           b == i.upper
           f == Drop(known, b)
<1>2. /\ b \in DOMAIN known /\ known[b] = i
      /\ a \in Heights /\ b \in Heights /\ a <= h /\ h <= b
  BY <1>1, CeilingFound, Zenon DEF Covers
<1>3. Shaped(f) /\ Span(f) = Span(known) \ (a .. b)
  BY <1>2, DropShaped, Zenon
<1>4. DOMAIN f = DOMAIN known \ {b} /\ \A u \in DOMAIN f : f[u] = known[u]
  BY Zenon DEF Drop
<1>5. a .. b \subseteq Span(known)
  BY <1>2, MaxHeightAssumption DEF Span, Heights
<1>6. h \in Span(known)
  BY <1>2, <1>5, MaxHeightAssumption DEF Heights
<1>7. \A v \in DOMAIN f : v + 1 < a \/ b + 1 < f[v].lower
  BY <1>2, <1>4, MaxHeightAssumption DEF Shaped, Heights
<1>8. \A v \in DOMAIN f : v < a \/ b < v
  BY <1>2, <1>3, <1>7, MaxHeightAssumption DEF Shaped, Heights
<1>9. CASE a = b
  <2>1. h = b /\ known' = f /\ a .. b = {h}
    BY <1>1, <1>2, <1>9, MaxHeightAssumption DEF Heights
  <2>2. QED BY <1>3, <1>6, <2>1, Zenon
<1> HIDE DEF f
<1>10. CASE a # b /\ a = h
  <2>1. known' = Insert(f, Interval(h + 1, b))
    BY <1>1, <1>10, InsertReplaces, Zenon DEF f
  <2>2. h + 1 \in Heights /\ h + 1 <= b /\ b \notin DOMAIN f
    BY <1>2, <1>4, <1>10, MaxHeightAssumption DEF Heights
  <2>3. Clear(f, h + 1, b)
    BY <1>2, <1>3, <1>7, <1>10, MaxHeightAssumption DEF Clear, Heights, Shaped
  <2>4. Shaped(known') /\ Span(known') = Span(f) \cup (h + 1 .. b)
    BY <1>2, <1>3, <2>1, <2>2, <2>3, InsertShaped
  <2>5. a .. b = {h} \cup (h + 1 .. b) /\ h \notin h + 1 .. b
    BY <1>2, <1>10, MaxHeightAssumption DEF Heights
  <2>6. QED BY <1>3, <1>5, <1>6, <2>4, <2>5, Zenon
<1>11. CASE a # b /\ a # h /\ b = h
  <2>1. known' = Insert(f, Interval(a, h - 1))
    BY <1>1, <1>11, Zenon DEF f
  <2>2. h - 1 \in Heights /\ a <= h - 1 /\ h - 1 \notin DOMAIN f
    BY <1>2, <1>8, <1>11, MaxHeightAssumption DEF Heights
  <2>3. Clear(f, a, h - 1)
    BY <1>2, <1>3, <1>7, <1>11, MaxHeightAssumption DEF Clear, Heights, Shaped
  <2>4. Shaped(known') /\ Span(known') = Span(f) \cup (a .. h - 1)
    BY <1>2, <1>3, <2>1, <2>2, <2>3, InsertShaped
  <2>5. a .. b = {h} \cup (a .. h - 1) /\ h \notin a .. h - 1
    BY <1>2, <1>11, MaxHeightAssumption DEF Heights
  <2>6. QED BY <1>3, <1>5, <1>6, <2>4, <2>5, Zenon
<1>12. CASE a # b /\ a # h /\ b # h
  <2> DEFINE g == Insert(f, Interval(a, h - 1))
  <2>2. known' = Insert(g, Interval(h + 1, b))
    <3>1. Insert(Insert(known, Interval(a, h - 1)), Interval(h + 1, b))
            = Insert(Drop(Insert(known, Interval(a, h - 1)), b), Interval(h + 1, b))
      BY InsertReplaces
    <3>2. b # h - 1
      BY <1>2, <1>12, MaxHeightAssumption DEF Heights
    <3>3. Drop(Insert(known, Interval(a, h - 1)), b) = g
      BY <3>2, Zenon DEF Insert, Drop, Interval, f
    <3>4. QED BY <1>1, <1>12, <3>1, <3>3, Zenon
  <2>3. h - 1 \in Heights /\ a <= h - 1 /\ h - 1 \notin DOMAIN f
    BY <1>2, <1>8, <1>12, MaxHeightAssumption DEF Heights
  <2>4. Clear(f, a, h - 1)
    BY <1>2, <1>3, <1>7, <1>12, MaxHeightAssumption DEF Clear, Heights, Shaped
  <2>5. Shaped(g) /\ Span(g) = Span(f) \cup (a .. h - 1)
    BY <1>2, <1>3, <2>3, <2>4, InsertShaped
  <2>6. /\ DOMAIN g = DOMAIN f \cup {h - 1} /\ b \notin DOMAIN g
        /\ \A u \in DOMAIN f : u # h - 1 => g[u] = f[u]
    BY <1>2, <1>4, <1>12, MaxHeightAssumption DEF Insert, Interval, Heights
  <2> HIDE DEF g
  <2>7. h + 1 \in Heights /\ h + 1 <= b
    BY <1>2, <1>12, MaxHeightAssumption DEF Heights
  <2>8. Clear(g, h + 1, b)
    BY <1>2, <1>3, <1>7, <2>3, <2>6, MaxHeightAssumption DEF Clear, Heights, Shaped
  <2>9. Shaped(known') /\ Span(known') = Span(g) \cup (h + 1 .. b)
    BY <1>2, <2>2, <2>5, <2>6, <2>7, <2>8, InsertShaped
  <2>10. a .. b = (a .. h - 1) \cup {h} \cup (h + 1 .. b)
         /\ h \notin a .. h - 1 /\ h \notin h + 1 .. b
    BY <1>2, <1>12, MaxHeightAssumption DEF Heights
  <2>11. QED BY <1>3, <1>5, <1>6, <2>5, <2>9, <2>10, Zenon
<1>13. QED BY <1>9, <1>10, <1>11, <1>12, Zenon

-----------------------------------------------------------------------------
(* The specification.                                                      *)

\* The inductive invariant.
TreeInv == TreeTypeOK /\ IntervalsApart /\ LenIsExact

LEMMA ShapedIsApart ==
    Shaped(known) <=>
        /\ DOMAIN known \in SUBSET Heights
        /\ \A u \in DOMAIN known : known[u] \in [lower : Heights, upper : Heights]
        /\ IntervalsApart
BY Zenon DEF Shaped, IntervalsApart

LEMMA TrackedIsSpan ==
    ASSUME Shaped(known) PROVE Tracked = Span(known)
BY Zenon DEF Shaped, Tracked, Span, Covers

LEMMA SpanFinite ==
    ASSUME NEW f
    PROVE  /\ IsFiniteSet(Span(f)) /\ Cardinality(Span(f)) \in Nat
           /\ Cardinality(Span(f)) <= MaxHeight + 1
<1>1. IsFiniteSet(Heights) /\ Cardinality(Heights) = MaxHeight + 1
  BY FS_Interval, MaxHeightAssumption DEF Heights
<1>2. Span(f) \in SUBSET Heights
  BY Zenon DEF Span
<1>3. QED BY <1>1, <1>2, FS_Subset, FS_CardinalityType, Zenon

\* Counting up and down modulo the width.
LEMMA Wraps ==
    ASSUME NEW c \in Nat, c <= MaxHeight + 1
    PROVE  /\ c % (MaxHeight + 1) \in Heights
           /\ c <= MaxHeight =>
                (c + 1) % (MaxHeight + 1) = ((c % (MaxHeight + 1)) + 1) % (MaxHeight + 1)
           /\ c > 0 =>
                (c - 1) % (MaxHeight + 1) = ((c % (MaxHeight + 1)) - 1) % (MaxHeight + 1)
<1> DEFINE m == MaxHeight + 1
<1>1. m \in Nat /\ m > 0
  BY MaxHeightAssumption
<1>2. CASE c = m
  <2>1. c % m = 0 /\ (c - 1) % m = m - 1
    BY <1>1, <1>2
  <2>2. (0 - 1) % m = m - 1
    BY <1>1
  <2>3. QED BY <1>1, <1>2, <2>1, <2>2, MaxHeightAssumption DEF Heights
<1>3. CASE c < m
  <2>1. c % m = c
    BY <1>1, <1>3
  <2>2. QED BY <1>1, <1>3, <2>1, MaxHeightAssumption DEF Heights
<1>4. QED BY <1>2, <1>3, MaxHeightAssumption

LEMMA TreeInitially == TreeInit => TreeInv /\ HS!HeightSetInit
<1> SUFFICES ASSUME TreeInit PROVE TreeInv /\ HS!HeightSetInit
  BY Zenon
<1>1. DOMAIN known = {} /\ numKnown = 0
  BY Zenon DEF TreeInit
<1>2. Tracked = {}
  BY <1>1, Zenon DEF Tracked
<1>3. Cardinality({}) = 0
  BY FS_EmptySet, Zenon
<1>4. 0 % (MaxHeight + 1) = 0 /\ 0 \in Heights
  BY MaxHeightAssumption DEF Heights
<1>5. QED
  BY <1>1, <1>2, <1>3, <1>4, Zenon DEF TreeInv, TreeTypeOK, IntervalsApart,
                                       LenIsExact, HS!HeightSetInit

LEMMA TreeStep ==
    ASSUME TreeInv, TreeNext
    PROVE  TreeInv' /\ HS!HeightSetNext
<1>1. Shaped(known) /\ Tracked = Span(known)
  BY ShapedIsApart, TrackedIsSpan, Zenon DEF TreeInv, TreeTypeOK
<1>2. numKnown = Cardinality(Span(known)) % (MaxHeight + 1)
  BY <1>1, Zenon DEF TreeInv, LenIsExact
<1> DEFINE c == Cardinality(Span(known))
<1>3. IsFiniteSet(Span(known)) /\ c \in Nat /\ c <= MaxHeight + 1
  BY SpanFinite, Zenon
<1>4. IsFiniteSet(Span(known')) /\ Cardinality(Span(known')) \in Nat
      /\ Cardinality(Span(known')) <= MaxHeight + 1
  BY SpanFinite, Zenon
<1>5. ASSUME Shaped(known'), numKnown' = Cardinality(Span(known')) % (MaxHeight + 1)
      PROVE  TreeInv' /\ Tracked' = Span(known')
  <2>1. Tracked' = Span(known')
    BY <1>5, Zenon DEF Shaped, Tracked, Span, Covers
  <2>2. numKnown' \in Heights
    BY <1>4, <1>5, Wraps, Zenon
  <2>3. QED
    BY <1>5, <2>1, <2>2, Zenon DEF TreeInv, TreeTypeOK, IntervalsApart, LenIsExact,
                                   Shaped
<1>6. ASSUME NEW h \in Heights, Add(h) PROVE TreeInv' /\ HS!HeightSetNext
  <2>1. h \notin Span(known) /\ Shaped(known') /\ Span(known') = Span(known) \cup {h}
    BY <1>1, <1>6, AddAdds, Zenon
  <2>2. Cardinality(Span(known')) = c + 1
    BY <1>3, <2>1, FS_AddElement, SMTT(20)
  <2>3. c <= MaxHeight
    BY <1>3, <1>4, <2>2, MaxHeightAssumption
  <2>4. numKnown' = ((c % (MaxHeight + 1)) + 1) % (MaxHeight + 1)
    BY <1>2, <1>6, Zenon DEF Add, Bump
  <2> HIDE DEF c
  <2>5. numKnown' = Cardinality(Span(known')) % (MaxHeight + 1)
    BY <1>3, <2>2, <2>3, <2>4, Wraps, Zenon
  <2>6. QED BY <1>1, <1>5, <2>1, <2>5, Zenon DEF HS!HeightSetNext, HS!Include
<1>7. ASSUME NEW h \in Heights, Remove(h) PROVE TreeInv' /\ HS!HeightSetNext
  <2>1. h \in Span(known) /\ Shaped(known') /\ Span(known') = Span(known) \ {h}
    BY <1>1, <1>7, RemoveRemoves, Zenon
  <2>2. Cardinality(Span(known')) = c - 1
    BY <1>3, <2>1, FS_RemoveElement, SMTT(20)
  <2>3. c > 0
    BY <1>3, <1>4, <2>2
  <2>4. numKnown' = ((c % (MaxHeight + 1)) - 1) % (MaxHeight + 1)
    BY <1>2, <1>7, Zenon DEF Remove
  <2> HIDE DEF c
  <2>5. numKnown' = Cardinality(Span(known')) % (MaxHeight + 1)
    BY <1>3, <2>2, <2>3, <2>4, Wraps, Zenon
  <2>6. QED BY <1>1, <1>5, <2>1, <2>5, Zenon DEF HS!HeightSetNext, HS!Exclude
<1>8. QED BY <1>6, <1>7, Zenon DEF TreeNext

LEMMA TreeStutter ==
    ASSUME TreeInv, UNCHANGED treeVars
    PROVE  TreeInv' /\ UNCHANGED Tracked
BY Zenon DEF TreeInv, TreeTypeOK, IntervalsApart, LenIsExact, treeVars, Tracked,
             Covers

\* Whatever heights are added and removed, in whatever order: the intervals
\* stay apart and len() counts the heights they cover.
THEOREM TreeInvariant == TreeSpec => []TreeInv
<1>1. TreeInv /\ [TreeNext]_treeVars => TreeInv'
  BY TreeStep, TreeStutter, Zenon
<1>2. QED BY TreeInitially, <1>1, PTL DEF TreeSpec

\* No two intervals overlap or touch, for any width of a height.
THEOREM TreeIntervalsApart == TreeSpec => []IntervalsApart
<1>1. TreeInv => IntervalsApart
  BY Zenon DEF TreeInv
<1>2. QED BY TreeInvariant, <1>1, PTL

\* len() is exact, at the wrap-around to 0 too, and contains(h), which looks at
\* one interval, misses none.
THEOREM TreeQueriesAreExact == TreeSpec => []QueriesAreExact
<1>1. TreeInv => LenIsExact
  BY Zenon DEF TreeInv
<1>2. TreeInv => \A h \in Heights : Contains(h) <=> h \in Tracked
  BY ShapedIsApart, TrackedIsSpan, ContainsSpan, Zenon DEF TreeInv, TreeTypeOK
<1>3. QED BY TreeInvariant, <1>1, <1>2, PTL DEF QueriesAreExact

\* add and remove are the operations of a set of heights.
THEOREM TreeImplementsHeightSet == TreeSpec => ImplementsHeightSet
<1>1. ASSUME TreeInv, [TreeNext]_treeVars, TreeInv'
      PROVE  \A h \in Heights : (Add(h) => HS!Include(h)) /\ (Remove(h) => HS!Exclude(h))
  <2>1. Shaped(known) /\ Tracked = Span(known)
    BY <1>1, ShapedIsApart, TrackedIsSpan, Zenon DEF TreeInv, TreeTypeOK
  <2>2. Shaped(known') => Tracked' = Span(known')
    BY Zenon DEF Shaped, Tracked, Span, Covers
  <2>3. QED BY <2>1, <2>2, AddAdds, RemoveRemoves, Zenon DEF HS!Include, HS!Exclude
<1>2. TreeInv /\ [TreeNext]_treeVars /\ TreeInv'
        => [\A h \in Heights : (Add(h) => HS!Include(h)) /\ (Remove(h) => HS!Exclude(h))]_treeVars
  BY <1>1, Zenon
<1>3. QED BY TreeInitially, TreeInvariant, <1>2, PTL
             DEF TreeSpec, ImplementsHeightSet

\* Every behaviour of the interval tree is one of a set of heights.
THEOREM TreeRefinesHeightSet == TreeSpec => HS!HeightSetSpec
<1>1. TreeInv /\ [TreeNext]_treeVars => [HS!HeightSetNext]_Tracked
  BY TreeStep, TreeStutter, Zenon
<1>2. QED BY TreeInitially, TreeInvariant, <1>1, PTL DEF TreeSpec, HS!HeightSetSpec

-----------------------------------------------------------------------------
(* The bootstrapper keeps its heights in the tree                          *)

\* A set of heights that is not empty has a least element.
LEMMA LeastHeight ==
    ASSUME NEW S, S \subseteq Heights, S # {}
    PROVE  Min(S) \in S /\ \A y \in S : Min(S) <= y
<1>1. S \subseteq Nat
  BY MaxHeightAssumption DEF Heights
<1>2. PICK x \in S : \A y \in S : x <= y
  BY <1>1, SmallestNumber, Zenon
<1>3. QED BY <1>2, ZenonT(20) DEF Min

\* add and remove change the tracked heights by the one height.
LEMMA AddTracks ==
    ASSUME TreeInv, NEW h \in Heights, Add(h)
    PROVE  Tracked' = Tracked \cup {h}
<1>1. Shaped(known) /\ Tracked = Span(known)
  BY ShapedIsApart, TrackedIsSpan, Zenon DEF TreeInv, TreeTypeOK
<1>2. Shaped(known') /\ Span(known') = Span(known) \cup {h}
  BY <1>1, AddAdds, Zenon
<1>3. Tracked' = Span(known')
  BY <1>2, Zenon DEF Shaped, Tracked, Span, Covers
<1>4. QED BY <1>1, <1>2, <1>3, Zenon

LEMMA RemoveTracks ==
    ASSUME TreeInv, NEW h \in Heights, Remove(h)
    PROVE  Tracked' = Tracked \ {h}
<1>1. Shaped(known) /\ Tracked = Span(known)
  BY ShapedIsApart, TrackedIsSpan, Zenon DEF TreeInv, TreeTypeOK
<1>2. Shaped(known') /\ Span(known') = Span(known) \ {h}
  BY <1>1, RemoveRemoves, Zenon
<1>3. Tracked' = Span(known')
  BY <1>2, Zenon DEF Shaped, Tracked, Span, Covers
<1>4. QED BY <1>1, <1>2, <1>3, Zenon

\* A step that leaves the store and the current call alone.
LEMMA WorkKept ==
    ASSUME TreeInv, WorkInv, UNCHANGED storeVars,
           \/ work' = work
           \/ work' = IdleItem
           \/ \E tips : work' = FetchItem(tips)
           \/ \E b \in Blocks, reply \in SUBSET Blocks : work' = WalkItem(b, reply)
           \/ work' = ExecuteItem(DOMAIN blocks)
    PROVE  UNCHANGED treeVars /\ WorkInv'
<1>1. UNCHANGED treeVars /\ blocks' = blocks
  BY Zenon DEF storeVars
<1>2. Tracked' = Tracked
  BY <1>1, TreeStutter, Zenon
<1>3. QED BY <1>1, <1>2 DEF WorkInv, IdleItem, FetchItem, WalkItem, ExecuteItem

\* One turn of process_chain adds a height of the tree and its block, or nothing.
LEMMA ProcessBlockTree ==
    ASSUME TreeInv, WorkInv, ProcessBlock
    PROVE  [TreeNext]_treeVars /\ WorkInv'
<1> DEFINE b == work.blk
<1>1. b \in Blocks /\ work.reply \subseteq Blocks
  BY Zenon DEF ProcessBlock, WorkInv
<1>2. Height[b] \in Heights
  BY <1>1, BlockTreeAssumption, BootstrapAssumption, MaxHeightAssumption DEF Heights
<1>3. /\ \/ Add(Height[b]) /\ blocks' = With(blocks, Height[b], b)
         \/ UNCHANGED storeVars
      /\ \/ work' = ExecuteItem(DOMAIN blocks')
         \/ work' = IdleItem
         \/ Parent[b] \in work.reply /\ work' = WalkItem(Parent[b], work.reply)
  BY Zenon DEF ProcessBlock, TryStartExecuting
<1>4. [TreeNext]_treeVars /\ DOMAIN blocks' = Tracked'
  <2>1. CASE Add(Height[b]) /\ blocks' = With(blocks, Height[b], b)
    <3>1. DOMAIN blocks' = DOMAIN blocks \cup {Height[b]}
      BY <2>1, Zenon DEF With
    <3>2. Tracked' = Tracked \cup {Height[b]}
      BY <1>2, <2>1, AddTracks, Zenon
    <3>3. TreeNext
      BY <1>2, <2>1, Zenon DEF TreeNext
    <3>4. QED BY <3>1, <3>2, <3>3, Zenon DEF WorkInv
  <2>2. CASE UNCHANGED storeVars
    <3>1. UNCHANGED treeVars /\ blocks' = blocks
      BY <2>2, Zenon DEF storeVars
    <3>2. QED BY <3>1, TreeStutter, Zenon DEF WorkInv
  <2>3. QED BY <1>3, <2>1, <2>2, Zenon
<1>5. work'.op = "walk" => work'.blk \in Blocks /\ work'.reply \subseteq Blocks
  BY <1>1, <1>3 DEF IdleItem, WalkItem, ExecuteItem
<1>6. work'.op = "execute" => work'.left \subseteq DOMAIN blocks'
  BY <1>3 DEF IdleItem, WalkItem, ExecuteItem
<1>7. QED BY <1>4, <1>5, <1>6, Zenon DEF WorkInv

\* One turn of execute removes the lowest height and its block.
LEMMA ExecuteTree ==
    ASSUME TreeInv, WorkInv, ExecuteBlock \/ ExecuteFails
    PROVE  TreeNext /\ WorkInv'
<1> DEFINE h == Min(work.left)
<1>1. /\ work.left # {} /\ work.left \subseteq DOMAIN blocks
      /\ TakeLowest(h)
      /\ work' = ExecuteItem(work.left \ {h}) \/ work' = IdleItem
  BY Zenon DEF ExecuteBlock, ExecuteFails, WorkInv
<1>2. DOMAIN blocks = Tracked /\ Tracked \subseteq Heights
  BY Zenon DEF WorkInv, Tracked
<1>3. h \in work.left
  BY <1>1, <1>2, LeastHeight, Zenon
<1>4. h \in Heights /\ Remove(h) /\ DOMAIN blocks' = DOMAIN blocks \ {h}
  BY <1>1, <1>2, <1>3, Zenon DEF TakeLowest, Without, Restrict
<1>5. Tracked' = Tracked \ {h}
  BY <1>4, RemoveTracks, Zenon
<1>6. WorkInv'
  BY <1>1, <1>2, <1>4, <1>5 DEF WorkInv, ExecuteItem, IdleItem
<1>7. QED BY <1>4, <1>6, Zenon DEF TreeNext

\* Every other handler leaves the tree alone.
LEMMA BootstrapStep ==
    ASSUME TreeInv, WorkInv, [Next]_vars
    PROVE  [TreeNext]_treeVars /\ WorkInv'
<1> DEFINE kept == UNCHANGED storeVars
           calm == \/ work' = work
                   \/ work' = IdleItem
                   \/ \E tips : work' = FetchItem(tips)
                   \/ \E b \in Blocks, reply \in SUBSET Blocks : work' = WalkItem(b, reply)
                   \/ work' = ExecuteItem(DOMAIN blocks)
<1>1. ASSUME kept, calm
      PROVE  [TreeNext]_treeVars /\ WorkInv'
  BY <1>1, WorkKept, Zenon
<1>2. CASE UNCHANGED vars
  BY <1>1, <1>2, Zenon DEF vars
<1>3. CASE FrontierNext
  <2>1. kept /\ calm
    BY <1>3, Zenon DEF FrontierNext, AcceptedFrontier, GetAcceptedFrontierFailed
  <2>2. QED BY <1>1, <2>1, Zenon
<1>4. CASE Start \/ ExecuteHalted \/ Finish \/ Halt
  <2>1. kept /\ calm
    BY <1>4, Zenon DEF Start, ExecuteHalted, Finish, Halt
  <2>2. QED BY <1>1, <2>1, Zenon
<1>5. ASSUME NEW n \in Beacons, NEW r \in Requests,
             \/ \E ids \in SUBSET View(n) : Accepted(n, r, ids)
             \/ GetAcceptedFailed(n, r)
      PROVE  [TreeNext]_treeVars /\ WorkInv'
  <2>1. kept /\ calm
    BY <1>5, Zenon DEF Accepted, GetAcceptedFailed, MaybeBeginFetching
  <2>2. QED BY <1>1, <2>1, Zenon
<1>6. ASSUME NEW n \in Beacons, NEW r \in Requests, NEW reply \in SUBSET Blocks,
             Ancestors(n, r, reply)
      PROVE  [TreeNext]_treeVars /\ WorkInv'
  <2>1. kept /\ outstanding[<<n, r>>] \in Blocks
        /\ work' = WalkItem(outstanding[<<n, r>>], reply)
    BY <1>6, Zenon DEF Ancestors
  <2>2. calm
    BY <2>1, Zenon
  <2>3. QED BY <1>1, <2>1, <2>2, Zenon
<1>7. ASSUME NEW n \in Beacons, NEW r \in Requests,
             AncestorsUseless(n, r) \/ AncestorsUnparsable(n, r)
      PROVE  [TreeNext]_treeVars /\ WorkInv'
  <2>1. kept /\ calm
    BY <1>7, Zenon DEF AncestorsUseless, AncestorsUnparsable
  <2>2. QED BY <1>1, <2>1, Zenon
<1>8. CASE FetchTip
  <2>1. kept /\ calm
    BY <1>8, Zenon DEF FetchTip, TryStartExecuting
  <2>2. QED BY <1>1, <2>1, Zenon
<1>9. CASE ProcessBlock
  BY <1>9, ProcessBlockTree, Zenon
<1>10. CASE ExecuteBlock \/ ExecuteFails
  BY <1>10, ExecuteTree, Zenon
<1>11. QED
  BY <1>2, <1>3, <1>4, <1>5, <1>6, <1>7, <1>8, <1>9, <1>10, Zenon
     DEF Next, OtherNext

LEMMA StoreInitially == Init => TreeInv /\ WorkInv
<1> SUFFICES ASSUME Init PROVE TreeInv /\ WorkInv
  BY Zenon
<1>1. TreeInv
  BY TreeInitially, Zenon DEF Init
<1>2. DOMAIN blocks = {} /\ Tracked = {} /\ work = IdleItem
  BY Zenon DEF Init, EmptyFun, TreeInit, Tracked
<1>3. QED BY <1>1, <1>2, Zenon DEF WorkInv, IdleItem

\* The bootstrapper's handlers use the tree by add and remove only, and the
\* map of blocks holds a block exactly for the heights the tree tracks, from
\* the first reply to the end of the replay, whatever fails on the way.
THEOREM BootstrapStore == Spec => [](TreeInv /\ WorkInv)
<1>1. TreeInv /\ WorkInv /\ [Next]_vars => TreeInv' /\ WorkInv'
  BY BootstrapStep, TreeStep, TreeStutter, Zenon
<1>2. QED BY <1>1, StoreInitially, PTL DEF Spec

\* Every behaviour of the bootstrapper is one of the interval tree.
THEOREM BootstrapUsesTree == Spec => TreeSpec
<1>1. TreeInv /\ WorkInv /\ [Next]_vars => [TreeNext]_treeVars
  BY BootstrapStep, Zenon
<1>2. Init => TreeInit
  BY Zenon DEF Init
<1>3. QED BY <1>1, <1>2, BootstrapStore, PTL DEF Spec, TreeSpec

\* So the heights of the stored blocks are a set of heights, whatever order
\* and extent the replies had (add_block, execute).
THEOREM BootstrapImplementsHeightSet == Spec => ImplementsHeightSet
BY BootstrapUsesTree, TreeImplementsHeightSet, PTL

-----------------------------------------------------------------------------
(* The bootstrapper forgets nothing and replays one chain                  *)

LEMMA StoreIsExact == TreeInv /\ WorkInv => StoreAnswers
<1>1. ASSUME TreeInv, NEW h \in Heights
      PROVE  Contains(h) <=> h \in Tracked
  BY <1>1, ShapedIsApart, TrackedIsSpan, ContainsSpan, Zenon DEF TreeInv, TreeTypeOK
<1>2. QED BY <1>1, Zenon DEF WorkInv, StoreAnswers

LEMMA LeastHeights == HeightsHaveLeast
BY LeastHeight, Zenon DEF HeightsHaveLeast

\* The inductive invariant of fetching and replaying holds.
LEMMA BootInvariant == Spec => []BootInv
<1>1. TreeInv /\ WorkInv /\ FetchingInv /\ [Next]_vars /\ TreeInv' /\ WorkInv' => FetchingInv'
  BY StoreIsExact, LeastHeights, FetchingStep, Zenon DEF BootInv
<1>2. TreeInv /\ WorkInv /\ FetchingInv => BootInv
  BY StoreIsExact, Zenon DEF BootInv
<1>3. QED BY <1>1, <1>2, BootstrapStore, FetchingInitially, PTL DEF Spec

LEMMA WeightsAddUp == WeightsAdd
<1>1. ASSUME NEW S PROVE TotalWeight(S) = Sum(Weight, S)
  BY Zenon DEF TotalWeight, Sum
<1>2. IsFiniteSet(Beacons)
  <2>1. BeaconOrder \in Seq(Beacons)
    BY BootstrapAssumption, Zenon
  <2>2. DOMAIN BeaconOrder = 1 .. Len(BeaconOrder) /\ Len(BeaconOrder) \in Nat
    BY <2>1
  <2>3. IsFiniteSet(DOMAIN BeaconOrder)
    BY <2>2, FS_Interval
  <2>4. BeaconOrder \in Surjection(DOMAIN BeaconOrder, Beacons)
    BY <2>1 DEF Beacons, Range, Surjection
  <2>5. QED BY <2>3, <2>4, FS_Surjection, Zenon
<1>3. Weight \in [Beacons -> Nat]
  BY BootstrapAssumption, Zenon
<1>4. \A S \in SUBSET Beacons : TotalWeight(S) \in Nat
  BY <1>1, <1>2, <1>3, SumAddsOne, Zenon
<1>5. ASSUME NEW n \in Beacons PROVE TotalWeight({n}) = Weight[n]
  <2>1. {} \in SUBSET Beacons /\ n \in Beacons \ {} /\ {} \cup {n} = {n}
    BY Zenon
  <2>2. ASSUME NEW T \in SUBSET Beacons
        PROVE  /\ Sum(Weight, {}) = 0
               /\ \A x \in Beacons \ T : Sum(Weight, T \cup {x}) = Sum(Weight, T) + Weight[x]
    BY <1>2, <1>3, SumAddsOne
  <2>3. Sum(Weight, {} \cup {n}) = Sum(Weight, {}) + Weight[n] /\ Sum(Weight, {}) = 0
    BY <2>1, <2>2, Zenon
  <2>4. Sum(Weight, {n}) = 0 + Weight[n]
    BY <2>1, <2>3, Zenon
  <2>5. Weight[n] \in Nat
    BY <1>3, Zenon
  <2>6. QED BY <1>1, <2>4, <2>5
<1>6. ASSUME NEW S \in SUBSET Beacons, NEW T \in SUBSET Beacons, S \cap T = {}
      PROVE  TotalWeight(S \cup T) = TotalWeight(S) + TotalWeight(T)
  BY <1>1, <1>2, <1>3, <1>6, SumAdds
<1>7. QED BY <1>4, <1>5, <1>6, Zenon DEF WeightsAdd

\* A tip more than half of the weight vouched for is on the chain the network
\* accepted, whatever the other beacons report (accepted, begin_fetching).
THEOREM AgreedTipsAreAccepted == Spec => [](acceptedTips \subseteq Main)
<1>1. Init => QuorumInv
  <2> SUFFICES ASSUME Init PROVE QuorumInv
    BY Zenon
  <2>1. /\ acceptedReplies = {} /\ acceptedTips = {}
        /\ acceptedWeight = [b \in Blocks |-> 0]
    BY Zenon DEF Init
  <2>2. TotalWeight({}) \in Nat
    BY WeightsAddUp, Zenon DEF WeightsAdd
  <2>3. acceptedReplies \ Good = {}
    BY <2>1, Zenon
  <2>4. QED BY <2>1, <2>2, <2>3 DEF QuorumInv
<1>2. QuorumInv /\ [Next]_vars => QuorumInv'
  BY WeightsAddUp, QuorumStep, Zenon
<1>3. QuorumInv => acceptedTips \subseteq Main
  BY Zenon DEF QuorumInv
<1>4. QED BY <1>1, <1>2, <1>3, PTL DEF Spec

\* The agreed tips are on the chain the network accepted, so the invariant
\* gives the properties.
LEMMA BootstrapSound == Spec => [](NothingForgotten /\ ReplayIsContiguous /\ FinishedCaughtUp)
<1>1. BootInv /\ acceptedTips \subseteq Main
         => NothingForgotten /\ ReplayIsContiguous /\ FinishedCaughtUp
  BY LeastHeights, FetchingIsSound, Zenon
<1>2. QED BY <1>1, BootInvariant, AgreedTipsAreAccepted, PTL

\* Until the replay begins, every agreed tip and every parent of a stored
\* block is stored, being fetched, or accepted already (process_chain).
THEOREM ForgetsNothing == Spec => []NothingForgotten
BY BootstrapSound, PTL

\* The replay never meets a block whose parent is not the last accepted one
\* (execute).
THEOREM ReplaysOneChain == Spec => []ReplayIsContiguous
BY BootstrapSound, PTL

\* Bootstrapping ends on the chain the network accepted and has caught up
\* with every agreed tip (accepted, execute).
THEOREM CatchesUp == Spec => []FinishedCaughtUp
BY BootstrapSound, PTL
=============================================================================
