-------------------------- MODULE ProposerVm_proofs --------------------------
(***************************************************************************)
(* Proofs about the P-Chain under the proposervm wrapper, for every block  *)
(* tree, fork, set of stakers and number of crashes.                       *)
(*                                                                         *)
(* LayersInv relates the three places a decided block passes through: the  *)
(* engine's tree, the wrapper's disk state and the inner VM.  The wrapper  *)
(* writes before the inner VM accepts, so between two accepts they agree   *)
(* on the tip, inside one the wrapper is at most one block ahead, and a    *)
(* crash there leaves it ahead (Ahead).  From LayersInv follow             *)
(* OuterCoversInner, DecidedIsAcceptable and that a node once ahead stays  *)
(* so.                                                                     *)
(*                                                                         *)
(* LedgerInv adds what a cached diff will do to the supply: it starts from *)
(* the supply its parent leaves, which is the one on disk when the parent  *)
(* is the tip.  Platform_proofs, where sums are at hand, draws             *)
(* LedgerIsExact from it.                                                  *)
(***************************************************************************)
EXTENDS ProposerVm, TLAPS

Options == {"commit", "abort"}

\* The steps of an accept: before the inner VM has the block, and after.
Written == {"block", "fork", "index", "inner"}
Before == {"pointer"} \cup Written
After == {"store", "clear", "reject"}

-----------------------------------------------------------------------------
(* The platform's data.                                                    *)

CachedTypes ==
    /\ DOMAIN cached \subseteq Blocks \ {Genesis}
    /\ \A c \in DOMAIN cached :
          /\ {cached[c].onAccept, cached[c].onCommit, cached[c].onAbort} \subseteq Diffs \cup {None}
          /\ Kind[c] = "proposal" <=> cached[c].onAccept = None
          /\ Kind[c] # "proposal" => cached[c].onCommit = None /\ cached[c].onAbort = None

StateTypes ==
    /\ state.time \in Nat /\ state.supply \in Nat /\ state.current \subseteq Stakers
    /\ baseView = Snapshot(state)
    /\ state.lastAccepted \in Blocks /\ Kind[state.lastAccepted] # "proposal"
    /\ lastAccepted \in Blocks
    /\ DOMAIN state.blockIds \subseteq 0 .. Height[state.lastAccepted]

\* An accepted proposal is in the cache and not on disk.
DiskTip ==
    IF Kind[lastAccepted] = "proposal"
    THEN /\ lastAccepted \in DOMAIN cached
         /\ state.lastAccepted = Parent[lastAccepted]
    ELSE state.lastAccepted = lastAccepted

-----------------------------------------------------------------------------
(* The engine's tree.                                                      *)

TreeTypes ==
    /\ engine = [last |-> engine.last, processing |-> engine.processing]
    /\ engine.last \in Blocks /\ engine.processing \subseteq Blocks \ {Genesis}
    /\ accept = [block |-> accept.block, pc |-> accept.pc]
    /\ accept.pc \in {"idle"} \cup Before \cup After
    /\ outer = [lastAccepted |-> outer.lastAccepted, blocks |-> outer.blocks,
                fork |-> outer.fork, heights |-> outer.heights]

\* The accept in progress is of a child of the last accepted block.
Accepting ==
    accept.pc # "idle" =>
        /\ accept.block \in engine.processing /\ Parent[accept.block] = engine.last
        /\ accept.block \notin PostFork => accept.pc \in {"inner"} \cup After

Rooted ==
    \A c \in engine.processing :
        /\ Parent[c] \in engine.processing \cup {engine.last}
        /\ Height[engine.last] < Height[c]
        /\ ~(c \in PostFork /\ Kind[c] \in Options)
        /\ Kind[c] \in Options \/ Kind[Parent[c]] # "proposal"

ProcessingIsCached ==
    \A c \in engine.processing :
        c \in DOMAIN cached \/ (accept.pc \in After /\ c = accept.block)

-----------------------------------------------------------------------------
(* The two layers.                                                         *)

\* The wrapper is one block ahead of the inner VM: a crash came between the
\* two.  No block can be verified any more.
Ahead ==
    /\ accept.pc = "idle" /\ engine.processing = {} /\ DOMAIN cached = {}
    /\ engine.last \in PostFork /\ Parent[engine.last] = lastAccepted

Tips ==
    IF accept.pc \in After THEN lastAccepted = accept.block
    ELSE lastAccepted = engine.last \/ Ahead

\* The block the wrapper's pointer stands for.
OuterTip == IF accept.pc \in Written \cup After THEN accept.block ELSE engine.last

Pointer ==
    /\ outer.lastAccepted = IF OuterTip \in PostFork THEN OuterTip ELSE None
    /\ outer.fork # None => /\ outer.fork \in 0 .. Height[OuterTip]
                            /\ OuterTip \in PostFork

\* What the wrapper has for a block of this height it must serve.
Serves(h, b) ==
    IF b \in PostFork
    THEN /\ b \in outer.blocks /\ outer.fork # None /\ outer.fork <= h
         /\ h \in DOMAIN outer.heights /\ outer.heights[h] = b
    ELSE outer.fork = None \/ h < outer.fork

Progress ==
    LET b == accept.block
    IN  b \in PostFork =>
          /\ accept.pc \in {"fork", "index", "inner"} => b \in outer.blocks
          /\ accept.pc \in {"index", "inner"} => outer.fork # None /\ outer.fork <= Height[b]
          /\ accept.pc = "inner" => Serves(Height[b], b)

Served == \A h \in DOMAIN state.blockIds : Serves(h, state.blockIds[h])

LayersInv ==
    /\ CachedTypes /\ StateTypes /\ DiskTip /\ TreeTypes /\ Accepting /\ Rooted
    /\ ProcessingIsCached /\ Tips /\ Pointer /\ Progress /\ Served

-----------------------------------------------------------------------------
(* Verification.                                                           *)

LEMMA TreeFacts ==
    /\ Genesis \in Blocks /\ \A b \in Blocks : Height[b] \in Nat
    /\ \A b \in Blocks \ {Genesis} :
          Parent[b] \in Blocks /\ Height[b] = Height[Parent[b]] + 1 /\ Parent[b] # b
    /\ Genesis \notin PostFork /\ PostFork \subseteq Blocks
    /\ \A b \in Blocks \ {Genesis} : Parent[b] \in PostFork => b \in PostFork
BY BlockTreeAssumption, ProposerVmAssumption

\* What a block is verified on.
LEMMA ParentStateTypes ==
    ASSUME CachedTypes, StateTypes, NEW p, HasState(p)
    PROVE  ParentState(p).supply \in Nat /\ ParentState(p).stakers \subseteq Stakers
<1>1. CASE p \in DOMAIN cached
    <2>1. cached[p].onAccept \in Diffs
        BY <1>1, Zenon DEF CachedTypes, HasState
    <2> QED BY <1>1, <2>1, Zenon DEF ParentState, Diffs
<1>2. CASE p \notin DOMAIN cached
    BY <1>2, Zenon DEF ParentState, StateTypes, Snapshot
<1> QED BY <1>1, <1>2, Zenon

LEMMA NewDiffTypes ==
    ASSUME CachedTypes, StateTypes, NEW b \in Blocks, HasState(Parent[b])
    PROVE  NewDiff(ParentState(Parent[b]), Time[b]) \in Diffs
<1>1. Time[b] \in Nat
    BY PlatformAssumption, Zenon
<1> QED BY <1>1, ParentStateTypes, Zenon DEF NewDiff, Diffs

LEMMA RewardTypes == \A s \in Stakers : Reward[s] \in Nat
<1>1. Reward \in [Stakers -> Nat]
    BY PlatformAssumption, Zenon
<1> QED BY <1>1, Zenon

LEMMA DiffTypes ==
    ASSUME NEW d \in Diffs, NEW s \in Stakers
    PROVE  /\ [d EXCEPT !.put = {s}, !.supply = @ + Reward[s]] \in Diffs
           /\ CommitDiff(d, s) \in Diffs
           /\ d.supply >= Reward[s] => AbortDiff(d, s) \in Diffs
<1>1. Reward[s] \in Nat /\ d.supply \in Nat
    BY RewardTypes, Zenon DEF Diffs
<1>2. d.supply + Reward[s] \in Nat /\ (d.supply >= Reward[s] => d.supply - Reward[s] \in Nat)
    BY <1>1
<1>3. [d EXCEPT !.put = {s}, !.supply = @ + Reward[s]] \in Diffs
    BY <1>2, Zenon DEF Diffs
<1>4. CommitDiff(d, s) \in Diffs
    BY Zenon DEF Diffs, CommitDiff
<1>5. d.supply >= Reward[s] => AbortDiff(d, s) \in Diffs
    BY <1>2, Zenon DEF Diffs, AbortDiff
<1> QED BY <1>3, <1>4, <1>5, Zenon

\* The cache after a verification.
LEMMA CacheTypes ==
    ASSUME CachedTypes, NEW b \in Blocks \ {Genesis},
           NEW x \in Diffs \cup {None}, NEW y \in Diffs \cup {None}, NEW z \in Diffs \cup {None},
           Kind[b] = "proposal" <=> x = None, Kind[b] # "proposal" => y = None /\ z = None,
           Cache(b, x, y, z)
    PROVE  CachedTypes' /\ DOMAIN cached' = DOMAIN cached \cup {b}
<1>1. /\ DOMAIN cached' = DOMAIN cached \cup {b}
      /\ \A c \in DOMAIN cached : c # b => cached'[c] = cached[c]
      /\ cached'[b].onAccept = x /\ cached'[b].onCommit = y /\ cached'[b].onAbort = z
    BY Zenon DEF Cache
<1>2. ASSUME NEW c \in DOMAIN cached'
      PROVE  /\ {cached'[c].onAccept, cached'[c].onCommit, cached'[c].onAbort}
                    \subseteq Diffs \cup {None}
             /\ Kind[c] = "proposal" <=> cached'[c].onAccept = None
             /\ Kind[c] # "proposal" => cached'[c].onCommit = None /\ cached'[c].onAbort = None
    <2>1. CASE c = b
        BY <1>1, <2>1, Zenon
    <2>2. CASE c # b
        BY <1>1, <2>2 DEF CachedTypes
    <2> QED BY <2>1, <2>2, Zenon
<1> QED BY <1>1, <1>2, Zenon DEF CachedTypes

\* A verified block joins the cache.  It was verified on the cached diff of
\* its parent or on the tip's state.
LEMMA VerifyFacts ==
    ASSUME CachedTypes, StateTypes, DiskTip, NEW b \in Blocks \ {Genesis}, Verify(b)
    PROVE  /\ CachedTypes' /\ DOMAIN cached' = DOMAIN cached \cup {b}
           /\ UNCHANGED <<state, lastAccepted, baseView, setAt, departures>>
           /\ Parent[b] \in DOMAIN cached \cup {lastAccepted}
           /\ Kind[b] \in Options \/ Kind[Parent[b]] # "proposal"
<1>1. None \notin Diffs
    BY PlatformAssumption, Zenon
<1>2. HasState(Parent[b]) => /\ Parent[b] \in DOMAIN cached \cup {lastAccepted}
                             /\ Kind[Parent[b]] # "proposal"
    BY Zenon DEF HasState, CachedTypes, DiskTip
<1>3. CASE VerifyStandard(b)
    <2>1. Kind[b] = "standard" /\ HasState(Parent[b]) /\ Cache(b, StandardDiff(b), None, None)
        BY <1>3, Zenon DEF VerifyStandard
    <2>2. NewDiff(ParentState(Parent[b]), Time[b]) \in Diffs
        BY <2>1, NewDiffTypes, Zenon
    <2>3. Tx[b] \in Stakers \cup {None}
        BY PlatformAssumption, Zenon
    <2>4. StandardDiff(b) \in Diffs
        BY <2>2, <2>3, DiffTypes, Zenon DEF StandardDiff
    <2>5. CachedTypes' /\ DOMAIN cached' = DOMAIN cached \cup {b}
        BY <1>1, <2>1, <2>4, CacheTypes, Zenon
    <2> QED BY <1>2, <1>3, <2>1, <2>5, Zenon DEF VerifyStandard
<1>4. CASE VerifyProposal(b)
    <2> DEFINE d == NewDiff(ParentState(Parent[b]), Time[b])
    <2>1. /\ Kind[b] = "proposal" /\ HasState(Parent[b]) /\ RewardVerifies(b, d)
          /\ Cache(b, None, CommitDiff(d, Tx[b]), AbortDiff(d, Tx[b]))
        BY <1>4, Zenon DEF VerifyProposal
    <2>2. d \in Diffs
        BY <2>1, NewDiffTypes, Zenon
    <2> HIDE DEF d
    <2>3. Tx[b] \in Stakers /\ d.supply >= Reward[Tx[b]]
        <3>1. d.supply >= Reward[Tx[b]]
            BY <2>1, Zenon DEF RewardVerifies
        <3>2. Tx[b] \in Stakers \cup {None} /\ Tx[b] # None
            BY <2>1, PlatformAssumption, Zenon
        <3> QED BY <3>1, <3>2, Zenon
    <2>4. CommitDiff(d, Tx[b]) \in Diffs /\ AbortDiff(d, Tx[b]) \in Diffs
        BY <2>2, <2>3, DiffTypes, Zenon
    <2>5. CachedTypes' /\ DOMAIN cached' = DOMAIN cached \cup {b}
        BY <2>1, <2>4, CacheTypes, Zenon
    <2> QED BY <1>2, <1>4, <2>1, <2>5, Zenon DEF VerifyProposal
<1>5. CASE VerifyOption(b)
    <2>1. /\ Kind[b] \in Options /\ Parent[b] \in DOMAIN cached /\ OptionDiff(b) # None
          /\ Cache(b, OptionDiff(b), None, None)
        BY <1>5, Zenon DEF VerifyOption, Options
    <2>2. OptionDiff(b) \in Diffs
        BY <2>1, Zenon DEF OptionDiff, CachedTypes
    <2>3. Kind[b] # "proposal"
        BY <2>1, Zenon DEF Options
    <2>4. CachedTypes' /\ DOMAIN cached' = DOMAIN cached \cup {b}
        BY <1>1, <2>1, <2>2, <2>3, CacheTypes, Zenon
    <2> QED BY <1>5, <2>1, <2>4, Zenon DEF VerifyOption
<1> QED BY <1>3, <1>4, <1>5, Zenon DEF Verify

-----------------------------------------------------------------------------
(* The steps keep the layers together.                                     *)

\* What LayersInv reads.
LayerVars == <<state, cached, lastAccepted, baseView, outer, engine, accept>>

LEMMA LayersUnchanged ==
    ASSUME LayersInv, UNCHANGED LayerVars
    PROVE  LayersInv'
<1> USE DEF LayerVars
<1>1. CachedTypes' /\ StateTypes' /\ DiskTip'
    BY Zenon DEF LayersInv, CachedTypes, StateTypes, DiskTip, Snapshot
<1>2. TreeTypes' /\ Accepting' /\ Rooted' /\ ProcessingIsCached'
    BY Zenon DEF LayersInv, TreeTypes, Accepting, Rooted, ProcessingIsCached
<1>3. Tips' /\ Pointer'
    BY Zenon DEF LayersInv, Tips, Ahead, Pointer, OuterTip
<1>4. Progress' /\ Served'
    BY Zenon DEF LayersInv, Progress, Served, Serves
<1> QED BY <1>1, <1>2, <1>3, <1>4, Zenon DEF LayersInv

\* A block is only issued where the wrapper and the inner VM agree.
LEMMA IssueInStep ==
    ASSUME LayersInv, NEW b \in Blocks \ {Genesis}, Issue(b)
    PROVE  lastAccepted = engine.last /\ Height[engine.last] < Height[b]
<1> USE DEF LayersInv
<1>1. /\ accept.pc = "idle" /\ Verify(b)
      /\ Parent[b] \in engine.processing \cup {engine.last}
    BY Zenon DEF Issue
<1>2. Parent[b] \in DOMAIN cached \cup {lastAccepted}
    BY <1>1, VerifyFacts, Zenon
<1>3. ASSUME Ahead PROVE FALSE
    <2>1. Parent[b] = engine.last /\ Parent[b] = lastAccepted
        BY <1>1, <1>2, <1>3, Zenon DEF Ahead
    <2>2. engine.last \in Blocks \ {Genesis} /\ Parent[engine.last] = engine.last
        BY <1>3, <2>1, TreeFacts, Zenon DEF Ahead
    <2> QED BY <2>2, TreeFacts, Zenon
<1>4. Height[Parent[b]] >= Height[engine.last] /\ Height[b] = Height[Parent[b]] + 1
    BY <1>1, TreeFacts DEF Rooted, TreeTypes
<1>5. Height[engine.last] \in Nat /\ Height[Parent[b]] \in Nat
    BY TreeFacts, Zenon DEF TreeTypes
<1> QED BY <1>1, <1>3, <1>4, <1>5 DEF Tips, After

LEMMA IssueLayers ==
    ASSUME LayersInv, NEW b \in Blocks \ {Genesis}, Issue(b)
    PROVE  LayersInv'
<1> USE DEF LayersInv
<1>1. /\ accept.pc = "idle" /\ b \notin engine.processing
      /\ Parent[b] \in engine.processing \cup {engine.last}
      /\ ~(b \in PostFork /\ Kind[b] \in Options) /\ Verify(b)
      /\ engine' = [engine EXCEPT !.processing = @ \cup {b}] /\ UNCHANGED <<outer, accept>>
    BY Zenon DEF Issue, Options
<1>2. /\ CachedTypes' /\ DOMAIN cached' = DOMAIN cached \cup {b}
      /\ UNCHANGED <<state, lastAccepted, baseView>>
      /\ Parent[b] \in DOMAIN cached \cup {lastAccepted}
      /\ Kind[b] \in Options \/ Kind[Parent[b]] # "proposal"
    BY <1>1, VerifyFacts, Zenon
<1>3. /\ engine'.last = engine.last /\ engine'.processing = engine.processing \cup {b}
      /\ engine' = [last |-> engine'.last, processing |-> engine'.processing]
    BY <1>1, Zenon DEF TreeTypes
<1>4. lastAccepted = engine.last
    BY IssueInStep, Zenon
<1>5. StateTypes' /\ DiskTip'
    BY <1>2, Zenon DEF StateTypes, DiskTip, Snapshot
<1>6. TreeTypes' /\ Accepting'
    BY <1>1, <1>3, Zenon DEF TreeTypes, Accepting
<1>7. Rooted'
    BY <1>1, <1>2, <1>3, IssueInStep, Zenon DEF Rooted
<1>8. ProcessingIsCached'
    BY <1>1, <1>2, <1>3, Zenon DEF ProcessingIsCached, After
<1>9. Tips' /\ Pointer'
    BY <1>1, <1>2, <1>3, <1>4, Zenon DEF Tips, Pointer, OuterTip, After, Written
<1>10. Progress' /\ Served'
    BY <1>1, <1>2, Zenon DEF Progress, Served, Serves
<1> QED BY <1>2, <1>5, <1>6, <1>7, <1>8, <1>9, <1>10, Zenon

LEMMA DecideLayers ==
    ASSUME LayersInv, NEW b \in Blocks \ {Genesis}, Decide(b)
    PROVE  LayersInv'
<1> USE DEF LayersInv
<1>1. /\ accept.pc = "idle" /\ b \in engine.processing /\ Parent[b] = engine.last
      /\ accept' = [block |-> b, pc |-> IF b \in PostFork THEN "pointer" ELSE "inner"]
      /\ UNCHANGED <<state, cached, lastAccepted, baseView, outer, engine>>
    BY Zenon DEF Decide, platformVars
<1>2. /\ accept'.block = b /\ accept'.pc = IF b \in PostFork THEN "pointer" ELSE "inner"
      /\ accept' = [block |-> accept'.block, pc |-> accept'.pc]
    BY <1>1, Zenon
<1>3. CachedTypes' /\ StateTypes' /\ DiskTip' /\ Served'
    BY <1>1, Zenon DEF CachedTypes, StateTypes, DiskTip, Snapshot, Served, Serves
<1>4. TreeTypes' /\ Accepting' /\ Rooted'
    BY <1>1, <1>2, Zenon DEF TreeTypes, Accepting, Rooted, Before, Written
<1>5. ProcessingIsCached' /\ Progress'
    BY <1>1, <1>2, Zenon DEF ProcessingIsCached, Progress, After
<1>6. Tips'
    BY <1>1, <1>2, Zenon DEF Tips, Ahead, After
<1>7. Pointer'
    <2>1. CASE b \in PostFork
        BY <1>1, <1>2, <2>1, Zenon DEF Pointer, OuterTip, Written, After
    <2>2. CASE b \notin PostFork
        <3>1. engine.last \notin PostFork
            BY <1>1, <2>2, TreeFacts, Zenon
        <3> QED BY <1>1, <1>2, <2>2, <3>1, Zenon
                   DEF Pointer, OuterTip, Written, After
    <2> QED BY <2>1, <2>2, Zenon
<1> QED BY <1>3, <1>4, <1>5, <1>6, <1>7, Zenon

LEMMA AcceptingFacts ==
    ASSUME LayersInv, accept.pc \in Before
    PROVE  /\ accept.block \in Blocks \ {Genesis} /\ accept.block \in engine.processing
           /\ Parent[accept.block] = engine.last /\ lastAccepted = engine.last
           /\ Height[accept.block] \in Nat /\ Height[engine.last] \in Nat
           /\ Height[engine.last] < Height[accept.block]
           /\ accept.pc # "inner" => accept.block \in PostFork
           /\ Kind[accept.block] \in Options \/ Kind[engine.last] # "proposal"
<1> USE DEF LayersInv
<1>1. accept.pc # "idle" /\ accept.pc \notin After
    BY Zenon DEF Before, Written, After
<1>2. accept.block \in engine.processing /\ Parent[accept.block] = engine.last
    BY <1>1, Zenon DEF Accepting
<1>3. accept.block \in Blocks \ {Genesis} /\ engine.last \in Blocks
    BY <1>2, Zenon DEF TreeTypes
<1>4. lastAccepted = engine.last
    BY <1>1, Zenon DEF Tips, Ahead
<1>5. Height[engine.last] < Height[accept.block]
    BY <1>2, Zenon DEF Rooted
<1>6. Kind[accept.block] \in Options \/ Kind[engine.last] # "proposal"
    BY <1>2, Zenon DEF Rooted
<1>7. accept.pc # "inner" => accept.block \in PostFork
    BY <1>1, Zenon DEF Accepting
<1> QED BY <1>2, <1>3, <1>4, <1>5, <1>6, <1>7, TreeFacts, Zenon

\* What the inner VM has committed is below the block being accepted.
LEMMA CommittedBelow ==
    ASSUME LayersInv, accept.pc \in Before, NEW h \in DOMAIN state.blockIds
    PROVE  h \in Nat /\ h < Height[accept.block]
<1> USE DEF LayersInv
<1>1. h \in 0 .. Height[state.lastAccepted] /\ state.lastAccepted \in Blocks
    BY Zenon DEF StateTypes
<1>2. Height[state.lastAccepted] <= Height[engine.last]
    <2>1. CASE Kind[engine.last] = "proposal"
        <3>1. engine.last # Genesis /\ state.lastAccepted = Parent[engine.last]
            BY <2>1, AcceptingFacts, PlatformAssumption, Zenon DEF DiskTip
        <3>2. engine.last \in Blocks \ {Genesis}
            BY <3>1, Zenon DEF TreeTypes
        <3>3. Height[engine.last] = Height[state.lastAccepted] + 1
            BY <3>1, <3>2, TreeFacts, Zenon
        <3> QED BY <1>1, <3>3, TreeFacts
    <2>2. CASE Kind[engine.last] # "proposal"
        BY <1>1, <2>2, AcceptingFacts, TreeFacts DEF DiskTip
    <2> QED BY <2>1, <2>2, Zenon
<1>3. Height[state.lastAccepted] \in Nat
    BY <1>1, TreeFacts, Zenon
<1> QED BY <1>1, <1>2, <1>3, AcceptingFacts

\* What the four writes have in common.
LEMMA WriteFacts ==
    ASSUME LayersInv, NEW from \in Before \ {"inner"}, NEW to \in Written, NEW value,
           Write(from, to, value),
           value = [lastAccepted |-> value.lastAccepted, blocks |-> value.blocks,
                    fork |-> value.fork, heights |-> value.heights]
    PROVE  /\ CachedTypes' /\ StateTypes' /\ DiskTip' /\ TreeTypes' /\ Accepting' /\ Rooted'
           /\ ProcessingIsCached' /\ Tips'
           /\ accept.pc \in Before /\ accept.block \in PostFork
           /\ accept' = [block |-> accept.block, pc |-> to]
           /\ OuterTip' = accept.block
           /\ UNCHANGED <<state, engine>>
<1> USE DEF LayersInv
<1>1. /\ accept.pc = from /\ outer' = value
      /\ UNCHANGED <<state, cached, lastAccepted, baseView, engine>>
    BY Zenon DEF Write, platformVars
<1>2. accept' = [block |-> accept.block, pc |-> to]
    BY Zenon DEF Write, TreeTypes
<1>3. accept'.block = accept.block /\ accept'.pc = to
    BY <1>2, Zenon
<1>4. accept.pc \in Before /\ accept.pc # "inner" /\ accept.pc # "idle"
    BY <1>1, Zenon DEF Before, Written
<1>5. to # "idle" /\ to \notin After /\ to \in Before
    BY Zenon DEF Before, Written, After
<1>6. accept.pc \notin After /\ accept.block \in PostFork
    BY <1>4, AcceptingFacts, Zenon DEF Before, Written, After
<1>7. CachedTypes' /\ StateTypes' /\ DiskTip'
    BY <1>1, Zenon DEF CachedTypes, StateTypes, DiskTip, Snapshot
<1>8. TreeTypes'
    BY <1>1, <1>2, <1>3, <1>5, Zenon DEF TreeTypes
<1>9. Accepting' /\ Rooted'
    BY <1>1, <1>3, <1>4, <1>6, Zenon DEF Accepting, Rooted
<1>10. ProcessingIsCached' /\ Tips'
    BY <1>1, <1>3, <1>4, <1>5, <1>6, Zenon DEF ProcessingIsCached, Tips, Ahead
<1>11. OuterTip' = accept.block
    BY <1>3, Zenon DEF OuterTip
<1> QED BY <1>1, <1>2, <1>4, <1>6, <1>7, <1>8, <1>9, <1>10, <1>11, Zenon

LEMMA SetLastAcceptedLayers ==
    ASSUME LayersInv, SetLastAccepted
    PROVE  LayersInv'
<1> DEFINE value == [outer EXCEPT !.lastAccepted = accept.block]
<1>1. value = [lastAccepted |-> accept.block, blocks |-> outer.blocks,
               fork |-> outer.fork, heights |-> outer.heights]
    BY DEF LayersInv, TreeTypes
<1>2. Write("pointer", "block", value) /\ accept.pc = "pointer" /\ outer' = value
    BY Zenon DEF SetLastAccepted, Write
<1> HIDE DEF value
<1>3. "pointer" \in Before \ {"inner"} /\ "block" \in Written
    BY Zenon DEF Before, Written
<1>4. /\ CachedTypes' /\ StateTypes' /\ DiskTip' /\ TreeTypes' /\ Accepting' /\ Rooted'
      /\ ProcessingIsCached' /\ Tips'
      /\ accept.pc \in Before /\ accept.block \in PostFork
      /\ accept' = [block |-> accept.block, pc |-> "block"]
      /\ OuterTip' = accept.block /\ UNCHANGED <<state, engine>>
    BY <1>1, <1>2, <1>3, WriteFacts, Zenon
<1>5. /\ outer'.lastAccepted = accept.block /\ outer'.blocks = outer.blocks
      /\ outer'.fork = outer.fork /\ outer'.heights = outer.heights
    BY <1>1, <1>2, Zenon
<1>6. Pointer'
    <2>1. outer.fork # None => outer.fork \in 0 .. Height[engine.last]
        BY <1>2, Zenon DEF LayersInv, Pointer, OuterTip, Written, After
    <2>2. outer.fork # None => outer.fork \in 0 .. Height[accept.block]
        BY <1>4, <2>1, AcceptingFacts
    <2> QED BY <1>4, <1>5, <2>2, Zenon DEF Pointer
<1>7. Progress'
    BY <1>4, Zenon DEF Progress
<1>8. Served'
    BY <1>4, <1>5, Zenon DEF LayersInv, Served, Serves
<1> QED BY <1>4, <1>6, <1>7, <1>8, Zenon DEF LayersInv

LEMMA PutBlockLayers ==
    ASSUME LayersInv, PutBlock
    PROVE  LayersInv'
<1> DEFINE value == [outer EXCEPT !.blocks = @ \cup {accept.block}]
<1>1. value = [lastAccepted |-> outer.lastAccepted, blocks |-> outer.blocks \cup {accept.block},
               fork |-> outer.fork, heights |-> outer.heights]
    BY DEF LayersInv, TreeTypes
<1>2. Write("block", "fork", value) /\ accept.pc = "block" /\ outer' = value
    BY Zenon DEF PutBlock, Write
<1> HIDE DEF value
<1>3. "block" \in Before \ {"inner"} /\ "fork" \in Written /\ "block" \in Written
    BY Zenon DEF Before, Written
<1>4. /\ CachedTypes' /\ StateTypes' /\ DiskTip' /\ TreeTypes' /\ Accepting' /\ Rooted'
      /\ ProcessingIsCached' /\ Tips'
      /\ accept.pc \in Before /\ accept.block \in PostFork
      /\ accept' = [block |-> accept.block, pc |-> "fork"]
      /\ OuterTip' = accept.block /\ UNCHANGED <<state, engine>>
    BY <1>1, <1>2, <1>3, WriteFacts, Zenon
<1>5. /\ outer'.lastAccepted = outer.lastAccepted
      /\ outer'.blocks = outer.blocks \cup {accept.block}
      /\ outer'.fork = outer.fork /\ outer'.heights = outer.heights
    BY <1>1, <1>2, Zenon
<1>6. Pointer'
    BY <1>2, <1>3, <1>4, <1>5, Zenon DEF LayersInv, Pointer, OuterTip
<1>7. Progress'
    BY <1>4, <1>5, Zenon DEF Progress
<1>8. Served'
    BY <1>4, <1>5, Zenon DEF LayersInv, Served, Serves
<1> QED BY <1>4, <1>6, <1>7, <1>8, Zenon DEF LayersInv

LEMMA SetForkHeightLayers ==
    ASSUME LayersInv, SetForkHeight
    PROVE  LayersInv'
<1> DEFINE fork == IF outer.fork = None THEN Height[accept.block] ELSE outer.fork
           value == [outer EXCEPT !.fork = IF @ = None THEN Height[accept.block] ELSE @]
<1>1. value = [lastAccepted |-> outer.lastAccepted, blocks |-> outer.blocks,
               fork |-> fork, heights |-> outer.heights]
    BY DEF LayersInv, TreeTypes
<1>2. Write("fork", "index", value) /\ accept.pc = "fork" /\ outer' = value
    BY Zenon DEF SetForkHeight, Write
<1> HIDE DEF value
<1>3. "fork" \in Before \ {"inner"} /\ "index" \in Written /\ "fork" \in Written
    BY Zenon DEF Before, Written
<1>4. /\ CachedTypes' /\ StateTypes' /\ DiskTip' /\ TreeTypes' /\ Accepting' /\ Rooted'
      /\ ProcessingIsCached' /\ Tips'
      /\ accept.pc \in Before /\ accept.block \in PostFork
      /\ accept' = [block |-> accept.block, pc |-> "index"]
      /\ OuterTip' = accept.block /\ UNCHANGED <<state, engine>>
    <2> HIDE DEF fork
    <2> QED BY <1>1, <1>2, <1>3, WriteFacts, Zenon
<1>5. /\ outer'.lastAccepted = outer.lastAccepted /\ outer'.blocks = outer.blocks
      /\ outer'.fork = fork /\ outer'.heights = outer.heights
    <2> HIDE DEF fork
    <2> QED BY <1>1, <1>2, Zenon
<1>6. Height[accept.block] \in Nat /\ Height[accept.block] # None
    BY <1>4, AcceptingFacts, PlatformAssumption, Zenon
<1>7. /\ outer.lastAccepted = accept.block
      /\ outer.fork # None => outer.fork \in 0 .. Height[accept.block]
    BY <1>2, <1>3, <1>4, Zenon DEF LayersInv, Pointer, OuterTip
<1>8. fork # None /\ fork \in 0 .. Height[accept.block] /\ fork <= Height[accept.block]
    <2>1. CASE outer.fork = None
        BY <2>1, <1>6
    <2>2. CASE outer.fork # None
        BY <2>2, <1>6, <1>7
    <2> QED BY <2>1, <2>2, Zenon
<1>9. Served'
    <2> SUFFICES ASSUME NEW h \in DOMAIN state.blockIds
                 PROVE  Serves(h, state.blockIds[h])'
        BY <1>4, Zenon DEF Served
    <2>1. Serves(h, state.blockIds[h])
        BY Zenon DEF LayersInv, Served
    <2>2. h < Height[accept.block]
        BY <1>4, CommittedBelow, Zenon
    <2>3. CASE outer.fork = None
        BY <1>4, <1>5, <2>1, <2>2, <2>3, Zenon DEF Serves
    <2>4. CASE outer.fork # None
        BY <1>4, <1>5, <2>1, <2>4, Zenon DEF Serves
    <2> QED BY <2>3, <2>4, Zenon
<1> HIDE DEF fork
<1>10. Pointer'
    BY <1>4, <1>5, <1>7, <1>8, Zenon DEF Pointer
<1>11. Progress'
    BY <1>2, <1>4, <1>5, <1>8, Zenon DEF LayersInv, Progress
<1> QED BY <1>4, <1>9, <1>10, <1>11, Zenon DEF LayersInv

LEMMA SetBlockIdAtHeightLayers ==
    ASSUME LayersInv, SetBlockIdAtHeight
    PROVE  LayersInv'
<1> DEFINE heights == With(outer.heights, Height[accept.block], accept.block)
           value == [outer EXCEPT !.heights = With(@, Height[accept.block], accept.block)]
<1>1. value = [lastAccepted |-> outer.lastAccepted, blocks |-> outer.blocks,
               fork |-> outer.fork, heights |-> heights]
    BY DEF LayersInv, TreeTypes
<1>2. Write("index", "inner", value) /\ accept.pc = "index" /\ outer' = value
    BY Zenon DEF SetBlockIdAtHeight, Write
<1>a. /\ DOMAIN heights = {Height[accept.block]} \cup DOMAIN outer.heights
      /\ heights[Height[accept.block]] = accept.block
      /\ \A h \in DOMAIN outer.heights \ {Height[accept.block]} : heights[h] = outer.heights[h]
    BY Zenon DEF With
<1> HIDE DEF value, heights
<1>3. "index" \in Before \ {"inner"} /\ "inner" \in Written /\ "index" \in Written
    BY Zenon DEF Before, Written
<1>4. /\ CachedTypes' /\ StateTypes' /\ DiskTip' /\ TreeTypes' /\ Accepting' /\ Rooted'
      /\ ProcessingIsCached' /\ Tips'
      /\ accept.pc \in Before /\ accept.block \in PostFork
      /\ accept' = [block |-> accept.block, pc |-> "inner"]
      /\ OuterTip' = accept.block /\ UNCHANGED <<state, engine>>
    BY <1>1, <1>2, <1>3, WriteFacts, Zenon
<1>5. /\ outer'.lastAccepted = outer.lastAccepted /\ outer'.blocks = outer.blocks
      /\ outer'.fork = outer.fork /\ outer'.heights = heights
    BY <1>1, <1>2, Zenon
<1>6. Pointer'
    BY <1>2, <1>3, <1>4, <1>5, Zenon DEF LayersInv, Pointer, OuterTip
<1>7. Progress'
    BY <1>2, <1>4, <1>5, <1>a, Zenon DEF LayersInv, Progress, Serves
<1>8. Served'
    <2> SUFFICES ASSUME NEW h \in DOMAIN state.blockIds
                 PROVE  Serves(h, state.blockIds[h])'
        BY <1>4, Zenon DEF Served
    <2>1. Serves(h, state.blockIds[h])
        BY Zenon DEF LayersInv, Served
    <2>2. h # Height[accept.block]
        BY <1>4, CommittedBelow, AcceptingFacts
    <2> QED BY <1>4, <1>5, <1>a, <2>1, <2>2, Zenon DEF Serves
<1> QED BY <1>4, <1>6, <1>7, <1>8, Zenon DEF LayersInv

LEMMA StakersKept ==
    ASSUME NEW S \in SUBSET Stakers, NEW d \in Diffs
    PROVE  ApplyStakers(S, d) \subseteq Stakers
<1>1. d.put \subseteq Stakers
    BY Zenon DEF Diffs
<1>2. \A s \in d.put : PutStaker(S, s) \subseteq Stakers
    BY <1>1, Zenon DEF PutStaker
<1>3. d.put # {} => (CHOOSE s \in d.put : TRUE) \in d.put
    BY Zenon
<1> QED BY <1>2, <1>3, Zenon DEF ApplyStakers

\* What is left of the cache keeps its type.
LEMMA FreeTypes ==
    ASSUME CachedTypes, NEW S, Free(S)
    PROVE  CachedTypes' /\ DOMAIN cached' = DOMAIN cached \ S
BY Zenon DEF CachedTypes, Free

\* The inner VM accepts: a proposal in memory, another block on disk.
LEMMA AcceptInnerLayers ==
    ASSUME LayersInv, AcceptInner
    PROVE  LayersInv'
<1> USE DEF LayersInv
<1> DEFINE b == accept.block
<1>1. /\ accept.pc = "inner" /\ Accept(b) /\ UNCHANGED <<outer, engine>>
      /\ accept' = [block |-> b, pc |-> "store"]
    BY Zenon DEF AcceptInner, TreeTypes
<1>2. accept'.block = b /\ accept'.pc = "store" /\ accept'.pc \in After /\ accept'.pc # "idle"
      /\ accept.pc \in Before /\ accept.pc # "idle"
      /\ accept.pc \in Written /\ accept.pc \notin After
    BY <1>1, Zenon DEF After, Before, Written
<1>3. /\ b \in Blocks \ {Genesis} /\ b \in engine.processing
      /\ Parent[b] = engine.last /\ lastAccepted = engine.last
      /\ Height[b] \in Nat /\ Height[engine.last] < Height[b]
      /\ Kind[b] \in Options \/ Kind[engine.last] # "proposal"
    BY <1>2, AcceptingFacts, Zenon
<1>4. engine.last \notin engine.processing /\ b # engine.last
    <2>1. Height[engine.last] \in Nat
        BY TreeFacts, Zenon DEF TreeTypes
    <2> QED BY <2>1, <1>3 DEF Rooted
<1>5. TreeTypes' /\ Accepting' /\ Rooted'
    BY <1>1, <1>2, Zenon DEF TreeTypes, Accepting, Rooted
<1>6. OuterTip = b /\ OuterTip' = b
    BY <1>2, Zenon DEF OuterTip
<1>7. Pointer' /\ Progress'
    BY <1>1, <1>2, <1>6, Zenon DEF Pointer, Progress
<1>8. b \in PostFork => Serves(Height[b], b)
    BY <1>1, Zenon DEF Progress
<1>9. b \notin PostFork => outer.fork = None
    BY <1>6, Zenon DEF Pointer
<1>10. CASE AcceptProposal(b)
    <2>1. /\ Kind[b] = "proposal" /\ b \in DOMAIN cached /\ lastAccepted' = b
          /\ UNCHANGED <<state, cached, baseView>>
        BY <1>10, Zenon DEF AcceptProposal, Acceptable
    <2>2. state.lastAccepted = engine.last
        BY <1>3, <2>1, Zenon DEF DiskTip, Options
    <2>3. CachedTypes' /\ StateTypes' /\ DiskTip'
        BY <1>3, <2>1, <2>2, Zenon DEF CachedTypes, StateTypes, DiskTip, Snapshot
    <2>4. ProcessingIsCached' /\ Tips' /\ Served'
        BY <1>1, <1>2, <2>1, Zenon DEF ProcessingIsCached, Tips, Served, Serves
    <2> QED BY <1>5, <1>7, <2>3, <2>4, Zenon
<1>11. CASE AcceptDecision(b)
    <2> DEFINE d == cached[b].onAccept
               S == IF Kind[b] = "standard" THEN {b} ELSE {b, Parent[b]}
    <2>1. /\ Kind[b] # "proposal" /\ b \in DOMAIN cached /\ d # None
          /\ CommitAccept(b, d) /\ Free(S)
        BY <1>11, Zenon DEF AcceptDecision, Acceptable
    <2>2. d \in Diffs
        BY <2>1, Zenon DEF CachedTypes
    <2>3. CachedTypes' /\ DOMAIN cached' = DOMAIN cached \ S
        BY <2>1, FreeTypes, Zenon
    <2> HIDE DEF d
    <2>4. /\ lastAccepted' = b /\ baseView' = Snapshot(state')
          /\ state'.time = d.time /\ state'.supply = d.supply
          /\ state'.current = ApplyStakers(state.current, d)
          /\ state'.blockIds = With(state.blockIds, Height[b], b)
          /\ state'.lastAccepted = b
        BY <2>1, Zenon DEF CommitAccept
    <2>5. /\ DOMAIN state'.blockIds = {Height[b]} \cup DOMAIN state.blockIds
          /\ state'.blockIds[Height[b]] = b
          /\ \A h \in DOMAIN state.blockIds \ {Height[b]} : state'.blockIds[h] = state.blockIds[h]
        BY <2>4, Zenon DEF With
    <2>6. StateTypes'
        <3>1. state'.current \subseteq Stakers
            BY <2>2, <2>4, StakersKept, Zenon DEF StateTypes
        <3>2. state'.time \in Nat /\ state'.supply \in Nat
            BY <2>2, <2>4, Zenon DEF Diffs
        <3>3. DOMAIN state'.blockIds \subseteq 0 .. Height[b]
            <4>1. \A h \in DOMAIN state.blockIds : h \in Nat /\ h < Height[b]
                BY <1>2, CommittedBelow, Zenon
            <4>2. \A h \in DOMAIN state.blockIds : h \in 0 .. Height[b]
                BY <4>1, <1>3
            <4>3. Height[b] \in 0 .. Height[b]
                BY <1>3
            <4> QED BY <4>2, <4>3, <2>5, Zenon
        <3> QED BY <1>3, <2>1, <2>4, <3>1, <3>2, <3>3, Zenon DEF StateTypes
    <2>7. DiskTip'
        BY <2>1, <2>4, Zenon DEF DiskTip
    <2>8. ProcessingIsCached'
        <3>1. \A c \in engine.processing \ {b} : c \in DOMAIN cached /\ c \notin S
            BY <1>2, <1>3, <1>4, Zenon DEF ProcessingIsCached
        <3> QED BY <1>1, <1>2, <2>3, <3>1, Zenon DEF ProcessingIsCached
    <2>9. Tips'
        BY <1>2, <2>4, Zenon DEF Tips
    <2>10. Served'
        <3> SUFFICES ASSUME NEW h \in DOMAIN state'.blockIds
                     PROVE  Serves(h, state.blockIds[h])'
            BY Zenon DEF Served
        <3>1. CASE h = Height[b]
            <4>1. state'.blockIds[h] = b
                BY <2>5, <3>1, Zenon
            <4> QED BY <1>1, <1>8, <1>9, <3>1, <4>1, Zenon DEF Serves
        <3>2. CASE h # Height[b]
            <4>1. h \in DOMAIN state.blockIds /\ state'.blockIds[h] = state.blockIds[h]
                BY <2>5, <3>2, Zenon
            <4>2. Serves(h, state.blockIds[h])
                BY <4>1, Zenon DEF Served
            <4> QED BY <1>1, <4>1, <4>2, Zenon DEF Serves
        <3> QED BY <3>1, <3>2, Zenon
    <2> QED BY <1>5, <1>7, <2>3, <2>6, <2>7, <2>8, <2>9, <2>10, Zenon
<1> QED BY <1>1, <1>10, <1>11, Zenon DEF Accept

\* Refreshing the validator manager.
LEMMA RefreshLayers ==
    ASSUME LayersInv, RefreshView \/ RefreshCaches
    PROVE  LayersInv'
<1> USE DEF LayersInv
<1>1. /\ UNCHANGED <<state, cached, lastAccepted, baseView, outer, engine>>
      /\ accept'.block = accept.block /\ accept.pc \in After /\ accept'.pc \in {"clear", "reject"}
      /\ accept' = [block |-> accept'.block, pc |-> accept'.pc]
    BY Zenon DEF RefreshView, RefreshCaches, platformVars, After, TreeTypes
<1>2. accept'.pc \in After /\ accept.pc # "idle" /\ accept'.pc # "idle"
      /\ accept'.pc \notin Before
    BY <1>1, Zenon DEF After, Before, Written
<1>3. CachedTypes' /\ StateTypes' /\ DiskTip'
    BY <1>1, Zenon DEF CachedTypes, StateTypes, DiskTip, Snapshot
<1>4. TreeTypes' /\ Accepting' /\ Rooted'
    BY <1>1, <1>2, Zenon DEF TreeTypes, Accepting, Rooted
<1>5. ProcessingIsCached' /\ Tips' /\ Served'
    BY <1>1, <1>2, Zenon DEF ProcessingIsCached, Tips, Served, Serves
<1>6. OuterTip' = OuterTip
    BY <1>1, <1>2, Zenon DEF OuterTip
<1>7. Pointer' /\ Progress'
    BY <1>1, <1>2, <1>6, Zenon DEF Pointer, Progress
<1> QED BY <1>3, <1>4, <1>5, <1>7, Zenon

\* The engine moves to the accepted block, which keeps its descendants.
LEMMA RejectConflictsLayers ==
    ASSUME LayersInv, RejectConflicts
    PROVE  LayersInv'
<1> USE DEF LayersInv
<1> DEFINE b == accept.block
<1>1. accept.pc = "reject" /\ accept' = noAccept /\ UNCHANGED outer
    BY Zenon DEF RejectConflicts
<1>2. PICK R \in SUBSET (engine.processing \ {b}) :
         /\ \A c \in engine.processing \ {b} :
               c \in R <=> Parent[c] = engine.last \/ Parent[c] \in R
         /\ Reject(R)
         /\ engine' = [last |-> b, processing |-> engine.processing \ (R \cup {b})]
    BY Zenon DEF RejectConflicts
<1>3. /\ accept'.pc = "idle" /\ accept'.block = None
      /\ accept' = [block |-> accept'.block, pc |-> accept'.pc]
      /\ engine'.last = b /\ engine'.processing = engine.processing \ (R \cup {b})
      /\ engine' = [last |-> engine'.last, processing |-> engine'.processing]
    BY <1>1, <1>2, Zenon DEF noAccept
<1>4. /\ accept.pc \in After /\ accept.pc # "idle" /\ accept'.pc \notin After
      /\ accept'.pc \notin Written /\ accept'.pc \notin Before
    BY <1>1, <1>3, Zenon DEF After, Written, Before
<1>5. /\ b \in engine.processing /\ Parent[b] = engine.last /\ lastAccepted = b
      /\ b \in Blocks \ {Genesis} /\ Height[b] \in Nat
    BY <1>4, TreeFacts, Zenon DEF Accepting, Tips, TreeTypes
<1>6. Free(R) /\ UNCHANGED <<state, lastAccepted, baseView>>
    BY <1>2, Zenon DEF Reject
<1>7. CachedTypes' /\ DOMAIN cached' = DOMAIN cached \ R
    BY <1>6, FreeTypes, Zenon
<1>8. StateTypes' /\ DiskTip'
    BY <1>2, <1>5, <1>6, <1>7, Zenon DEF StateTypes, DiskTip, Snapshot
<1>9. TreeTypes' /\ Accepting'
    BY <1>1, <1>3, <1>5, Zenon DEF TreeTypes, Accepting
<1>10. Rooted'
    <2> SUFFICES ASSUME NEW c \in engine.processing \ (R \cup {b})
                 PROVE  /\ Parent[c] \in (engine.processing \ (R \cup {b})) \cup {b}
                        /\ Height[b] < Height[c]
                        /\ ~(c \in PostFork /\ Kind[c] \in Options)
                        /\ Kind[c] \in Options \/ Kind[Parent[c]] # "proposal"
        BY <1>3, Zenon DEF Rooted
    <2>1. Parent[c] # engine.last /\ Parent[c] \notin R
        BY <1>2, Zenon
    <2>2. Parent[c] \in engine.processing
        BY <2>1, Zenon DEF Rooted
    <2>3. Height[engine.last] < Height[Parent[c]] /\ Height[c] = Height[Parent[c]] + 1
          /\ Height[Parent[c]] \in Nat /\ Height[c] \in Nat
        BY <2>2, TreeFacts, Zenon DEF Rooted, TreeTypes
    <2>4. Height[b] = Height[engine.last] + 1 /\ Height[engine.last] \in Nat
        BY <1>5, TreeFacts, Zenon DEF TreeTypes
    <2>5. Height[b] < Height[c]
        BY <2>3, <2>4
    <2> QED BY <2>1, <2>2, <2>5, Zenon DEF Rooted
<1>11. ProcessingIsCached' /\ Tips'
    BY <1>3, <1>4, <1>5, <1>6, <1>7, Zenon DEF ProcessingIsCached, Tips
<1>12. OuterTip = b /\ OuterTip' = b
    BY <1>3, <1>4, Zenon DEF OuterTip
<1>13. Pointer' /\ Served'
    BY <1>1, <1>6, <1>12, Zenon DEF Pointer, Served, Serves
<1>14. Progress'
    BY <1>3, Zenon DEF Progress
<1> QED BY <1>7, <1>8, <1>9, <1>10, <1>11, <1>13, <1>14, Zenon

\* After a restart nothing is processing.
LEMMA CrashedTree ==
    ASSUME LayersInv, CachedTypes', StateTypes', DiskTip', Tips', Pointer',
           UNCHANGED <<state, outer>>, accept'.pc = "idle", engine'.processing = {},
           engine'.last \in Blocks,
           accept' = [block |-> accept'.block, pc |-> accept'.pc],
           engine' = [last |-> engine'.last, processing |-> engine'.processing]
    PROVE  LayersInv'
<1>1. TreeTypes' /\ Accepting' /\ Rooted' /\ ProcessingIsCached'
    BY Zenon DEF LayersInv, TreeTypes, Accepting, Rooted, ProcessingIsCached
<1>2. Progress' /\ Served'
    BY Zenon DEF LayersInv, Progress, Served, Serves
<1> QED BY <1>1, <1>2, Zenon DEF LayersInv

\* A restart: each layer from its own disk state.
LEMMA CrashRestartLayers ==
    ASSUME LayersInv, CrashRestart
    PROVE  LayersInv'
<1> USE DEF LayersInv
<1> DEFINE tip == IF outer.lastAccepted # None THEN outer.lastAccepted ELSE state.lastAccepted
<1>1. /\ cached' = <<>> /\ lastAccepted' = state.lastAccepted /\ baseView' = Snapshot(state)
      /\ UNCHANGED <<state, outer>> /\ accept' = noAccept
      /\ engine' = [processing |-> {}, last |-> tip]
    BY Zenon DEF CrashRestart, Reload
<1>2. /\ accept'.pc = "idle" /\ accept' = [block |-> accept'.block, pc |-> accept'.pc]
      /\ engine'.last = tip /\ engine'.processing = {}
      /\ engine' = [last |-> engine'.last, processing |-> engine'.processing]
    BY <1>1, Zenon DEF noAccept
<1>3. accept'.pc \notin After /\ accept'.pc \notin Written
    BY <1>2, Zenon DEF After, Written
<1>4. DOMAIN cached' = {}
    BY <1>1
<1>5. CachedTypes'
    BY <1>4, Zenon DEF CachedTypes
<1>6. OuterTip \in Blocks /\ OuterTip # None /\ state.lastAccepted # None
    BY PlatformAssumption, Zenon DEF OuterTip, TreeTypes, Accepting, Written,
                                     After, StateTypes
<1>7. StateTypes' /\ DiskTip'
    BY <1>1, <1>4, Zenon DEF StateTypes, DiskTip, Snapshot
<1>8. OuterTip' = tip
    BY <1>2, <1>3, Zenon DEF OuterTip
<1>9. Kind[lastAccepted] = "proposal" => lastAccepted \in Blocks \ {Genesis}
    BY PlatformAssumption, Zenon DEF StateTypes
<1>10. CASE OuterTip \in PostFork
    <2>1. tip = OuterTip
        BY <1>6, <1>10, Zenon DEF Pointer
    <2>2. state.lastAccepted = OuterTip \/ state.lastAccepted = Parent[OuterTip]
        <3>1. CASE accept.pc \in After
            BY <3>1, Zenon DEF OuterTip, Tips, DiskTip
        <3>2. CASE accept.pc \in Written
            <4>1. /\ accept.pc \in Before /\ OuterTip = accept.block
                  /\ accept.block \in engine.processing
                BY <3>2, AcceptingFacts, Zenon DEF OuterTip, Before
            <4>2. Kind[accept.block] \notin Options
                BY <1>10, <4>1, Zenon DEF Rooted
            <4> QED BY <4>1, <4>2, AcceptingFacts, Zenon DEF DiskTip
        <3>3. CASE accept.pc \notin Written \cup After
            <4>1. OuterTip = engine.last
                BY <3>3, Zenon DEF OuterTip
            <4>2. CASE lastAccepted = engine.last
                BY <4>1, <4>2, Zenon DEF DiskTip
            <4>3. CASE Ahead
                BY <4>1, <4>3, Zenon DEF Ahead, DiskTip
            <4> QED BY <3>3, <4>2, <4>3, Zenon DEF Tips
        <3> QED BY <3>1, <3>2, <3>3, Zenon
    <2>3. Tips'
        BY <1>1, <1>2, <1>3, <1>4, <1>10, <2>1, <2>2, Zenon DEF Tips, Ahead
    <2>4. Pointer'
        BY <1>1, <1>8, <2>1, Zenon DEF Pointer
    <2>5. tip \in Blocks
        BY <2>1, <1>6, Zenon
    <2> QED BY <2>3, <2>4, <2>5, <1>1, <1>2, <1>3, <1>5, <1>7, CrashedTree, Zenon
<1>11. CASE OuterTip \notin PostFork
    <2>1. outer.lastAccepted = None /\ outer.fork = None /\ tip = state.lastAccepted
        BY <1>11, Zenon DEF Pointer
    <2>2. lastAccepted \notin PostFork
        <3>1. CASE accept.pc \in After
            BY <3>1, <1>11, Zenon DEF OuterTip, Tips
        <3>2. CASE accept.pc \in Written
            <4>1. accept.pc \in Before /\ OuterTip = accept.block
                BY <3>2, Zenon DEF OuterTip, Before
            <4> QED BY <4>1, <1>11, AcceptingFacts, TreeFacts
        <3>3. CASE accept.pc \notin Written \cup After
            BY <3>3, <1>11, Zenon DEF OuterTip, Tips, Ahead
        <3> QED BY <3>1, <3>2, <3>3, Zenon
    <2>3. state.lastAccepted \notin PostFork
        BY <1>9, <2>2, TreeFacts, Zenon DEF DiskTip
    <2>4. Tips'
        BY <1>1, <1>2, <1>3, <2>1, Zenon DEF Tips
    <2>5. Pointer'
        BY <1>1, <1>8, <2>1, <2>3, Zenon DEF Pointer
    <2>6. tip \in Blocks
        BY <2>1, Zenon DEF StateTypes
    <2> QED BY <2>4, <2>5, <2>6, <1>1, <1>2, <1>3, <1>5, <1>7, CrashedTree, Zenon
<1> QED BY <1>10, <1>11, Zenon

LEMMA QueryLayers ==
    ASSUME LayersInv, Query \/ UNCHANGED vars
    PROVE  LayersInv'
<1>1. UNCHANGED LayerVars
    BY Zenon DEF Query, LayerVars, platformVars, wrapperVars, vars
<1> QED BY <1>1, LayersUnchanged, Zenon

LEMMA InitLayers ==
    ASSUME ProposerInit
    PROVE  LayersInv
<1>1. /\ state.time = Time[Genesis] /\ state.supply = RootSupply /\ state.current = RootStakers
      /\ state.blockIds = [h \in {0} |-> Genesis] /\ state.lastAccepted = Genesis
      /\ cached = <<>> /\ lastAccepted = Genesis /\ baseView = Snapshot(state)
      /\ outer = [lastAccepted |-> None, blocks |-> {}, fork |-> None, heights |-> <<>>]
      /\ engine = [last |-> Genesis, processing |-> {}]
      /\ accept = [block |-> None, pc |-> "idle"]
    BY Zenon DEF ProposerInit, Init, noAccept
<1>2. Time[Genesis] \in Nat /\ RootSupply \in Nat /\ RootStakers \subseteq Stakers
      /\ Height[Genesis] = 0 /\ Kind[Genesis] # "proposal" /\ Genesis \in Blocks
      /\ Genesis \notin PostFork
    BY PlatformAssumption, TreeFacts, Zenon
<1>3. CachedTypes /\ StateTypes /\ DiskTip
    BY <1>1, <1>2, SMTT(20) DEF CachedTypes, StateTypes, DiskTip
<1>4. TreeTypes /\ Accepting /\ Rooted /\ ProcessingIsCached
    BY <1>1, <1>2, Zenon DEF TreeTypes, Accepting, Rooted, ProcessingIsCached
<1>5. Tips /\ Pointer /\ Progress
    BY <1>1, <1>2, Zenon DEF Tips, Pointer, OuterTip, Progress, After, Written
<1>6. Served
    BY <1>1, <1>2, Zenon DEF Served, Serves
<1> QED BY <1>3, <1>4, <1>5, <1>6, Zenon DEF LayersInv

\* The invariant says what the two properties do.
LEMMA LayersServe ==
    ASSUME LayersInv
    PROVE  OuterCoversInner
<1> USE DEF LayersInv
<1>1. ASSUME NEW h \in DOMAIN state.blockIds
      PROVE  BlockIdAtHeight(h)
                = <<IF state.blockIds[h] \in PostFork THEN "outer" ELSE "inner", state.blockIds[h]>>
    <2>1. Serves(h, state.blockIds[h]) /\ h \in Nat
        BY DEF Served, StateTypes
    <2>2. outer.fork # None => outer.fork \in Nat
        BY DEF Pointer
    <2>3. CASE state.blockIds[h] \in PostFork
        BY <2>1, <2>2, <2>3 DEF Serves, BlockIdAtHeight
    <2>4. CASE state.blockIds[h] \notin PostFork
        BY <2>1, <2>2, <2>4, Zenon DEF Serves, BlockIdAtHeight
    <2> QED BY <2>3, <2>4, Zenon
<1>2. ASSUME NEW h \in DOMAIN state.blockIds, state.blockIds[h] \in PostFork
      PROVE  state.blockIds[h] \in outer.blocks
    BY <1>2, Zenon DEF Served, Serves
<1>3. ASSUME outer.lastAccepted # None
      PROVE  outer.lastAccepted = lastAccepted \/ Parent[outer.lastAccepted] = lastAccepted
    <2>1. outer.lastAccepted = OuterTip
        BY <1>3, Zenon DEF Pointer
    <2>2. CASE accept.pc \in After
        BY <2>1, <2>2, Zenon DEF OuterTip, Tips
    <2>3. CASE accept.pc \in Written
        BY <2>1, <2>3, AcceptingFacts, Zenon DEF OuterTip, Before
    <2>4. CASE accept.pc \notin Written \cup After
        BY <2>1, <2>4, Zenon DEF OuterTip, Tips, Ahead
    <2> QED BY <2>2, <2>3, <2>4, Zenon
<1> QED BY <1>1, <1>2, <1>3, Zenon DEF OuterCoversInner

LEMMA LayersAccept ==
    ASSUME LayersInv
    PROVE  DecidedIsAcceptable
<1> SUFFICES ASSUME accept.pc = "idle", NEW b \in engine.processing
             PROVE  Acceptable(b)
    BY Zenon DEF DecidedIsAcceptable
<1>1. b \in DOMAIN cached
    BY Zenon DEF LayersInv, ProcessingIsCached, After
<1> QED BY <1>1, Zenon DEF LayersInv, CachedTypes, Acceptable

LEMMA LayersStep ==
    ASSUME LayersInv, [Next]_vars
    PROVE  LayersInv'
<1>1. ASSUME NEW b \in Blocks \ {Genesis}, Issue(b) \/ Decide(b)
      PROVE  LayersInv'
    BY <1>1, IssueLayers, DecideLayers, Zenon
<1>2. CASE SetLastAccepted \/ PutBlock \/ SetForkHeight \/ SetBlockIdAtHeight
    BY <1>2, SetLastAcceptedLayers, PutBlockLayers, SetForkHeightLayers,
       SetBlockIdAtHeightLayers, Zenon
<1>3. CASE AcceptInner \/ RefreshView \/ RefreshCaches \/ RejectConflicts
    BY <1>3, AcceptInnerLayers, RefreshLayers, RejectConflictsLayers, Zenon
<1>4. CASE CrashRestart \/ Query \/ UNCHANGED vars
    BY <1>4, CrashRestartLayers, QueryLayers, Zenon
<1> QED BY <1>1, <1>2, <1>3, <1>4, Zenon DEF Next

\* Whatever the inner VM has committed, the wrapper serves by height under
\* the right id, has the bytes of and counts as accepted, however often and
\* wherever inside an accept the node crashed.
THEOREM WrapperCovers == Spec => []OuterCoversInner
<1>1. Spec => []LayersInv
    BY InitLayers, LayersStep, PTL DEF Spec
<1> QED BY <1>1, LayersServe, PTL

\* Consensus never decides a block the VM cannot accept.
THEOREM DecidedAcceptable == Spec => []DecidedIsAcceptable
<1>1. Spec => []LayersInv
    BY InitLayers, LayersStep, PTL DEF Spec
<1> QED BY <1>1, LayersAccept, PTL

-----------------------------------------------------------------------------
(* The ledger.                                                             *)

\* What a diff does to the ledger, from the supply q.
Adds(d, q) ==
    /\ d.del = {} /\ d.paid = {}
    /\ \/ d.put = {} /\ d.supply = q
       \/ \E s \in Stakers : d.put = {s} /\ d.supply = q + Reward[s]

Pays(d, q) ==
    /\ d.put = {} /\ d.supply = q
    /\ \E s \in Stakers : d.del = {s} /\ d.paid = IF Reward[s] > 0 THEN {s} ELSE {}

Aborts(d, q) ==
    /\ d.put = {} /\ d.paid = {}
    /\ \E s \in Stakers : d.del = {s} /\ q >= Reward[s] /\ d.supply = q - Reward[s]

\* The cached blocks are the processing ones and an accepted proposal.
CachedIsKnown ==
    \A c \in DOMAIN cached :
        IF c = lastAccepted THEN Kind[c] = "proposal" ELSE c \in engine.processing

\* A conflict of the accepted block, about to be rejected.
Stale(c) == accept.pc \in After /\ Parent[c] = engine.last /\ c # accept.block

\* The supply a cached block starts from.
SupplyBelow(c) ==
    IF Parent[c] \in DOMAIN cached THEN cached[Parent[c]].onAccept.supply ELSE state.supply

\* What a cached block is about to do to the ledger.
Foresees(c) ==
    /\ Kind[c] = "standard" => Adds(cached[c].onAccept, SupplyBelow(c))
    /\ Kind[c] = "proposal" => /\ Pays(cached[c].onCommit, SupplyBelow(c))
                               /\ Aborts(cached[c].onAbort, SupplyBelow(c))
    /\ Kind[c] \in Options =>
          /\ Parent[c] \in DOMAIN cached /\ Kind[Parent[c]] = "proposal"
          /\ cached[c].onAccept \in {cached[Parent[c]].onCommit, cached[Parent[c]].onAbort}

CacheForesees == \A c \in DOMAIN cached : Stale(c) \/ Foresees(c)

NoDepartures == departures \cap {"stale", "replaced", "readded"} = {}

Balanced ==
    /\ state.paid \subseteq Stakers
    /\ NoDepartures => state.current \cap state.paid = {}
    /\ LedgerIsExact

LedgerInv == LayersInv /\ CachedIsKnown /\ CacheForesees /\ Balanced

-----------------------------------------------------------------------------
(* The sum.                                                                *)

\* Minted is a sum; Platform_proofs shows it.
RewardsAdd ==
    \A S \in SUBSET Stakers :
        Minted(S) \in Nat /\ \A s \in Stakers \ S : Minted(S \cup {s}) = Minted(S) + Reward[s]

LEMMA MintedOne ==
    ASSUME RewardsAdd, NEW U \in SUBSET Stakers, NEW s \in Stakers
    PROVE  /\ Minted(U) \in Nat /\ Reward[s] \in Nat
           /\ s \notin U => Minted(U \cup {s}) = Minted(U) + Reward[s]
           /\ s \in U => Minted(U \ {s}) \in Nat /\ Minted(U) = Minted(U \ {s}) + Reward[s]
<1>1. Minted(U) \in Nat /\ (s \notin U => Minted(U \cup {s}) = Minted(U) + Reward[s])
    BY Zenon DEF RewardsAdd
<1>2. ASSUME s \in U
      PROVE  Minted(U \ {s}) \in Nat /\ Minted(U) = Minted(U \ {s}) + Reward[s]
    <2>1. (U \ {s}) \cup {s} = U /\ U \ {s} \in SUBSET Stakers /\ s \in Stakers \ (U \ {s})
        BY <1>2, Zenon
    <2>2. Minted(U \ {s}) \in Nat /\ Minted((U \ {s}) \cup {s}) = Minted(U \ {s}) + Reward[s]
        BY <2>1, Zenon DEF RewardsAdd
    <2> QED BY <2>1, <2>2, Zenon
<1> QED BY <1>1, <1>2, RewardTypes, Zenon

\* An applied diff that starts from the supply on disk keeps the balance.
LEMMA CommitBalanced ==
    ASSUME RewardsAdd, StateTypes, Balanced, NEW b \in Blocks, NEW d \in Diffs, CommitAccept(b, d),
           Adds(d, state.supply) \/ Pays(d, state.supply) \/ Aborts(d, state.supply)
    PROVE  Balanced'
<1> DEFINE S == state.current
           T == ApplyStakers(S, d)
           U == S \cup state.paid
           W == T \cup (state.paid \cup d.paid)
<1>1. /\ state'.supply = d.supply /\ state'.current = T /\ state'.paid = state.paid \cup d.paid
      /\ departures' = departures \cup Departs(S, T, d)
    BY Zenon DEF CommitAccept
<1>2. S \subseteq Stakers /\ state.paid \subseteq Stakers /\ d.paid \subseteq Stakers
      /\ state.supply \in Nat /\ RootSupply \in Nat /\ d.supply \in Nat
    BY PlatformAssumption, Zenon DEF StateTypes, Balanced, Diffs
<1>3. RootStakers \in SUBSET Stakers /\ U \in SUBSET Stakers
    BY <1>2, PlatformAssumption, Zenon
<1>4. Minted(RootStakers) \in Nat /\ Minted(U) \in Nat
    BY <1>3, Zenon DEF RewardsAdd
<1>5. ASSUME NoDepartures'
      PROVE  /\ NoDepartures /\ d.del \subseteq S /\ S \subseteq T \cup d.del
             /\ d.put \cap U = {}
    BY <1>1, <1>5, Zenon DEF NoDepartures, Departs
<1>6. ASSUME NoDepartures
      PROVE  /\ S \cap state.paid = {}
             /\ state.supply + Minted(RootStakers) = RootSupply + Minted(U)
    BY <1>6, Zenon DEF Balanced, NoDepartures, LedgerIsExact
<1>7. ASSUME NoDepartures'
      PROVE  /\ T \cap (state.paid \cup d.paid) = {}
             /\ d.supply + Minted(RootStakers) = RootSupply + Minted(W)
    <2>1. /\ d.del \subseteq S /\ S \subseteq T \cup d.del /\ d.put \cap U = {}
          /\ S \cap state.paid = {}
          /\ state.supply + Minted(RootStakers) = RootSupply + Minted(U)
        BY <1>5, <1>6, <1>7, Zenon
    <2>2. CASE d.put = {} /\ d.supply = state.supply /\ d.del = {} /\ d.paid = {}
        <3>1. T = S /\ W = U
            BY <2>2, Zenon DEF ApplyStakers
        <3> QED BY <2>1, <2>2, <3>1, Zenon
    <2>3. ASSUME NEW s \in Stakers, d.put = {s}, d.supply = state.supply + Reward[s],
                 d.del = {}, d.paid = {}
          PROVE  /\ T \cap (state.paid \cup d.paid) = {}
                 /\ d.supply + Minted(RootStakers) = RootSupply + Minted(W)
        <3>1. (CHOOSE x \in {s} : TRUE) = s
            BY Zenon
        <3>2. T = PutStaker(S, s)
            BY <2>3, <3>1, Zenon DEF ApplyStakers
        <3>3. T = S \cup {s} /\ s \notin U
            BY <2>1, <2>3, <3>2, Zenon DEF PutStaker
        <3>4. W = U \cup {s}
            BY <2>3, <3>3, Zenon
        <3>5. Minted(W) = Minted(U) + Reward[s] /\ Reward[s] \in Nat
            BY <1>3, <3>3, <3>4, MintedOne, Zenon
        <3>6. T \cap (state.paid \cup d.paid) = {}
            BY <2>1, <2>3, <3>3, Zenon
        <3> HIDE DEF U, W, T
        <3> QED BY <1>2, <1>4, <2>1, <2>3, <3>5, <3>6, SMTT(20)
    <2>4. ASSUME NEW s \in Stakers, d.put = {}, d.del = {s}, d.supply = state.supply,
                 d.paid = IF Reward[s] > 0 THEN {s} ELSE {}
          PROVE  /\ T \cap (state.paid \cup d.paid) = {}
                 /\ d.supply + Minted(RootStakers) = RootSupply + Minted(W)
        <3>1. T = S \ {s} /\ s \in S /\ s \in U /\ s \notin state.paid
            BY <2>1, <2>4, Zenon DEF ApplyStakers
        <3>2. T \cap (state.paid \cup d.paid) = {}
            BY <2>1, <2>4, <3>1, Zenon
        <3>3. Minted(W) = Minted(U)
            <4>1. CASE Reward[s] > 0
                <5>1. W = U
                    BY <2>4, <3>1, <4>1, Zenon
                <5> QED BY <5>1, Zenon
            <4>2. CASE ~(Reward[s] > 0)
                <5>1. W = U \ {s} /\ Reward[s] = 0
                    BY <2>4, <3>1, <4>2, RewardTypes, SMTT(20)
                <5>2. Minted(U \ {s}) \in Nat /\ Minted(U) = Minted(U \ {s}) + Reward[s]
                    BY <1>3, <3>1, MintedOne, Zenon
                <5> QED BY <5>1, <5>2, SMTT(20)
            <4> QED BY <4>1, <4>2, Zenon
        <3> QED BY <2>1, <2>4, <3>2, <3>3, Zenon
    <2>5. ASSUME NEW s \in Stakers, d.put = {}, d.del = {s}, d.paid = {},
                 state.supply >= Reward[s], d.supply = state.supply - Reward[s]
          PROVE  /\ T \cap (state.paid \cup d.paid) = {}
                 /\ d.supply + Minted(RootStakers) = RootSupply + Minted(W)
        <3>1. T = S \ {s} /\ s \in S /\ s \in U /\ s \notin state.paid
            BY <2>1, <2>5, Zenon DEF ApplyStakers
        <3>2. T \cap (state.paid \cup d.paid) = {}
            BY <2>1, <2>5, <3>1, Zenon
        <3>3. W = U \ {s}
            BY <2>5, <3>1, Zenon
        <3>4. Minted(W) \in Nat /\ Minted(U) = Minted(W) + Reward[s] /\ Reward[s] \in Nat
            <4> HIDE DEF U, W
            <4> QED BY <1>3, <3>1, <3>3, MintedOne, Zenon
        <3> HIDE DEF U, W, T
        <3> QED BY <1>2, <1>4, <2>1, <2>5, <3>2, <3>4
    <2> HIDE DEF T, W
    <2>6. CASE Adds(d, state.supply)
        BY <2>2, <2>3, <2>6, Zenon DEF Adds
    <2>7. CASE Pays(d, state.supply)
        BY <2>4, <2>7, Zenon DEF Pays
    <2>8. CASE Aborts(d, state.supply)
        BY <2>5, <2>8, Zenon DEF Aborts
    <2> QED BY <2>6, <2>7, <2>8, Zenon
<1>8. state'.paid \subseteq Stakers
    BY <1>1, <1>2, Zenon
<1> HIDE DEF T
<1> QED BY <1>1, <1>7, <1>8, Zenon DEF Balanced, NoDepartures, LedgerIsExact

-----------------------------------------------------------------------------
(* The steps keep the balance.                                             *)

LEMMA ForeseesKept ==
    ASSUME NEW c, Foresees(c), cached'[c] = cached[c], SupplyBelow(c)' = SupplyBelow(c),
           Kind[c] \in Options => /\ Parent[c] \in DOMAIN cached'
                                  /\ cached'[Parent[c]] = cached[Parent[c]]
    PROVE  Foresees(c)'
BY Zenon DEF Foresees, Adds, Pays, Aborts

LEMMA VerifyForesees ==
    ASSUME CachedTypes, StateTypes, NEW b \in Blocks \ {Genesis}, b \notin DOMAIN cached, Verify(b)
    PROVE  Foresees(b)' /\ \A c \in DOMAIN cached : cached'[c] = cached[c]
<1>1. Parent[b] # b /\ Parent[b] \in Blocks
    BY TreeFacts, Zenon
<1>2. ASSUME NEW x, NEW y, NEW z, Cache(b, x, y, z)
      PROVE  /\ \A c \in DOMAIN cached : cached'[c] = cached[c]
             /\ cached'[b].onAccept = x /\ cached'[b].onCommit = y /\ cached'[b].onAbort = z
             /\ Parent[b] \in DOMAIN cached' <=> Parent[b] \in DOMAIN cached
    BY <1>1, <1>2, Zenon DEF Cache
<1> DEFINE d == NewDiff(ParentState(Parent[b]), Time[b])
<1>3. ASSUME UNCHANGED state, \A c \in DOMAIN cached : cached'[c] = cached[c],
             Parent[b] \in DOMAIN cached' <=> Parent[b] \in DOMAIN cached
      PROVE  /\ SupplyBelow(b)' = d.supply
             /\ d.put = {} /\ d.del = {} /\ d.paid = {}
    BY <1>3, Zenon DEF SupplyBelow, ParentState, NewDiff, StateTypes, Snapshot
<1>4. CASE VerifyStandard(b)
    <2>1. Kind[b] = "standard" /\ HasState(Parent[b]) /\ Cache(b, StandardDiff(b), None, None)
          /\ UNCHANGED state
        BY <1>4, Zenon DEF VerifyStandard
    <2>2. d \in Diffs /\ Tx[b] \in Stakers \cup {None}
        BY <2>1, NewDiffTypes, PlatformAssumption, Zenon
    <2>3. /\ SupplyBelow(b)' = d.supply /\ d.put = {} /\ d.del = {} /\ d.paid = {}
          /\ cached'[b].onAccept = StandardDiff(b)
          /\ \A c \in DOMAIN cached : cached'[c] = cached[c]
        BY <1>2, <1>3, <2>1, Zenon
    <2> HIDE DEF d
    <2>4. Adds(StandardDiff(b), d.supply)
        <3>1. StandardDiff(b) = IF Tx[b] = None THEN d
                                ELSE [d EXCEPT !.put = {Tx[b]}, !.supply = @ + Reward[Tx[b]]]
            BY Zenon DEF StandardDiff, d
        <3>2. CASE Tx[b] = None
            BY <2>3, <3>1, <3>2, Zenon DEF Adds
        <3>3. CASE Tx[b] # None
            BY <2>2, <2>3, <3>1, <3>3, Zenon DEF Adds, Diffs
        <3> QED BY <3>2, <3>3, Zenon
    <2>5. Adds(cached[b].onAccept, SupplyBelow(b))'
        BY <2>3, <2>4, Zenon DEF Adds
    <2> QED BY <2>1, <2>3, <2>5, Zenon DEF Foresees, Options
<1>5. CASE VerifyProposal(b)
    <2>1. /\ Kind[b] = "proposal" /\ HasState(Parent[b]) /\ RewardVerifies(b, d)
          /\ Cache(b, None, CommitDiff(d, Tx[b]), AbortDiff(d, Tx[b])) /\ UNCHANGED state
        BY <1>5, Zenon DEF VerifyProposal
    <2>2. d \in Diffs /\ Tx[b] \in Stakers
        BY <2>1, NewDiffTypes, PlatformAssumption, Zenon
    <2>3. /\ SupplyBelow(b)' = d.supply /\ d.put = {} /\ d.del = {} /\ d.paid = {}
          /\ cached'[b].onCommit = CommitDiff(d, Tx[b]) /\ cached'[b].onAbort = AbortDiff(d, Tx[b])
          /\ \A c \in DOMAIN cached : cached'[c] = cached[c]
        BY <1>2, <1>3, <2>1, Zenon
    <2> HIDE DEF d
    <2>4. Pays(CommitDiff(d, Tx[b]), d.supply)
        BY <2>2, <2>3, Zenon DEF Pays, CommitDiff, Diffs
    <2>5. Aborts(AbortDiff(d, Tx[b]), d.supply)
        BY <2>1, <2>2, <2>3, Zenon DEF Aborts, AbortDiff, RewardVerifies, Diffs
    <2>6. Pays(cached[b].onCommit, SupplyBelow(b))' /\ Aborts(cached[b].onAbort, SupplyBelow(b))'
        BY <2>3, <2>4, <2>5, Zenon DEF Pays, Aborts
    <2> QED BY <2>1, <2>3, <2>6, Zenon DEF Foresees, Options
<1>6. CASE VerifyOption(b)
    <2>1. /\ Kind[b] \in Options /\ Parent[b] \in DOMAIN cached /\ OptionDiff(b) # None
          /\ Cache(b, OptionDiff(b), None, None)
        BY <1>6, Zenon DEF VerifyOption, Options
    <2>2. Kind[Parent[b]] = "proposal"
        BY <2>1, Zenon DEF OptionDiff, CachedTypes
    <2>3. /\ cached'[b].onAccept \in {cached'[Parent[b]].onCommit, cached'[Parent[b]].onAbort}
          /\ Parent[b] \in DOMAIN cached' /\ \A c \in DOMAIN cached : cached'[c] = cached[c]
        BY <1>2, <2>1, Zenon DEF OptionDiff
    <2> QED BY <2>1, <2>2, <2>3, Zenon DEF Foresees, Options
<1> QED BY <1>4, <1>5, <1>6, Zenon DEF Verify

LEMMA BalancedKept ==
    ASSUME Balanced, UNCHANGED <<state, departures>>
    PROVE  Balanced'
BY Zenon DEF Balanced, NoDepartures, LedgerIsExact

LEMMA IssueLedger ==
    ASSUME LedgerInv, LayersInv', NEW b \in Blocks \ {Genesis}, Issue(b)
    PROVE  LedgerInv'
<1> USE DEF LedgerInv
<1>1. /\ accept.pc = "idle" /\ b \notin engine.processing
      /\ Parent[b] \in engine.processing \cup {engine.last} /\ Verify(b)
      /\ engine' = [engine EXCEPT !.processing = @ \cup {b}] /\ UNCHANGED accept
    BY Zenon DEF Issue
<1>2. CachedTypes /\ StateTypes /\ DiskTip /\ TreeTypes /\ Rooted /\ Tips
    BY Zenon DEF LayersInv
<1>3. /\ DOMAIN cached' = DOMAIN cached \cup {b}
      /\ UNCHANGED <<state, lastAccepted, departures>>
      /\ Parent[b] \in DOMAIN cached \cup {lastAccepted}
    BY <1>1, <1>2, VerifyFacts, Zenon
<1>4. /\ b # lastAccepted /\ lastAccepted = engine.last /\ Height[engine.last] < Height[b]
      /\ Height[engine.last] \in Nat
    BY <1>1, <1>2, IssueInStep, TreeFacts DEF TreeTypes
<1>5. b \notin DOMAIN cached
    BY <1>1, <1>4, Zenon DEF CachedIsKnown
<1>6. Foresees(b)' /\ \A c \in DOMAIN cached : cached'[c] = cached[c]
    BY <1>1, <1>2, <1>5, VerifyForesees, Zenon
<1>7. CachedIsKnown'
    <2>1. engine'.processing = engine.processing \cup {b}
        BY <1>1, <1>2, Zenon DEF TreeTypes
    <2> QED BY <1>3, <1>4, <2>1, Zenon DEF CachedIsKnown
<1>8. ASSUME NEW c \in DOMAIN cached
      PROVE  Foresees(c)'
    <2>1. Foresees(c)
        BY <1>1, Zenon DEF CacheForesees, Stale, After
    <2>2. Parent[c] # b
        <3>1. CASE c = lastAccepted
            <4>1. c \in Blocks \ {Genesis}
                BY <1>2, Zenon DEF CachedTypes
            <4>2. Height[c] = Height[Parent[c]] + 1 /\ Height[Parent[c]] \in Nat
                BY <4>1, TreeFacts, Zenon
            <4> QED BY <1>4, <3>1, <4>2
        <3>2. CASE c \in engine.processing
            BY <1>1, <1>2, <1>4, <3>2, Zenon DEF Rooted
        <3> QED BY <3>1, <3>2, Zenon DEF CachedIsKnown
    <2>3. SupplyBelow(c)' = SupplyBelow(c)
        BY <1>3, <1>6, <2>2, Zenon DEF SupplyBelow
    <2> QED BY <1>3, <1>6, <2>1, <2>3, ForeseesKept, Zenon DEF Foresees
<1>9. CacheForesees'
    BY <1>3, <1>6, <1>8, Zenon DEF CacheForesees
<1> QED BY <1>3, <1>7, <1>9, BalancedKept, Zenon

\* Steps that touch neither the platform nor the engine.
LEMMA QuietLedger ==
    ASSUME LedgerInv, LayersInv',
           UNCHANGED <<state, cached, lastAccepted, departures, engine>>,
           accept.pc \in After => accept'.pc \in After /\ accept'.block = accept.block
    PROVE  LedgerInv'
<1> USE DEF LedgerInv
<1>1. CachedIsKnown'
    BY Zenon DEF CachedIsKnown
<1>2. ASSUME NEW c \in DOMAIN cached
      PROVE  Stale(c)' \/ Foresees(c)'
    <2>1. CASE Stale(c)
        BY <2>1, Zenon DEF Stale
    <2>2. CASE Foresees(c)
        BY <2>2, ForeseesKept, Zenon DEF SupplyBelow, Foresees
    <2> QED BY <2>1, <2>2, Zenon DEF CacheForesees
<1>3. CacheForesees'
    BY <1>2, Zenon DEF CacheForesees
<1> QED BY <1>1, <1>3, BalancedKept, Zenon

\* The accept's block starts from the supply on disk.
LEMMA AcceptedForesees ==
    ASSUME LedgerInv, accept.pc = "inner", accept.block \in DOMAIN cached,
           Kind[accept.block] # "proposal"
    PROVE  LET d == cached[accept.block].onAccept
           IN  Adds(d, state.supply) \/ Pays(d, state.supply) \/ Aborts(d, state.supply)
<1> USE DEF LedgerInv
<1> DEFINE b == accept.block
           p == engine.last
<1>1. accept.pc \in Before /\ accept.pc \notin After
    BY Zenon DEF Before, Written, After
<1>2. /\ b \in Blocks \ {Genesis} /\ Parent[b] = p /\ lastAccepted = p
      /\ Kind[b] \in Options \/ Kind[p] # "proposal"
    BY <1>1, AcceptingFacts, Zenon DEF LayersInv
<1>3. Foresees(b)
    BY <1>1, Zenon DEF CacheForesees, Stale
<1>4. Kind[b] = "standard" \/ Kind[b] \in Options
    BY <1>2, PlatformAssumption, Zenon DEF Options
<1>5. CASE Kind[b] = "standard"
    <2>1. p \notin DOMAIN cached
        BY <1>2, <1>5, Zenon DEF CachedIsKnown, Options
    <2> QED BY <1>2, <1>3, <1>5, <2>1, Zenon DEF Foresees, SupplyBelow
<1>6. CASE Kind[b] \in Options
    <2>1. /\ p \in DOMAIN cached /\ Kind[p] = "proposal"
          /\ cached[b].onAccept \in {cached[p].onCommit, cached[p].onAbort}
        BY <1>2, <1>3, <1>6, Zenon DEF Foresees
    <2>2. Foresees(p)
        BY <1>1, <2>1, Zenon DEF CacheForesees, Stale
    <2>3. Parent[p] \notin DOMAIN cached
        <3>1. p \in Blocks \ {Genesis}
            BY <2>1, Zenon DEF LayersInv, CachedTypes
        <3>2. Height[p] = Height[Parent[p]] + 1 /\ Height[Parent[p]] \in Nat /\ Parent[p] # p
            BY <3>1, TreeFacts, Zenon
        <3>3. Parent[p] \notin engine.processing
            BY <3>2 DEF LayersInv, Rooted
        <3> QED BY <1>2, <3>2, <3>3, Zenon DEF CachedIsKnown
    <2>4. Pays(cached[p].onCommit, state.supply) /\ Aborts(cached[p].onAbort, state.supply)
        BY <2>1, <2>2, <2>3, Zenon DEF Foresees, SupplyBelow
    <2> QED BY <2>1, <2>4, Zenon
<1> QED BY <1>4, <1>5, <1>6, Zenon

LEMMA AcceptInnerLedger ==
    ASSUME RewardsAdd, LedgerInv, LayersInv', AcceptInner
    PROVE  LedgerInv'
<1> USE DEF LedgerInv
<1> DEFINE b == accept.block
           p == engine.last
<1>1. /\ accept.pc = "inner" /\ Accept(b) /\ UNCHANGED engine
      /\ accept'.block = b /\ accept'.pc = "store"
    BY Zenon DEF AcceptInner, LayersInv, TreeTypes
<1>2. accept.pc \in Before /\ accept.pc \notin After /\ accept'.pc \in After
    BY <1>1, Zenon DEF Before, Written, After
<1>3. /\ b \in Blocks \ {Genesis} /\ b \in engine.processing /\ Parent[b] = p /\ lastAccepted = p
      /\ Kind[b] \in Options \/ Kind[p] # "proposal"
      /\ b # p /\ p \notin engine.processing
    <2>1. Height[p] \in Nat
        BY <1>2, AcceptingFacts, Zenon DEF LayersInv
    <2> QED BY <1>2, <2>1, AcceptingFacts, SMTT(20) DEF LayersInv, Rooted
<1>4. \A c \in DOMAIN cached : Foresees(c)
    BY <1>2, Zenon DEF CacheForesees, Stale
<1>5. CASE AcceptProposal(b)
    <2>1. /\ Kind[b] = "proposal" /\ lastAccepted' = b /\ UNCHANGED <<state, cached, departures>>
        BY <1>5, Zenon DEF AcceptProposal
    <2>2. CachedIsKnown'
        <3>1. p \notin DOMAIN cached
            BY <1>3, <2>1, Zenon DEF CachedIsKnown, Options
        <3> QED BY <1>1, <1>3, <2>1, <3>1, Zenon DEF CachedIsKnown
    <2>3. ASSUME NEW c \in DOMAIN cached
          PROVE  Foresees(c)'
        BY <1>4, <2>1, ForeseesKept, Zenon DEF SupplyBelow, Foresees
    <2>4. CacheForesees'
        BY <2>1, <2>3, Zenon DEF CacheForesees
    <2> QED BY <2>1, <2>2, <2>4, BalancedKept, Zenon
<1>6. CASE AcceptDecision(b)
    <2> DEFINE d == cached[b].onAccept
               F == IF Kind[b] = "standard" THEN {b} ELSE {b, Parent[b]}
    <2>1. /\ Kind[b] # "proposal" /\ b \in DOMAIN cached /\ d # None
          /\ CommitAccept(b, d) /\ Free(F)
        BY <1>6, Zenon DEF AcceptDecision, Acceptable
    <2>2. d \in Diffs
        BY <2>1, Zenon DEF LayersInv, CachedTypes
    <2>3. /\ DOMAIN cached' = DOMAIN cached \ F
          /\ \A c \in DOMAIN cached' : cached'[c] = cached[c]
        BY <2>1, Zenon DEF Free
    <2>4. Balanced'
        BY <1>1, <1>3, <2>1, <2>2, AcceptedForesees, CommitBalanced, Zenon
           DEF LayersInv
    <2>5. lastAccepted' = b /\ state'.supply = d.supply
        BY <2>1, Zenon DEF CommitAccept
    <2>6. p \notin DOMAIN cached'
        <3>1. CASE Kind[b] = "standard"
            BY <1>3, <2>3, <3>1, Zenon DEF CachedIsKnown, Options
        <3>2. CASE Kind[b] # "standard"
            BY <1>3, <2>3, <3>2, Zenon
        <3> QED BY <3>1, <3>2, Zenon
    <2>7. CachedIsKnown'
        BY <1>1, <1>3, <2>3, <2>5, <2>6, Zenon DEF CachedIsKnown
    <2>8. ASSUME NEW c \in DOMAIN cached', ~Stale(c)'
          PROVE  Foresees(c)'
        <3>1. c \in DOMAIN cached /\ c # b /\ c \in engine.processing
            BY <1>1, <2>3, <2>5, <2>7, <2>8, Zenon DEF CachedIsKnown
        <3>2. Parent[c] # p
            BY <1>1, <1>2, <2>8, <3>1, Zenon DEF Stale
        <3>3. CASE Parent[c] = b
            <4>1. SupplyBelow(c)' = SupplyBelow(c)
                BY <2>1, <2>3, <2>5, <3>3, Zenon DEF SupplyBelow
            <4>2. Kind[c] \notin Options
                BY <1>4, <2>1, <3>1, <3>3, Zenon DEF Foresees
            <4> QED BY <1>4, <2>3, <3>1, <4>1, <4>2, ForeseesKept, Zenon
        <3>4. CASE Parent[c] # b
            <4>1. Parent[c] \in DOMAIN cached /\ Parent[c] \in DOMAIN cached'
                <5>1. Parent[c] \in engine.processing
                    BY <3>1, <3>2, Zenon DEF LayersInv, Rooted
                <5>2. Parent[c] \in DOMAIN cached
                    BY <1>2, <5>1, Zenon DEF LayersInv, ProcessingIsCached
                <5> QED BY <1>3, <2>3, <3>2, <3>4, <5>2, Zenon
            <4>2. SupplyBelow(c)' = SupplyBelow(c)
                BY <2>3, <4>1, Zenon DEF SupplyBelow
            <4> QED BY <1>4, <2>3, <3>1, <4>1, <4>2, ForeseesKept, Zenon
        <3> QED BY <3>3, <3>4, Zenon
    <2>9. CacheForesees'
        BY <2>8, Zenon DEF CacheForesees
    <2> QED BY <2>4, <2>7, <2>9, Zenon
<1> QED BY <1>1, <1>5, <1>6, Zenon DEF Accept

LEMMA RejectConflictsLedger ==
    ASSUME LedgerInv, LayersInv', RejectConflicts
    PROVE  LedgerInv'
<1> USE DEF LedgerInv
<1> DEFINE b == accept.block
<1>1. accept.pc \in After /\ accept'.pc = "idle" /\ accept'.pc \notin After
    BY Zenon DEF RejectConflicts, noAccept, After
<1>2. PICK R \in SUBSET (engine.processing \ {b}) :
         /\ \A c \in engine.processing \ {b} :
               c \in R <=> Parent[c] = engine.last \/ Parent[c] \in R
         /\ Reject(R)
         /\ engine' = [last |-> b, processing |-> engine.processing \ (R \cup {b})]
    BY Zenon DEF RejectConflicts
<1>3. /\ b \in engine.processing /\ Parent[b] = engine.last /\ lastAccepted = b
      /\ engine.last \notin engine.processing
    <2>1. Height[engine.last] \in Nat
        BY TreeFacts, Zenon DEF LayersInv, TreeTypes
    <2> QED BY <1>1, <2>1, SMTT(20) DEF LayersInv, Accepting, Tips, Rooted, After
<1>4. /\ DOMAIN cached' = DOMAIN cached \ R
      /\ \A c \in DOMAIN cached' : cached'[c] = cached[c]
      /\ UNCHANGED <<state, lastAccepted, departures>>
    BY <1>2, Zenon DEF Reject, Free
<1>5. CachedIsKnown'
    BY <1>2, <1>3, <1>4, Zenon DEF CachedIsKnown
<1>6. ASSUME NEW c \in DOMAIN cached'
      PROVE  Foresees(c)'
    <2>1. c \in DOMAIN cached /\ c \notin R
        BY <1>4, Zenon
    <2>2. c = b \/ c \in engine.processing \ {b}
        BY <1>3, <2>1, Zenon DEF CachedIsKnown
    <2>3. Parent[c] \notin R /\ ~Stale(c)
        <3>1. CASE c = b
            BY <1>2, <1>3, <3>1, Zenon DEF Stale
        <3>2. CASE c \in engine.processing \ {b}
            BY <1>2, <2>1, <3>2, Zenon DEF Stale
        <3> QED BY <2>2, <3>1, <3>2, Zenon
    <2>4. Foresees(c)
        BY <2>1, <2>3, Zenon DEF CacheForesees
    <2>5. SupplyBelow(c)' = SupplyBelow(c)
        BY <1>4, <2>3, Zenon DEF SupplyBelow
    <2>6. Kind[c] \in Options =>
             Parent[c] \in DOMAIN cached' /\ cached'[Parent[c]] = cached[Parent[c]]
        BY <1>4, <2>3, <2>4, Zenon DEF Foresees
    <2> QED BY <1>4, <2>4, <2>5, <2>6, ForeseesKept, Zenon
<1>7. CacheForesees'
    BY <1>6, Zenon DEF CacheForesees
<1> QED BY <1>4, <1>5, <1>7, BalancedKept, Zenon

LEMMA CrashRestartLedger ==
    ASSUME LedgerInv, LayersInv', CrashRestart
    PROVE  LedgerInv'
<1>1. DOMAIN cached' = {} /\ UNCHANGED <<state, departures>>
    BY DEF CrashRestart, Reload
<1>2. CachedIsKnown' /\ CacheForesees'
    BY <1>1, Zenon DEF CachedIsKnown, CacheForesees
<1> QED BY <1>1, <1>2, BalancedKept, Zenon DEF LedgerInv

LEMMA InitLedger ==
    ASSUME RewardsAdd, ProposerInit
    PROVE  LedgerInv
<1>1. /\ state.supply = RootSupply /\ state.current = RootStakers /\ state.paid = {}
      /\ DOMAIN cached = {}
    BY SMTT(20) DEF ProposerInit, Init
<1>2. RootStakers \cup {} = RootStakers /\ RootStakers \in SUBSET Stakers
    BY PlatformAssumption, Zenon
<1>3. Balanced
    BY <1>1, <1>2, Zenon DEF Balanced, LedgerIsExact
<1>4. CachedIsKnown /\ CacheForesees
    BY <1>1, Zenon DEF CachedIsKnown, CacheForesees
<1> QED BY <1>3, <1>4, InitLayers, Zenon DEF LedgerInv

LEMMA LedgerStep ==
    ASSUME RewardsAdd, LedgerInv, [Next]_vars
    PROVE  LedgerInv'
<1>1. LayersInv'
    BY LayersStep, Zenon DEF LedgerInv
<1>2. ASSUME NEW b \in Blocks \ {Genesis}, Issue(b)
      PROVE  LedgerInv'
    BY <1>1, <1>2, IssueLedger, Zenon
<1>3. ASSUME NEW b \in Blocks \ {Genesis}, Decide(b)
      PROVE  LedgerInv'
    <2>1. /\ UNCHANGED <<state, cached, lastAccepted, departures, engine>>
          /\ accept.pc \notin After
        BY <1>3, Zenon DEF Decide, platformVars, After
    <2> QED BY <1>1, <2>1, QuietLedger, Zenon
<1>4. CASE SetLastAccepted \/ PutBlock \/ SetForkHeight \/ SetBlockIdAtHeight
    <2>1. /\ UNCHANGED <<state, cached, lastAccepted, departures, engine>>
          /\ accept.pc \in {"pointer", "block", "fork", "index"}
        BY <1>4, Zenon DEF SetLastAccepted, PutBlock, SetForkHeight,
                           SetBlockIdAtHeight,
                    Write,
                    platformVars
    <2>2. accept.pc \notin After
        BY <2>1, Zenon DEF After
    <2> QED BY <1>1, <2>1, <2>2, QuietLedger, Zenon
<1>5. CASE AcceptInner
    BY <1>1, <1>5, AcceptInnerLedger, Zenon
<1>6. CASE RefreshView \/ RefreshCaches
    <2>1. /\ UNCHANGED <<state, cached, lastAccepted, departures, engine>>
          /\ accept'.pc \in After /\ accept'.block = accept.block
        BY <1>6, Zenon DEF LedgerInv, LayersInv, TreeTypes, RefreshView,
                           RefreshCaches,
                    platformVars, After
    <2> QED BY <1>1, <2>1, QuietLedger, Zenon
<1>7. CASE RejectConflicts
    BY <1>1, <1>7, RejectConflictsLedger, Zenon
<1>8. CASE CrashRestart
    BY <1>1, <1>8, CrashRestartLedger, Zenon
<1>9. CASE Query \/ UNCHANGED vars
    <2>1. UNCHANGED <<state, cached, lastAccepted, departures, engine, accept>>
        BY <1>9, Zenon DEF Query, platformVars, wrapperVars, vars
    <2> QED BY <1>1, <2>1, QuietLedger, Zenon
<1> QED BY <1>2, <1>3, <1>4, <1>5, <1>6, <1>7, <1>8, <1>9, Zenon DEF Next

-----------------------------------------------------------------------------
(* After a crash between the layers.                                       *)

\* A step from a state in which the wrapper is ahead changes nothing that
\* consensus or the chain can see, a further restart included.
AheadIsStuck == [][Ahead => Ahead' /\ UNCHANGED <<state, outer, engine>>]_vars

LEMMA AheadStep ==
    ASSUME LayersInv, Ahead, [Next]_vars
    PROVE  Ahead' /\ UNCHANGED <<state, outer, engine>>
<1>1. accept.pc = "idle" /\ engine.processing = {} /\ engine.last # lastAccepted
    <2>1. Parent[engine.last] = lastAccepted /\ engine.last \in Blocks \ {Genesis}
        BY TreeFacts, Zenon DEF Ahead
    <2> QED BY <2>1, TreeFacts, Zenon DEF Ahead
<1>2. ASSUME NEW b \in Blocks \ {Genesis}
      PROVE  ~Issue(b) /\ ~Decide(b)
    BY <1>1, IssueInStep, Zenon DEF Decide
<1>3. ~(SetLastAccepted \/ PutBlock \/ SetForkHeight \/ SetBlockIdAtHeight)
    BY <1>1, Zenon DEF SetLastAccepted, PutBlock, SetForkHeight,
                       SetBlockIdAtHeight, Write
<1>4. ~(AcceptInner \/ RefreshView \/ RefreshCaches \/ RejectConflicts)
    BY <1>1, Zenon DEF AcceptInner, RefreshView, RefreshCaches, RejectConflicts
<1>5. CASE CrashRestart
    <2>1. outer.lastAccepted = engine.last
        BY <1>1, Zenon DEF Ahead, LayersInv, Pointer, OuterTip, Written, After
    <2>2. outer.lastAccepted # None
        BY <2>1, PlatformAssumption, Zenon DEF LayersInv, TreeTypes
    <2>3. engine' = [last |-> engine.last, processing |-> {}] /\ UNCHANGED <<state, outer>>
        BY <1>5, <2>1, <2>2, Zenon DEF CrashRestart, Reload
    <2>4. UNCHANGED <<state, outer, engine>>
        BY <1>1, <2>3, Zenon DEF LayersInv, TreeTypes
    <2>5. lastAccepted = state.lastAccepted
        BY Zenon DEF Ahead, LayersInv, DiskTip
    <2>6. lastAccepted' = lastAccepted /\ DOMAIN cached' = {} /\ accept'.pc = "idle"
        BY <1>5, <2>5, SMTT(20) DEF CrashRestart, Reload, noAccept
    <2> QED BY <2>4, <2>6, Zenon DEF Ahead
<1>6. CASE Query \/ UNCHANGED vars
    BY <1>6, Zenon DEF Query, platformVars, wrapperVars, vars, Ahead
<1> QED BY <1>2, <1>3, <1>4, <1>5, <1>6, Zenon DEF Next

\* A node that crashed after the wrapper's pointer was written and before the
\* inner VM accepted never accepts a block again: nothing reconciles the two.
THEOREM AheadForever == Spec => AheadIsStuck
<1>1. Spec => []LayersInv
    BY InitLayers, LayersStep, PTL DEF Spec
<1>2. LayersInv /\ [Next]_vars => [Ahead => Ahead' /\ UNCHANGED <<state, outer, engine>>]_vars
    BY AheadStep, Zenon
<1> QED BY <1>1, <1>2, PTL DEF Spec, AheadIsStuck

=============================================================================
