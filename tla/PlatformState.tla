---------------------------- MODULE PlatformState ----------------------------
(***************************************************************************)
(* The P-Chain's block manager (ava-platformvm block/executor) over its    *)
(* persisted state: verify executes a block on its parent's state and      *)
(* caches the resulting diff, accept flushes the diff, records how the     *)
(* validator set changed at that height and moves the tip.  A proposal     *)
(* caches two diffs, one per option; it is written to disk by neither its  *)
(* own acceptance nor its child's.                                         *)
(*                                                                         *)
(* A staker is the transaction that created it.  Pending stakers,          *)
(* permissioned stakers, L1 validators and fees are left out: no           *)
(* transaction of this code puts a staker in the pending set.              *)
(***************************************************************************)
EXTENDS BlockTree, FiniteSetsExt, TLC

CONSTANTS
    Kind,         \* Kind[b]: "standard", "proposal", "commit" or "abort"
    Time,         \* Time[b]: the block's timestamp
    Tx,           \* Tx[b]: the staker the block adds or rewards, or None
    Stakers,      \* staker transactions
    Delegators,   \* the stakers that are delegators; the others validate
    Nodes,        \* (subnet, node) pairs
    Node, Weight, Ends, Reward, Key,  \* of a staker; Key of a validator
    Rank,         \* order of stakers that end together: priority, then id
    RootStakers,  \* current stakers when the root is the last accepted block
    RootSupply,   \* and the supply then
    None

\* What a diff may be: see NewDiff.
Diffs ==
    [time : Nat, supply : Nat, stakers : SUBSET Stakers, put : SUBSET Stakers,
     del : SUBSET Stakers, paid : SUBSET Stakers]

ASSUME PlatformAssumption ==
    /\ Kind \in [Blocks -> {"standard", "proposal", "commit", "abort"}]
    /\ Time \in [Blocks -> Nat]
    /\ Tx \in [Blocks -> Stakers \cup {None}]
    /\ \A b \in Blocks : Kind[b] = "proposal" => Tx[b] # None
    /\ IsFiniteSet(Stakers)
    /\ Delegators \subseteq Stakers /\ RootStakers \subseteq Stakers
    /\ Node \in [Stakers -> Nodes]
    /\ {Weight, Ends, Reward, Rank} \subseteq [Stakers -> Nat]
    /\ \A s \in Stakers : Weight[s] > 0
    /\ \A r, s \in Stakers : Rank[r] = Rank[s] => r = s
    /\ \A d \in Delegators, s \in Stakers \ Delegators : Rank[d] < Rank[s]
    /\ \A s \in RootStakers : \E r \in RootStakers \ Delegators : Node[r] = Node[s]
    /\ RootSupply \in Nat
    /\ Height[Genesis] = 0 /\ Kind[Genesis] # "proposal"
    /\ None \notin Stakers \cup Blocks \cup Nat \cup Diffs

VARIABLES
    state,         \* on disk: time, supply, current, paid, weightDiffs,
                   \* keyDiffs, blockIds, lastAccepted, height
    cached,        \* blk_id_to_state: verified and undecided blocks
    lastAccepted,  \* the manager's tip, which may be a proposal
    baseView,      \* the frozen snapshot of state that new diffs read
    setAt,         \* history: the validator set when each height was accepted
    departures     \* history: what accepted blocks did that the staking rules
                   \* forbid and this code does not: "stale" rewards a staker
                   \* twice, "replaced" drops an unrewarded validator,
                   \* "readded" adds one that is staking or was paid,
                   \* "orphaned" leaves delegators without their validator

platformVars == <<state, cached, lastAccepted, baseView, setAt, departures>>

-----------------------------------------------------------------------------
(* The first staker of the current list, in (end time, priority, id) order. *)
Earliest(S) ==
    CHOOSE s \in S : \A r \in S \ {s} :
        Ends[s] < Ends[r] \/ (Ends[s] = Ends[r] /\ Rank[s] < Rank[r])

TotalWeight(S, n) == MapThenSumSet(LAMBDA s : Weight[s], {s \in S : Node[s] = n})

Validates(S, n) == {s \in S \ Delegators : Node[s] = n}

KeyOf(S, n) ==
    IF Validates(S, n) = {} THEN None ELSE Key[CHOOSE s \in Validates(S, n) : TRUE]

(* current_validator_sets: nodes with a current validator, weighed with    *)
(* their delegators.                                                       *)
ValidatorSet(S) ==
    [n \in {m \in Nodes : Validates(S, m) # {}} |->
        [weight |-> TotalWeight(S, n), key |-> KeyOf(S, n)]]

(* Putting a validator replaces the one its node had.                      *)
PutStaker(S, s) ==
    IF s \in Delegators THEN S \cup {s}
                        ELSE (S \ Validates(S, Node[s])) \cup {s}

\* The map f with an entry written.
With(f, k, v) == [x \in {k} \cup DOMAIN f |-> IF x = k THEN v ELSE f[x]]

Snapshot(st) == [time |-> st.time, supply |-> st.supply, stakers |-> st.current]

-----------------------------------------------------------------------------
Init ==
    /\ state = [time |-> Time[Genesis], supply |-> RootSupply,
                current |-> RootStakers, paid |-> {},
                weightDiffs |-> <<>>, keyDiffs |-> <<>>,
                blockIds |-> [h \in {0} |-> Genesis],
                lastAccepted |-> Genesis, height |-> 0]
    /\ cached = <<>>
    /\ lastAccepted = Genesis
    /\ baseView = Snapshot(state)
    /\ setAt = [h \in {0} |-> ValidatorSet(RootStakers)]
    /\ departures = {}

(* A diff: the scalars it leaves behind, its staker operations, the reward *)
(* outputs it adds, and the list current_stakers() returns, which is the   *)
(* parent's list and so, down the chain, the base's.                       *)
NewDiff(parent, time) ==
    [time |-> time, supply |-> parent.supply, stakers |-> parent.stakers,
     put |-> {}, del |-> {}, paid |-> {}]

(* parent_view and get_state_for_verify: the cached accept diff, or the    *)
(* base when the parent is the tip.  A proposal has no accept diff.        *)
HasState(p) == IF p \in DOMAIN cached THEN cached[p].onAccept # None
                                      ELSE p = lastAccepted

ParentState(p) == IF p \in DOMAIN cached THEN cached[p].onAccept ELSE baseView

ParentHeight(p) == IF p \in DOMAIN cached THEN cached[p].height ELSE state.height

Cache(b, accept, commit, abort) ==
    cached' = [c \in DOMAIN cached \cup {b} |->
                 IF c = b THEN [height |-> Height[b], onAccept |-> accept,
                                onCommit |-> commit, onAbort |-> abort]
                          ELSE cached[c]]

(* verify_standard with put_permissionless_staker.  The semantic checks    *)
(* are skipped: the executor's backend keeps bootstrapped = false.         *)
StandardVerifies(b) ==
    Tx[b] # None => Ends[Tx[b]] >= Time[b]

StandardDiff(b) ==
    LET d == NewDiff(ParentState(Parent[b]), Time[b])
        s == Tx[b]
    IN  IF s = None THEN d
        ELSE [d EXCEPT !.put = {s}, !.supply = @ + Reward[s]]

VerifyStandard(b) ==
    /\ Kind[b] = "standard" /\ HasState(Parent[b])
    /\ Height[b] = ParentHeight(Parent[b]) + 1
    /\ StandardVerifies(b)
    /\ Cache(b, StandardDiff(b), None, None)
    /\ UNCHANGED <<state, lastAccepted, baseView, setAt, departures>>

(* reward_validator: the transaction must name the earliest current        *)
(* staker, at its end; only validators resolve (rewarded_staker_tx).       *)
RewardVerifies(b, d) ==
    /\ d.stakers # {} /\ Earliest(d.stakers) = Tx[b]
    /\ Ends[Tx[b]] = d.time
    /\ Tx[b] \notin Delegators
    /\ d.supply >= Reward[Tx[b]]

CommitDiff(d, s) == [d EXCEPT !.del = {s}, !.paid = IF Reward[s] > 0 THEN {s} ELSE {}]

\* Mutant: the reward of an aborted staker stays in the supply.
AbortKeepsSupply(d, s) == [d EXCEPT !.del = {s}]

AbortDiff(d, s) == [d EXCEPT !.del = {s}, !.supply = @ - Reward[s]]

VerifyProposal(b) ==
    LET d == NewDiff(ParentState(Parent[b]), Time[b])
    IN  /\ Kind[b] = "proposal" /\ HasState(Parent[b])
        /\ Height[b] = ParentHeight(Parent[b]) + 1
        /\ RewardVerifies(b, d)
        /\ Cache(b, None, CommitDiff(d, Tx[b]), AbortDiff(d, Tx[b]))
        /\ UNCHANGED <<state, lastAccepted, baseView, setAt, departures>>

(* verify_option: the parent must be cached, and a proposal.               *)
OptionDiff(b) ==
    IF Kind[b] = "commit" THEN cached[Parent[b]].onCommit
                          ELSE cached[Parent[b]].onAbort

VerifyOption(b) ==
    /\ Kind[b] \in {"commit", "abort"}
    /\ Parent[b] \in DOMAIN cached /\ OptionDiff(b) # None
    /\ Height[b] = ParentHeight(Parent[b]) + 1
    /\ Cache(b, OptionDiff(b), None, None)
    /\ UNCHANGED <<state, lastAccepted, baseView, setAt, departures>>

Verify(b) == VerifyStandard(b) \/ VerifyProposal(b) \/ VerifyOption(b)

-----------------------------------------------------------------------------
(* diff.apply on the staker set, its operations in recorded order.         *)
ApplyStakers(S, d) ==
    (IF d.put = {} THEN S ELSE PutStaker(S, CHOOSE s \in d.put : TRUE)) \ d.del

Departs(S, T, d) ==
    {k \in {"stale", "replaced", "readded", "orphaned"} :
        \/ k = "stale" /\ ~ d.del \subseteq S
        \/ k = "replaced" /\ ~ S \subseteq T \cup d.del
        \/ k = "readded" /\ d.put \cap (S \cup state.paid) # {}
        \/ k = "orphaned" /\ \E s \in T : Validates(T, Node[s]) = {}}

(* write_validator_diffs: signed weight changes, and the key a node had     *)
(* before its key changed.                                                 *)
WeightChanges(S, T) ==
    [n \in {m \in Nodes : TotalWeight(S, m) # TotalWeight(T, m)} |->
        TotalWeight(T, n) - TotalWeight(S, n)]

KeyChanges(S, T) ==
    [n \in {m \in Nodes : KeyOf(S, m) # KeyOf(T, m)} |-> KeyOf(S, n)]

(* commit_accept, up to the notification.                                  *)
CommitAccept(b, d) ==
    LET after == ApplyStakers(state.current, d)
        h     == Height[b]
    IN  /\ state' = [time |-> d.time, supply |-> d.supply,
                     current |-> after, paid |-> state.paid \cup d.paid,
                     weightDiffs |-> With(state.weightDiffs, h,
                                          WeightChanges(state.current, after)),
                     keyDiffs |-> With(state.keyDiffs, h, KeyChanges(state.current, after)),
                     blockIds |-> With(state.blockIds, h, b),
                     lastAccepted |-> b, height |-> h]
        /\ lastAccepted' = b
        /\ baseView' = Snapshot(state')
        /\ setAt' = With(setAt, h, ValidatorSet(after))
        /\ departures' = departures \cup Departs(state.current, after, d)

Free(S) == cached' = [c \in DOMAIN cached \ S |-> cached[c]]

Acceptable(b) ==
    b \in DOMAIN cached /\ (Kind[b] = "proposal" \/ cached[b].onAccept # None)

(* A proposal is only noted: nothing reaches the disk.                     *)
AcceptProposal(b) ==
    /\ Kind[b] = "proposal" /\ Acceptable(b)
    /\ lastAccepted' = b
    /\ setAt' = With(setAt, Height[b], ValidatorSet(state.current))
    /\ UNCHANGED <<state, cached, baseView, departures>>

\* Mutant: accepting a block frees all cached states.
AcceptFreesAll(b) ==
    /\ Kind[b] # "proposal" /\ Acceptable(b)
    /\ CommitAccept(b, cached[b].onAccept)
    /\ Free(DOMAIN cached)

(* An option frees its proposal with itself.                               *)
AcceptDecision(b) ==
    /\ Kind[b] # "proposal" /\ Acceptable(b)
    /\ CommitAccept(b, cached[b].onAccept)
    /\ Free(IF Kind[b] = "standard" THEN {b} ELSE {b, Parent[b]})

Accept(b) == AcceptProposal(b) \/ AcceptDecision(b)

Reject(S) == Free(S) /\ UNCHANGED <<state, lastAccepted, baseView, setAt, departures>>

(* A restart loads the state and builds a fresh manager over it.           *)
Reload ==
    /\ cached' = <<>>
    /\ lastAccepted' = state.lastAccepted
    /\ baseView' = Snapshot(state)
    /\ UNCHANGED <<state, setAt, departures>>

-----------------------------------------------------------------------------
Minted(S) == MapThenSumSet(LAMBDA s : Reward[s], S)

(* The P-Chain's supply: each staker's potential reward is minted when the *)
(* staker is added and un-minted when its reward is aborted, so the supply *)
(* is always the initial one plus the rewards of the stakers added since   *)
(* that are still staking or were paid.  Holds while no accepted block     *)
(* rewards a staker twice, replaces an unrewarded validator or adds a      *)
(* staker again, all of which the code lets pass.                          *)
LedgerIsExact ==
    departures \cap {"stale", "replaced", "readded"} = {} =>
        state.supply + Minted(RootStakers)
            = RootSupply + Minted(state.current \cup state.paid)

(* The same without the proviso; current_stakers ignores the overlay and   *)
(* the duplicate check is skipped, so it fails.                            *)
LedgerAlwaysExact ==
    state.supply + Minted(RootStakers)
        = RootSupply + Minted(state.current \cup state.paid)

(* Every accepted block can be found by its height.                        *)
EveryHeightIndexed == \A h \in 0 .. state.height : h \in DOMAIN state.blockIds

=============================================================================
