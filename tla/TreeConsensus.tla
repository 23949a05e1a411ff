--------------------------- MODULE TreeConsensus ---------------------------
(***************************************************************************)
(* One Tree driven through its Consensus interface (add, record_poll,      *)
(* record_unsuccessful_poll), next to history variables that describe the  *)
(* polls themselves: what finalization is supposed to mean is said about   *)
(* the votes, never about the counters the tree keeps.                     *)
(***************************************************************************)
EXTENDS SnowballTree

CONSTANTS
    Ids,   \* the ids that may be added
    MaxPolls   \* bound on the number of polls

VARIABLES
    tree,    \* the tree
    added,   \* history: the ids that have been added
    live,    \* history: the ids added while nothing was decided against them
    streak,  \* history: consecutive polls that gave an id AlphaConfidence votes
    polls    \* number of polls so far

vars == <<tree, added, live, streak, polls>>

VoteBags(ids) ==
    {b \in UNION {[S -> 1 .. K] : S \in SUBSET ids} : NumVotes(b) <= K}

Count(votes, id) == IF id \in DOMAIN votes THEN votes[id] ELSE 0

Init ==
    \E c \in Ids :
        /\ tree = TreeNew(c)
        /\ added = {c} /\ live = {c}
        /\ streak = [d \in Ids |-> 0]
        /\ polls = 0

Add(c) ==
    /\ tree' = TreeAdd(tree, c)
    /\ added' = added \cup {c}
    /\ live' = IF Undecided(tree, c) /\ ~TreeFinalized(tree)
               THEN live \cup {c} ELSE live
    /\ UNCHANGED <<streak, polls>>

RecordPoll(votes) ==
    /\ polls < MaxPolls
    /\ tree' = TreeRecordPoll(tree, votes)
    /\ streak' = [c \in Ids |->
                     IF Count(votes, c) >= AlphaConfidence THEN streak[c] + 1 ELSE 0]
    /\ polls' = polls + 1
    /\ UNCHANGED <<added, live>>

RecordUnsuccessfulPoll ==
    /\ polls < MaxPolls
    /\ tree' = TreeRecordUnsuccessful(tree)
    /\ streak' = [c \in Ids |-> 0]
    /\ polls' = polls + 1
    /\ UNCHANGED <<added, live>>

Next ==
    \/ \E c \in Ids \ added : Add(c)
    \/ \E votes \in VoteBags(added) : RecordPoll(votes)
    \/ RecordUnsuccessfulPoll

Spec == Init /\ [][Next]_vars

-----------------------------------------------------------------------------
(* Properties.                                                             *)

RECURSIVE Subnodes(_)
Subnodes(n) ==
    IF n = NoNode THEN {}
    ELSE {n} \cup IF n.kind = "unary" THEN Subnodes(n.child)
                  ELSE UNION {Subnodes(n.children[b]) : b \in Bits}

Nodes == Subnodes(tree.node)

IsLeaf(n) ==
    IF n.kind = "unary" THEN n.child = NoNode
                        ELSE \A b \in Bits : n.children[b] = NoNode

\* The shape of a tree: runs and split bits tile the bit positions, a binary
\* node has both children or none, every cached preference is the preference
\* of the child, and leaves reach the last bit.
TypeOK ==
    /\ tree.shouldReset \in BOOLEAN
    /\ live \subseteq added /\ added \subseteq Ids
    /\ \A n \in Nodes :
        IF n.kind = "unary"
        THEN /\ 0 <= n.decidedPrefix /\ n.decidedPrefix < n.commonPrefix
             /\ IF IsLeaf(n) THEN n.commonPrefix = NumBits
                ELSE /\ NodeDecidedPrefix(n.child) = n.commonPrefix
                     /\ n.preference = NodePreference(n.child)
        ELSE \A b \in Bits :
                /\ Bit(n.preferences[b], n.bit) = b
                /\ IF IsLeaf(n) THEN n.bit = NumBits - 1
                   ELSE /\ n.children[b] # NoNode
                        /\ NodeDecidedPrefix(n.children[b]) = n.bit + 1
                        /\ n.preferences[b] = NodePreference(n.children[b])

\* "Consecutive successful polls required to finalize" (parameters.rs): a tree
\* finalizes an id only when the last Beta polls each gave AlphaConfidence
\* votes to that very id, however the tree was split, reset and pruned on the
\* way.  The deferred resets (should_reset) are what could break it.
FinalizedAfterBeta ==
    [][~TreeFinalized(tree) /\ TreeFinalized(tree')
          => streak'[TreePreference(tree')] >= Beta]_vars

\* The converse: while the tree is undecided no candidate has had Beta
\* consecutive polls, so the poll that completes such a run does finalize it.
\* A reset that is applied twice, or confidence lost in a split, would break it.
BetaFinalizes ==
    ~TreeFinalized(tree) =>
        \A c \in live : Undecided(tree, c) => streak[c] < Beta

\* A decision is never taken back: a finalized tree keeps its preference, and
\* an id the tree has decided against stays decided against.
DecisionsAreFinal ==
    [][/\ TreeFinalized(tree) =>
            TreeFinalized(tree') /\ TreePreference(tree') = TreePreference(tree)
       /\ \A c \in added : ~Undecided(tree, c) => ~Undecided(tree', c)]_vars
=============================================================================
