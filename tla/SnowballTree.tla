---------------------------- MODULE SnowballTree ----------------------------
(***************************************************************************)
(* The modified Patricia tree of crates/ava-snow/src/snowball/tree.rs: a   *)
(* Consensus over many-bit choices built from one unary instance per run   *)
(* of undisputed bits and one binary instance per disputed bit.            *)
(*                                                                         *)
(* Tree, Node, UnaryNode and BinaryNode are translated as operators from   *)
(* trees to trees.  TreeConsensus runs one tree as a state machine, and    *)
(* Topological keeps one tree per block that has children.                 *)
(*                                                                         *)
(* NUM_BITS is 256 in the code and the constant NumBits here; the code     *)
(* never looks at the value of a bit position, only at its order, so three *)
(* bits already give every one of the five cases of UnaryNode::add.        *)
(***************************************************************************)
EXTENDS Snowball, FiniteSets, Functions, FiniteSetsExt

CONSTANTS
    NumBits,    \* number of bits of an id (256 in the code)
    Bit(_, _)   \* Bit(id, i): bit i of an id, for i in 0 .. NumBits - 1

ASSUME NumBitsAssumption == NumBits \in Nat \ {0}

-----------------------------------------------------------------------------
(* Bit subsets of ids (crates/ava-types/src/bits.rs).  The ranges here are *)
(* always inside 0 .. NumBits, where the two functions are these.          *)

Differences(lo, hi, a, b) == {i \in lo .. (hi - 1) : Bit(a, i) # Bit(b, i)}

EqualSubset(lo, hi, a, b) == Differences(lo, hi, a, b) = {}

-----------------------------------------------------------------------------
(* A bag of votes is a function from ids to positive counts.               *)

FilterBag(votes, keep) == Restrict(votes, keep)

NumVotes(votes) == SumFunction(votes)

-----------------------------------------------------------------------------
(* Nodes.                                                                  *)

NoNode == [kind |-> "none"]

UnaryNode(pref, decided, common, snow, reset, child) ==
    [kind |-> "unary", preference |-> pref, decidedPrefix |-> decided,
     commonPrefix |-> common, snow |-> snow, shouldReset |-> reset,
     child |-> child]

BinaryNode(prefs, bit, snow, reset, children) ==
    [kind |-> "binary", preferences |-> prefs, bit |-> bit, snow |-> snow,
     shouldReset |-> reset, children |-> children]

NodePreference(n) ==
    IF n.kind = "unary" THEN n.preference
                        ELSE n.preferences[BinaryPreference(n.snow)]

NodeDecidedPrefix(n) == IF n.kind = "unary" THEN n.decidedPrefix ELSE n.bit

NodeFinalized(n) == n.snow.finalized

-----------------------------------------------------------------------------
(* Adding a choice.                                                        *)

\* UnaryNode::add on a node that has to be split at bit `index`: the binary
\* node goes before, after, between or in place of the run, by its position.
Split(n, index, choice) ==
    LET bit      == Bit(n.preference, index)
        fresh    == UnaryNode(choice, index + 1, NumBits, NewUnary, FALSE, NoNode)
        pair(x, y) == [b \in Bits |-> IF b = bit THEN x ELSE y]
        binary(children) ==
            BinaryNode(pair(n.preference, choice), index, Extend(n.snow, bit),
                       pair(n.shouldReset, n.shouldReset), children)
        \* the run ended at the disputed bit: its child moves below the bit
        inherited == pair(n.child, IF n.child = NoNode THEN NoNode ELSE fresh)
    IN  IF n.decidedPrefix = n.commonPrefix - 1
        THEN binary(inherited)
        ELSE IF index = n.decidedPrefix
        THEN binary(pair([n EXCEPT !.decidedPrefix = @ + 1], fresh))
        ELSE IF index = n.commonPrefix - 1
        THEN [n EXCEPT !.commonPrefix = @ - 1, !.child = binary(inherited)]
        ELSE UnaryNode(n.preference, n.decidedPrefix, index, n.snow, FALSE,
                       binary(pair([n EXCEPT !.decidedPrefix = index + 1], fresh)))

RECURSIVE NodeAdd(_, _)

NodeAdd(n, choice) ==
    IF n.kind = "unary"
    THEN LET diff == Differences(n.decidedPrefix, n.commonPrefix, n.preference, choice)
         IN  IF n.snow.finalized THEN n
             ELSE IF diff # {} THEN Split(n, Min(diff), choice)
             ELSE IF n.child = NoNode THEN n
             ELSE [n EXCEPT !.child = NodeAdd(@, choice)]
    ELSE LET bit == Bit(choice, n.bit)
         IN  IF n.children[bit] = NoNode THEN n
             ELSE [n EXCEPT !.children[bit] = NodeAdd(@, choice)]

-----------------------------------------------------------------------------
(* Recording a poll.  The Boolean `success` of the code is not returned:   *)
(* the one caller (Topological::vote) ignores it.                          *)

RECURSIVE NodeRecordPoll(_, _, _)

\* Mutant: the falter of the parent is not passed on.
UnaryIgnoresReset(n, votes, reset) ==
    LET total == NumVotes(votes)
        fail(m) == [m EXCEPT !.snow = RecordUnsuccessful(@), !.shouldReset = TRUE]
        snow == UnaryRecordPoll(n.snow, total)
        n2   == [n EXCEPT !.snow = snow, !.shouldReset = FALSE]
        child == NodeRecordPoll(n.child, votes, FALSE)
    IN  IF total < AlphaPreference THEN fail(n)
        ELSE IF n.child = NoNode THEN n2
        ELSE IF snow.finalized THEN child
        ELSE [n2 EXCEPT !.preference = NodePreference(child), !.child = child]

\* Mutant: the pending reset is passed to the child but never cleared.
UnaryKeepsReset(n, votes, reset) ==
    LET total == NumVotes(votes)
        fail(m) == [m EXCEPT !.snow = RecordUnsuccessful(@), !.shouldReset = TRUE]
        n1   == IF reset THEN fail(n) ELSE n
        snow == UnaryRecordPoll(n1.snow, total)
        n2   == [n1 EXCEPT !.snow = snow]
        child == NodeRecordPoll(n.child, votes, n1.shouldReset)
    IN  IF total < AlphaPreference THEN fail(n1)
        ELSE IF n.child = NoNode THEN n2
        ELSE IF snow.finalized THEN child
        ELSE [n2 EXCEPT !.preference = NodePreference(child), !.child = child]

UnaryNodeRecordPoll(n, votes, reset) ==
    LET total == NumVotes(votes)
        fail(m) == [m EXCEPT !.snow = RecordUnsuccessful(@), !.shouldReset = TRUE]
        n1   == IF reset THEN fail(n) ELSE n
        snow == UnaryRecordPoll(n1.snow, total)
        n2   == [n1 EXCEPT !.snow = snow, !.shouldReset = FALSE]
        child == NodeRecordPoll(n.child, votes, n1.shouldReset)
    IN  IF total < AlphaPreference THEN fail(n1)
        ELSE IF n.child = NoNode THEN n2
        ELSE IF snow.finalized THEN child
        ELSE [n2 EXCEPT !.preference = NodePreference(child), !.child = child]

BinaryNodeRecordPoll(n, votes, reset) ==
    LET split(b) == FilterBag(votes, {id \in DOMAIN votes : Bit(id, n.bit) = b})
        bit  == IF NumVotes(split(1)) >= AlphaPreference THEN 1 ELSE 0
        pruned == split(bit)
        total  == NumVotes(pruned)
        n1   == [n EXCEPT !.shouldReset[1 - bit] = TRUE,
                          !.shouldReset[bit] = @ \/ reset,
                          !.snow = IF reset THEN RecordUnsuccessful(@) ELSE @]
        snow == BinaryRecordPoll(n1.snow, total, bit)
        n2   == [n1 EXCEPT !.snow = snow, !.shouldReset[bit] = FALSE]
        child == NodeRecordPoll(n.children[bit], pruned, n1.shouldReset[bit])
    IN  IF total < AlphaPreference
        THEN [n1 EXCEPT !.snow = RecordUnsuccessful(@), !.shouldReset[bit] = TRUE]
        ELSE IF n.children[bit] = NoNode THEN n2
        ELSE IF snow.finalized THEN child
        ELSE [n2 EXCEPT !.preferences[bit] = NodePreference(child),
                        !.children[bit] = child]

NodeRecordPoll(n, votes, reset) ==
    IF n.kind = "unary" THEN UnaryNodeRecordPoll(n, votes, reset)
                        ELSE BinaryNodeRecordPoll(n, votes, reset)

-----------------------------------------------------------------------------
(* The Consensus interface of Tree.                                        *)

TreeNew(choice) ==
    [node |-> UnaryNode(choice, 0, NumBits, NewUnary, FALSE, NoNode),
     shouldReset |-> FALSE]

TreePreference(t) == NodePreference(t.node)

TreeFinalized(t) == NodeFinalized(t.node)

\* An id that agrees with what the tree has decided so far.
Undecided(t, id) ==
    EqualSubset(0, NodeDecidedPrefix(t.node), TreePreference(t), id)

TreeAdd(t, choice) ==
    IF Undecided(t, choice) THEN [t EXCEPT !.node = NodeAdd(@, choice)] ELSE t

TreeRecordPoll(t, votes) ==
    [node |-> NodeRecordPoll(t.node,
                             FilterBag(votes, {id \in DOMAIN votes : Undecided(t, id)}),
                             t.shouldReset),
     shouldReset |-> FALSE]

TreeRecordUnsuccessful(t) == [t EXCEPT !.shouldReset = TRUE]
=============================================================================
