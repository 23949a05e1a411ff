----------------------------- MODULE BlockTree -----------------------------
(* The tree of blocks.  A block names its parent by id, so parents never    *)
(* change, and VMs give a block the height of its parent plus one.          *)
EXTENDS Integers, FiniteSets

CONSTANTS
    Blocks,    \* ids of the blocks that may ever be issued, Genesis among them
    Genesis,   \* the root of the tree
    Parent,    \* Parent[b]: the parent of a block other than Genesis
    Height     \* Height[b]: the height of a block

ASSUME BlockTreeAssumption ==
    /\ Genesis \in Blocks
    /\ Parent \in [Blocks \ {Genesis} -> Blocks]
    /\ Height \in [Blocks -> Nat]
    /\ \A b \in Blocks \ {Genesis} : Height[b] = Height[Parent[b]] + 1
=============================================================================
