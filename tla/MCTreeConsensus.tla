-------------------------- MODULE MCTreeConsensus --------------------------
(* TLC instance of TreeConsensus: ids of three bits, as sequences.         *)
EXTENDS TreeConsensus, Sequences

MCBit(id, i) == id[i + 1]

\* In the orders TLC adds them, these ids go through all five cases of
\* UnaryNode::add, case 2 with and without a child.
MCIds == {<<0, 0, 0>>, <<0, 0, 1>>, <<0, 1, 1>>, <<1, 1, 0>>}
=============================================================================
