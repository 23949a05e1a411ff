-------------------------- MODULE MCSnowmanEngine ---------------------------
(* TLC instance of SnowmanEngine: one peer, G <- A, B; A <- C. *)
EXTENDS SnowmanEngine
CONSTANTS n1, G, A, B, C
MCNodes == {n1}
MCSamples == {MCNodes}
MCFrontiers == {C}
MCBlocks == {G, A, B, C}
MCParent == [b \in MCBlocks \ {G} |-> IF b = C THEN A ELSE G]
MCHeight == [b \in MCBlocks |-> CASE b = G -> 0 [] b = C -> 2 [] OTHER -> 1]
=============================================================================
