--------------------------- MODULE MCBootstrapper ---------------------------
(* TLC instance of Bootstrapper: two beacons, the lighter one of which      *)
(* reports anything; G <- A <- B <- C is what the network accepted, the     *)
(* node starts at G, and X conflicts with C.                                *)
EXTENDS Bootstrapper
CONSTANTS n1, n2, G, A, B, C, X

MCBeaconOrder == <<n1, n2>>
MCWeight == [n \in {n1, n2} |-> IF n = n1 THEN 2 ELSE 1]
MCBlocks == {G, A, B, C, X}
MCParent == [b \in MCBlocks \ {G} |->
    CASE b = A -> G [] b = B -> A [] b \in {C, X} -> B]
MCHeight == [b \in MCBlocks |->
    CASE b = G -> 0 [] b = A -> 1 [] b = B -> 2 [] b \in {C, X} -> 3]
=============================================================================
