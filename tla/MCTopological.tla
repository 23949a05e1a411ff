--------------------------- MODULE MCTopological ---------------------------
(* TLC instance of Topological, with the record of polls, the Kahn sort    *)
(* and the snowball trees of SnowballTree.                                 *)
EXTENDS KahnVotes

CONSTANTS NumBits,
          G, A, B, C, D, E

\* G <- A, B;  A <- C, D;  B <- E
MCBlocks == {G, A, B, C, D, E}
MCParent == [b \in MCBlocks \ {G} |-> IF b \in {A, B} THEN G
                                      ELSE IF b \in {C, D} THEN A ELSE B]
MCHeight == [b \in MCBlocks |-> IF b = G THEN 0 ELSE IF b \in {A, B} THEN 1 ELSE 2]

\* Two bits per id: siblings A and B differ in the first bit, C and D in the last.
MCBit(id, i) == CASE id = A -> 0 [] id = B -> 1 [] id = C -> 0
                  [] id = D -> i [] OTHER -> 0

Snow == INSTANCE SnowballTree WITH Bit <- MCBit

MCSbNew(c) == Snow!TreeNew(c)
MCSbAdd(t, c) == Snow!TreeAdd(t, c)
MCSbRecordPoll(t, votes) == Snow!TreeRecordPoll(t, votes)
MCSbRecordUnsuccessful(t) == Snow!TreeRecordUnsuccessful(t)
MCSbPreference(t) == Snow!TreePreference(t)
MCSbFinalized(t) == Snow!TreeFinalized(t)
=============================================================================
