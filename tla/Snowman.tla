------------------------------ MODULE Snowman ------------------------------
(***************************************************************************)
(* What Snowman consensus promises its virtual machine, whatever decides   *)
(* the polls: blocks are decided once, the accepted blocks are one chain   *)
(* growing by one block at a time, and a block is rejected only because it *)
(* conflicts with an accepted one.                                         *)
(***************************************************************************)
EXTENDS BlockTree

VARIABLES
    lastAccepted,  \* the last accepted block
    accepted,      \* every block told to accept (and Genesis)
    rejected       \* every block told to reject

snowmanVars == <<lastAccepted, accepted, rejected>>

\* b conflicts with the accepted chain A: it is the sibling of a block of A,
\* or the child of a block of R.
Conflicts(b, A, R) ==
    /\ b # Genesis
    /\ \/ Parent[b] \in R
       \/ \E a \in A \ {Genesis} : a # b /\ Parent[a] = Parent[b]

SnowmanInit ==
    /\ lastAccepted = Genesis
    /\ accepted = {Genesis}
    /\ rejected = {}

\* The preferred child c of the last accepted block is accepted; some of its
\* siblings may be rejected on the way.
Accept(c) ==
    /\ c # Genesis /\ Parent[c] = lastAccepted
    /\ c \notin accepted \cup rejected
    /\ lastAccepted' = c
    /\ accepted' = accepted \cup {c}
    /\ rejected \subseteq rejected'
    /\ \A b \in rejected' \ rejected : Conflicts(b, accepted', rejected)
    /\ rejected' \cap accepted' = {}

\* Conflicting blocks are rejected.
Reject ==
    /\ rejected' \in SUBSET Blocks
    /\ rejected \subseteq rejected'
    /\ \A b \in rejected' \ rejected : Conflicts(b, accepted, rejected)
    /\ rejected' \cap accepted = {}
    /\ UNCHANGED <<lastAccepted, accepted>>

SnowmanNext == (\E c \in Blocks : Accept(c)) \/ Reject

SnowmanSpec == SnowmanInit /\ [][SnowmanNext]_snowmanVars
=============================================================================
