----------------------------- MODULE HeightSet -----------------------------
(* What the bootstrap interval tree stands for: a set of block heights.     *)
EXTENDS Naturals

CONSTANT Heights

VARIABLE heights   \* the heights tracked

Include(h) == heights' = heights \cup {h}

Exclude(h) == heights' = heights \ {h}

HeightSetInit == heights = {}

HeightSetNext == \E h \in Heights : Include(h) \/ Exclude(h)

HeightSetSpec == HeightSetInit /\ [][HeightSetNext]_heights
=============================================================================
