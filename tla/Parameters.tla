----------------------------- MODULE Parameters -----------------------------
(* The Parameters (crates/ava-snow/src/parameters.rs) that polls and the    *)
(* consensus they are handed to both read.                                  *)
EXTENDS Integers

CONSTANTS
    K,               \* nodes sampled per poll
    AlphaPreference  \* votes needed to change a preference
=============================================================================
