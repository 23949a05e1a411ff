----------------------------- MODULE MCPollSet -----------------------------
(* TLC instance of PollSet. *)
EXTENDS PollSet
CONSTANTS n1, n2, a, b
MCNodes == {n1, n2}
MCIds == {a, b}
=============================================================================
