----------------------------- MODULE MCRequests -----------------------------
(* TLC instance of Requests: a fetch and a broadcast to one node. *)
EXTENDS Requests
CONSTANTS n, f, b

MCNodes == {n}
MCRequestIds == MCNodes \X {f, b}
=============================================================================
