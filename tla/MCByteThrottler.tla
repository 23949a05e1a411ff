-------------------------- MODULE MCByteThrottler --------------------------
(* TLC instance of ByteThrottler: n1 has two connections and a share of the *)
(* validator pool, n2 and n3 one connection each.  Three at-large bytes and *)
(* messages of up to two make waiters hold part of what they need.          *)
EXTENDS ByteThrottler
CONSTANTS n1, n2, n3, c1, d1, c2, c3

MCOwner == [c \in {c1, d1, c2, c3} |-> CASE c \in {c1, d1} -> n1 [] c = c2 -> n2 [] c = c3 -> n3]
MCAllowance == [n \in {n1, n2, n3} |-> IF n = n1 THEN 1 ELSE 0]
=============================================================================
