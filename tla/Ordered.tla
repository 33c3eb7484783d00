------------------------------ MODULE Ordered ------------------------------
(***************************************************************************)
(* The places in an array that a loop from its first cell to its last      *)
(* stops at, in the order in which it meets them.                          *)
(***************************************************************************)
EXTENDS Integers, FiniteSets

InOrder(S) ==
    [k \in 1..Cardinality(S) |-> CHOOSE i \in S : Cardinality({j \in S : j < i}) = k - 1]
============================================================================
