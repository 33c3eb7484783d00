------------------------------ MODULE Pointers ------------------------------
(***************************************************************************)
(* The memory of ed-lesson-5's linked lists: nodes that point to nodes.    *)
(***************************************************************************)
EXTENDS Integers, Sequences, FiniteSets

CONSTANTS
    Nodes,              \* the memory: one node per malloc
    NULL

PointersAssumption == IsFiniteSet(Nodes) /\ NULL \notin Nodes

\* The nodes from n on, as a walk along `next` meets them.
Along(next, n) ==
    LET Walk[k \in 0..Cardinality(Nodes)] ==
          [m \in Nodes \cup {NULL} |->
              IF m = NULL \/ k = 0 THEN <<>> ELSE <<m>> \o Walk[k - 1][next[m]]]
    IN  Walk[Cardinality(Nodes)][n]
=============================================================================
