-------------------------------- MODULE Tree --------------------------------
(***************************************************************************)
(* ed-lesson-7/tree.c: nodes with a growing array of children.  add_child  *)
(* doubles the array one slot BEFORE it is full, and remove_child shifts   *)
(* the children behind the removed one down by reading one slot past the   *)
(* last: the two only work together.                                       *)
(***************************************************************************)
EXTENDS Integers, Sequences, FiniteSets, SequencesExt

CONSTANTS
    Nodes,              \* the addresses malloc may return for a node
    Root,               \* the root's
    InitialCapacity     \* INITIAL_CAPACITY

ASSUME TreeAssumption ==
    /\ Root \in Nodes
    /\ InitialCapacity \in Nat \ {0}

VARIABLES
    live,               \* nodes allocated and not freed
    kids,               \* the used part of each node's children.values
    capacity            \* each node's children.capacity

treeVars == <<live, kids, capacity>>

TreeInit ==
    /\ live = {Root}
    /\ kids = [n \in Nodes |-> <<>>]
    /\ capacity = [n \in Nodes |-> InitialCapacity]

\* A node and what hangs below it, destroy_tree's recursion: the least set that holds the
\* node and, with a node, its children.
Closed(S) == \A m \in S : ToSet(kids[m]) \subseteq S
Subtree(n) == {m \in Nodes : \A S \in SUBSET Nodes : n \in S /\ Closed(S) => m \in S}

----------------------------------------------------------------------------
\* A variant of the test below, with one plausible slip.

\* The array grows when it is really full: the shift then reads past it.
FullExact(p) == Len(kids[p]) >= capacity[p]

----------------------------------------------------------------------------
\* What add_child takes for full (line 44).
Full(p) == Len(kids[p]) >= capacity[p] - 1

\* add_child(p, n): doubles a full array, then stores the child.
Attach(p, n) ==
    /\ kids' = [kids EXCEPT ![n] = <<>>, ![p] = Append(@, n)]
    /\ capacity' = [capacity EXCEPT ![p] = IF Full(p) THEN 2 * @ ELSE @]

\* add_child when realloc fails: it returns, and the child hangs nowhere.
Leak(p, n) ==
    /\ Full(p)
    /\ UNCHANGED <<kids, capacity>>

\* create_node, then add_child: how every client uses the two.
AddNew(p, n) ==
    /\ n \notin live
    /\ live' = live \cup {n}
    /\ Attach(p, n) \/ Leak(p, n)

\* destroy_tree(n): frees the node and everything below it.
DestroyTree(n) ==
    /\ live' = live \ Subtree(n)
    /\ capacity' = [m \in Nodes |-> IF m \in Subtree(n) THEN InitialCapacity ELSE capacity[m]]

\* The list of p without c, and the freed arrays.
Detach(p, c) ==
    kids' = [m \in Nodes |-> IF m \in Subtree(c) THEN <<>>
                             ELSE IF m = p THEN RemoveFirst(kids[p], c)
                             ELSE kids[m]]

\* remove_child(p, c)
RemoveChild(p, c) ==
    /\ DestroyTree(c)
    /\ Detach(p, c)

----------------------------------------------------------------------------
\* Any client that adds fresh nodes to, and removes children of, nodes of the tree,
\* until it destroys the tree.
Hanging == Subtree(Root)

AddAny == Root \in live /\ \E p \in Hanging, n \in Nodes : AddNew(p, n)
RemoveAny == Root \in live /\ \E p \in Hanging : \E c \in ToSet(kids[p]) : RemoveChild(p, c)

\* destroy_tree(root): the client's last call.
Destroy ==
    /\ Root \in live
    /\ DestroyTree(Root)
    /\ kids' = [m \in Nodes |-> IF m \in Hanging THEN <<>> ELSE kids[m]]

TreeNext == AddAny \/ RemoveAny \/ Destroy

TreeSpec == TreeInit /\ [][TreeNext]_treeVars

----------------------------------------------------------------------------
\* Every variable stays in its range.
TreeTypeOK ==
    /\ live \subseteq Nodes
    /\ kids \in [Nodes -> Seq(Nodes)]
    /\ capacity \in [Nodes -> Nat \ {0}]

\* remove_child's shift reads values[used] (line 90): there always is such a slot.
ShiftInBounds == \A n \in Nodes : Len(kids[n]) <= capacity[n] - 1

\* Every child pointer is to a node not freed, and to no node twice; the root is
\* nobody's child.  So destroy_tree never frees a node a second time.
NoDangling ==
    /\ \A n \in Nodes : ToSet(kids[n]) \subseteq live \ {Root}
    /\ \A m, n \in Nodes : \A i \in DOMAIN kids[m], j \in DOMAIN kids[n] :
          kids[m][i] = kids[n][j] => m = n /\ i = j
============================================================================
