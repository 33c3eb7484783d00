----------------------------- MODULE LinkedList -----------------------------
(***************************************************************************)
(* ed-lesson-5/linked_list.c, and kth_last of kth-last-node.c: lists of    *)
(* nodes with a next pointer.  A client keeps several lists and pointers   *)
(* to nodes that are allocated, and may name any of them in a call.  A     *)
(* call that dereferences NULL ends the program.                           *)
(***************************************************************************)
EXTENDS Pointers, SequencesExt

CONSTANT
    Lists               \* the client's head pointers

VARIABLES
    head,
    next,
    live,               \* the nodes allocated
    call                \* history: the last call, as Items.tla tells it

vars == <<head, next, live, call>>

Init ==
    /\ head = [l \in Lists |-> NULL]
    /\ next = [n \in Nodes |-> NULL]
    /\ live = {}
    /\ call = [op |-> "none"]

Chain(n) == Along(next, n)

\* The node k steps behind n.
Ahead(n, k) == IF k < Len(Chain(n)) THEN Chain(n)[k + 1] ELSE NULL

Running == call.op # "undefined"
Note(op, l) == call' = [op |-> op, list |-> l]
Noted(op, l, n) == call' = [op |-> op, list |-> l, item |-> n]

----------------------------------------------------------------------------
\* Variants of the definitions below, each with one plausible slip.

\* Both pointers of kth_last start together.
KthLastLate(l, k) == Ahead(head[l], Len(Chain(Ahead(head[l], k + 1))))

----------------------------------------------------------------------------
\* struct node *head = list_init(value)
ListInit(l) ==
    /\ Running /\ head[l] = NULL
    /\ \E n \in Nodes \ live :
          /\ live' = live \cup {n}
          /\ next' = [next EXCEPT ![n] = NULL]
          /\ head' = [head EXCEPT ![l] = n]
          /\ Noted("add", l, n)

LastNode(l) == Last(Chain(head[l]))

ListAdd(l) ==
    /\ Running /\ head[l] # NULL
    /\ \E n \in Nodes \ live :
          /\ live' = live \cup {n}
          /\ next' = [next EXCEPT ![n] = NULL, ![LastNode(l)] = n]
          /\ Noted("add", l, n)
    /\ UNCHANGED head

\* On a list that list_delete has emptied, current->next is the next of NULL.
ListAddEmptied(l) ==
    /\ Running /\ head[l] = NULL
    /\ Note("undefined", l)
    /\ UNCHANGED <<head, next, live>>

\* malloc fails in either.
Refuse(l) ==
    /\ Running
    /\ Note("refused", l)
    /\ UNCHANGED <<head, next, live>>

ListDelete(l, n) ==
    /\ Running /\ n \in live
    /\ IF head[l] = n
       THEN /\ head' = [head EXCEPT ![l] = next[n]]
            /\ live' = live \ {n} /\ UNCHANGED next
       ELSE IF \E p \in ToSet(Chain(head[l])) : next[p] = n
       THEN /\ next' = [p \in Nodes |->
                 IF p \in ToSet(Chain(head[l])) /\ next[p] = n THEN next[n] ELSE next[p]]
            /\ live' = live \ {n} /\ UNCHANGED head
       ELSE UNCHANGED <<head, next, live>>
    /\ Noted("delete", l, n)

ListFree(l) ==
    /\ Running
    /\ live' = live \ ToSet(Chain(head[l]))
    /\ head' = [head EXCEPT ![l] = NULL]
    /\ Note("free", l)
    /\ UNCHANGED next

Next ==
    \E l \in Lists :
        \/ ListInit(l) \/ ListAdd(l) \/ ListAddEmptied(l) \/ Refuse(l) \/ ListFree(l)
        \/ \E n \in Nodes : ListDelete(l, n)

\* kth_last: fast goes k nodes ahead, NULL if it cannot; then both go on until fast is past
\* the end, slow as many steps as fast needs.
KthLast(l, k) ==
    LET fast == Ahead(head[l], k)
    IN  IF fast = NULL THEN NULL ELSE Ahead(head[l], Len(Chain(fast)))

----------------------------------------------------------------------------
\* "Retrieves the k-th last node from a linked list" (kth-last-node.c:99): it does, of
\* every list the calls can build, for every k from 1 up to the length less one; the first
\* node, whose k is the length, and k = 0 give NULL (lines 106, 114).
KthFromTheEnd ==
    \A l \in Lists : \A k \in 0..Cardinality(Nodes) :
        LET c == Chain(head[l])
        IN  head[l] # NULL =>
              KthLast(l, k) = IF k \in 1..(Len(c) - 1) THEN c[Len(c) - k + 1] ELSE NULL
============================================================================
