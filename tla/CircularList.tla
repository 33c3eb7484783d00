---------------------------- MODULE CircularList ----------------------------
(***************************************************************************)
(* ed-lesson-5/circular_linked_list.c: doubly linked rings.  As in         *)
(* LinkedList.tla the client may name any allocated node in a call.  A     *)
(* call that dereferences NULL, or frees a node under another list's head, *)
(* ends the program.                                                       *)
(***************************************************************************)
EXTENDS Pointers, SequencesExt

CONSTANT
    Lists

VARIABLES
    head,
    next,
    prev,
    live,
    call                \* history: the last call, as Items.tla tells it

vars == <<head, next, prev, live, call>>

Init ==
    /\ head = [l \in Lists |-> NULL]
    /\ next = [n \in Nodes |-> NULL]
    /\ prev = [n \in Nodes |-> NULL]
    /\ live = {}
    /\ call = [op |-> "none"]

\* The nodes of a list, from its head along next until the head again.
Ring(l) ==
    LET onward == [n \in Nodes |-> IF next[n] = head[l] THEN NULL ELSE next[n]]
    IN  Along(onward, head[l])

Running == call.op # "undefined"
Note(op, l) == call' = [op |-> op, list |-> l]
Noted(op, l, n) == call' = [op |-> op, list |-> l, item |-> n]

\* n leaves its ring, p being the node before it.
Unlinked(n, p) ==
    /\ next' = [next EXCEPT ![p] = next[n]]
    /\ prev' = [prev EXCEPT ![next[n]] = p]
    /\ live' = live \ {n}

----------------------------------------------------------------------------
\* A variant with one plausible slip: the old last node keeps the back pointer.
LinkedHalf(l, n) ==
    /\ next' = [next EXCEPT ![n] = head[l], ![prev[head[l]]] = n]
    /\ prev' = [prev EXCEPT ![n] = prev[head[l]]]

----------------------------------------------------------------------------
ListInit(l) ==
    /\ Running /\ head[l] = NULL
    /\ \E n \in Nodes \ live :
          /\ live' = live \cup {n}
          /\ next' = [next EXCEPT ![n] = n] /\ prev' = [prev EXCEPT ![n] = n]
          /\ head' = [head EXCEPT ![l] = n]
          /\ Noted("add", l, n)

\* n goes between the last node, which the head's prev names, and the head.
Linked(l, n) ==
    /\ next' = [next EXCEPT ![n] = head[l], ![prev[head[l]]] = n]
    /\ prev' = [prev EXCEPT ![n] = prev[head[l]], ![head[l]] = n]

ListAdd(l) ==
    /\ Running /\ head[l] # NULL
    /\ \E n \in Nodes \ live :
          /\ live' = live \cup {n}
          /\ Linked(l, n)
          /\ Noted("add", l, n)
    /\ UNCHANGED head

\* list_add and list_free both begin at a NULL head's fields.
UseEmptied(l) ==
    /\ Running /\ head[l] = NULL
    /\ Note("undefined", l)
    /\ UNCHANGED <<head, next, prev, live>>

Refuse(l) ==
    /\ Running
    /\ Note("refused", l)
    /\ UNCHANGED <<head, next, prev, live>>

\* A node alone in its ring: it is freed and the list is empty, whichever list that is.
DeleteOnly(l, n) ==
    /\ Running /\ n \in live /\ next[n] = n
    /\ head' = [head EXCEPT ![l] = NULL]
    /\ live' = live \ {n}
    /\ IF head[l] = n THEN Noted("delete", l, n) ELSE Noted("undefined", l, n)
    /\ UNCHANGED <<next, prev>>

DeleteHead(l, n) ==
    /\ Running /\ n \in live /\ next[n] # n /\ head[l] = n
    /\ head' = [head EXCEPT ![l] = next[n]]
    /\ Unlinked(n, prev[n])
    /\ Noted("delete", l, n)

\* The walk looks for the node before n, and gives up before the head.
DeleteInside(l, n) ==
    /\ Running /\ n \in live /\ next[n] # n /\ head[l] \notin {n, NULL}
    /\ IF n \in ToSet(Ring(l))
       THEN \E p \in ToSet(Ring(l)) : next[p] = n /\ Unlinked(n, p)
       ELSE UNCHANGED <<next, prev, live>>
    /\ Noted("delete", l, n)
    /\ UNCHANGED head

\* On an emptied list the walk begins at NULL.
DeleteEmptied(l, n) ==
    /\ Running /\ n \in live /\ next[n] # n /\ head[l] = NULL
    /\ Noted("undefined", l, n)
    /\ UNCHANGED <<head, next, prev, live>>

ListFree(l) ==
    /\ Running /\ head[l] # NULL
    /\ live' = live \ ToSet(Ring(l))
    /\ head' = [head EXCEPT ![l] = NULL]
    /\ Note("free", l)
    /\ UNCHANGED <<next, prev>>

Next ==
    \E l \in Lists :
        \/ ListInit(l) \/ ListAdd(l) \/ UseEmptied(l) \/ Refuse(l) \/ ListFree(l)
        \/ \E n \in Nodes :
              DeleteOnly(l, n) \/ DeleteHead(l, n) \/ DeleteInside(l, n) \/ DeleteEmptied(l, n)
============================================================================
