------------------------------- MODULE Items -------------------------------
(***************************************************************************)
(* What the containers of lesson 5 promise, pointers and capacities left   *)
(* out: some lists of items, and calls that add at the end, take one out,  *)
(* look one up, and free a list.                                           *)
(***************************************************************************)
EXTENDS Integers, SequencesExt

CONSTANTS
    Lists,              \* the lists a client keeps
    Things              \* what can be put into them

VARIABLES
    items,              \* for each list, its items in order
    call                \* the last call: its operation, its list and what it was given or gave

vars == <<items, call>>

Init ==
    /\ items = [l \in Lists |-> <<>>]
    /\ call = [op |-> "none"]

\* A call on list l leaves the other lists alone.
Becomes(l, s) == items' = [items EXCEPT ![l] = s]

Add(l, x) ==
    /\ call' = [op |-> "add", list |-> l, item |-> x]
    /\ Becomes(l, Append(items[l], x))

\* The first x goes; an item of another list is not found.
Delete(l, x) ==
    /\ call' = [op |-> "delete", list |-> l, item |-> x]
    /\ Becomes(l, RemoveFirst(items[l], x))

DeleteAt(l, i) ==
    /\ call' = [op |-> "deleteAt", list |-> l, at |-> i]
    /\ i \in DOMAIN items[l]
    /\ Becomes(l, RemoveAt(items[l], i))

\* An index outside the list costs it its last item: what the arrays do, not a promise.
DeleteOutside(l) ==
    /\ call'.op = "deleteAt" /\ call'.list = l /\ call'.at \notin DOMAIN items[l]
    /\ items[l] # <<>> /\ Becomes(l, Front(items[l]))

\* Outside the list 0 is returned, "as if it was a valid value".
Get(l, i) ==
    /\ call' = [op |-> "get", list |-> l, at |-> i,
                ret |-> IF i \in DOMAIN items[l] THEN items[l][i] ELSE 0]
    /\ UNCHANGED items

\* The place of the first x, or -1.
Search(l, x) ==
    /\ call' = [op |-> "search", list |-> l, item |-> x,
                ret |-> IF Contains(items[l], x)
                        THEN SelectInSeq(items[l], LAMBDA y : y = x) - 1 ELSE -1]
    /\ UNCHANGED items

Clear(l) ==
    /\ call' = [op |-> "free", list |-> l]
    /\ Becomes(l, <<>>)

\* malloc refuses: the call does nothing, or the program ends.  realloc refuses: an array is
\* lost as a whole.
Refused(l) == call' = [op |-> "refused", list |-> l] /\ UNCHANGED items
Lost(l) == call' = [op |-> "lost", list |-> l] /\ Becomes(l, <<>>)

\* Nothing is promised of a call on an emptied list, or with an item of another list.
Undefined(l) ==
    /\ call'.op = "undefined" /\ call'.list = l
    /\ \/ items[l] = <<>>
       \/ \E m \in Lists \ {l} : Contains(items[m], call'.item)

Next ==
    \E l \in Lists :
        \/ \E x \in Things : Add(l, x) \/ Delete(l, x) \/ Search(l, x)
        \/ \E i \in DOMAIN items[l] : DeleteAt(l, i)
        \/ call'.op = "get" /\ Get(l, call'.at)
        \/ DeleteOutside(l) \/ Clear(l) \/ Refused(l) \/ Lost(l) \/ Undefined(l)

Spec == Init /\ [][Next]_vars
============================================================================
