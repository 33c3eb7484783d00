---------------------------- MODULE MCContainers ----------------------------
(***************************************************************************)
(* The containers of lessons 5 and 7.  One of them is chosen at the start  *)
(* and used alone.  The hash map is shown to implement KeyMap, and the     *)
(* others Items.                                                           *)
(***************************************************************************)
EXTENDS HashMap

CONSTANTS
    k1, k2, k3,
    Numbers, InitialCapacity, MaxCapacity,
    Lists, Memory,
    Names, InitialPeople, MaxPeople

ThreeKeys == {k1, k2, k3}
\* k1 and k2 part at size eight, k3 never leaves k1's bucket.
SomeHash == (k1 :> 0) @@ (k2 :> 4) @@ (k3 :> 8)

VARIABLES
    used,         \* which container
    made, capacity, count, cells, block, contents, called,
    head, next, prev, live, call,
    people, slots, asked

Array == INSTANCE DynArray WITH Values <- Numbers, size <- count
Linked == INSTANCE LinkedList WITH Nodes <- Memory
Ring == INSTANCE CircularList WITH Nodes <- Memory
Database == INSTANCE Database

\* What the theorems assume of the constants.
ASSUME MCArrayAssumption == Array!DynArrayAssumption
ASSUME MCPointersAssumption == Linked!PointersAssumption
ASSUME MCDatabaseAssumption == Database!DatabaseAssumption
ASSUME MCListsAssumption == Lists \cap {"array", "people"} = {}

array == <<made, capacity, count, cells, block, contents, called>>
heap == <<head, next, prev, live, call>>
db == <<people, slots, asked>>

ContainersInit ==
    /\ used \in {"map", "array", "linked", "ring", "database"}
    /\ Init /\ Array!Init /\ Ring!Init /\ Database!Init

\* A step of one container leaves the others' variables alone.
OnMap(A) == used = "map" /\ A /\ UNCHANGED <<used, array, heap, db>>
OnArray(A) == used = "array" /\ A /\ UNCHANGED <<used, vars, heap, db>>
OnHeap(A) == A /\ UNCHANGED <<used, vars, array, db>>
OnPeople(A) == used = "database" /\ A /\ UNCHANGED <<used, vars, array, heap>>

ContainersNext ==
    \/ OnMap(Next)
    \/ OnArray(Array!Next)
    \/ OnHeap(used = "linked" /\ Linked!Next /\ UNCHANGED prev)
    \/ OnHeap(used = "ring" /\ Ring!Next)
    \/ OnPeople(Database!Next)

ContainersSpec == ContainersInit /\ [][ContainersNext]_<<used, vars, array, heap, db>>

----------------------------------------------------------------------------
\* What each list holds, and its last call.
ListsOf == Lists \cup {"array", "people"}
ItemsOf(l) ==
    CASE l = "array" -> IF made THEN [k \in 1..count |-> cells[k - 1]] ELSE <<>>
      [] l = "people" -> people
      [] OTHER -> IF head[l] = NULL THEN <<>>
                  ELSE IF used = "ring" THEN Ring!Ring(l) ELSE Linked!Chain(head[l])

AllItems == [l \in ListsOf |-> ItemsOf(l)]

LastCall ==
    CASE used = "array" -> called
      [] used = "database" -> asked
      [] OTHER -> call

Contents ==
    INSTANCE Items WITH
        Lists <- ListsOf,
        Things <- Numbers \cup Memory \cup Names,
        items <- AllItems,
        call <- LastCall

\* Every call on one of the four containers of lesson 5 does what a list promises of it,
\* and nothing to another list, whatever was allocated, freed, moved or refused before.
ImplementsItems == Contents!Spec

NeverFull == Array!NeverFull
KthFromTheEnd == used = "linked" => Linked!KthFromTheEnd
============================================================================
