------------------------------ MODULE DynArray ------------------------------
(***************************************************************************)
(* ed-lesson-5/dynamic_array_using_pointers.c: an array of ints behind its *)
(* header in one block, and a pointer in the header to the contents.       *)
(* realloc may move the block, and may refuse.  A call that dereferences   *)
(* NULL, or leaves the block, ends the program.                            *)
(***************************************************************************)
EXTENDS Integers

CONSTANTS
    Values,
    InitialCapacity,    \* INITIAL_CAPACITY
    MaxCapacity         \* bound: realloc refuses a larger array

DynArrayAssumption ==
    /\ InitialCapacity \in Nat \ {0, 1}
    /\ MaxCapacity \in Nat

VARIABLES
    made,               \* the client's pointer is not NULL
    capacity,
    size,
    cells,              \* the ints of the block, from 0
    block,              \* which block the array is in
    contents,           \* which block the pointer `contents` points into
    called              \* history: the last call, as Items.tla tells it

vars == <<made, capacity, size, cells, block, contents, called>>

UNSET == 0

Init ==
    /\ made = FALSE
    /\ capacity = InitialCapacity /\ size = 0
    /\ cells = [i \in 0..(InitialCapacity - 1) |-> UNSET]
    /\ block = 0 /\ contents = 0
    /\ called = [op |-> "none"]

Running == called.op # "undefined"
Call(op) == called' = [op |-> op, list |-> "array"]
CallWith(op, v) == called' = [op |-> op, list |-> "array", item |-> v]
CallAt(i) == called' = [op |-> "deleteAt", list |-> "array", at |-> i + 1]

\* The first c cells of the block, what lies beyond the old ones unset.
Resized(c) == [i \in 0..(c - 1) |-> IF i < capacity THEN cells[i] ELSE UNSET]

----------------------------------------------------------------------------
\* Variants of the definitions below, each with one plausible slip.

\* The array grows when it is full, not when it becomes so.
BecomesFullLate == size = capacity

----------------------------------------------------------------------------
\* dyn_array_init
Make(v) ==
    /\ Running /\ ~made
    /\ made' = TRUE
    /\ capacity' = InitialCapacity /\ size' = 1
    /\ cells' = [i \in 0..(InitialCapacity - 1) |-> IF i = 0 THEN v ELSE UNSET]
    /\ block' \in {0, 1} /\ contents' = block'
    /\ CallWith("add", v)

MakeRefused ==
    /\ Running /\ ~made
    /\ Call("refused")
    /\ UNCHANGED <<made, capacity, size, cells, block, contents>>

\* dyn_array_add: the size is counted first.
BecomesFull == size + 1 = capacity

Add(v) ==
    /\ Running /\ made /\ ~BecomesFull
    /\ size' = size + 1
    /\ IF contents = block /\ size < capacity
       THEN cells' = [cells EXCEPT ![size] = v] /\ CallWith("add", v)
       ELSE UNCHANGED cells /\ CallWith("undefined", v)
    /\ UNCHANGED <<made, capacity, block, contents>>

AddGrowing(v) ==
    /\ Running /\ made /\ BecomesFull
    /\ 2 * capacity <= MaxCapacity
    /\ size' = size + 1
    /\ block' \in {0, 1} /\ contents' = block'
    /\ capacity' = 2 * capacity
    /\ cells' = [Resized(2 * capacity) EXCEPT ![size] = v]
    /\ CallWith("add", v)
    /\ UNCHANGED made

\* realloc's NULL overwrites the only pointer to the array.
AddRefused ==
    /\ Running /\ made /\ BecomesFull
    /\ made' = FALSE
    /\ Call("lost")
    /\ UNCHANGED <<capacity, size, cells, block, contents>>

\* dyn_array_delete: `index` becomes a size_t, so -1 is beyond every cell.
Shifted(i) ==
    [j \in 0..(capacity - 1) |-> IF i <= j /\ j < size - 1 THEN cells[j + 1] ELSE cells[j]]

DeleteAt(i) ==
    /\ Running /\ made /\ size > 0
    /\ cells' = IF i < 0 THEN cells ELSE Shifted(i)
    /\ size' = size - 1
    /\ CallAt(i)
    /\ UNCHANGED <<made, capacity, block, contents>>

\* size - 1 is a size_t: the shift runs out of the block, or the size itself wraps.
DeleteFromEmpty ==
    /\ Running /\ made /\ size = 0
    /\ Call("undefined")
    /\ UNCHANGED <<made, capacity, size, cells, block, contents>>

\* Any call on the NULL that a refusal left.
UseLost ==
    /\ Running /\ ~made
    /\ Call("undefined")
    /\ UNCHANGED <<made, capacity, size, cells, block, contents>>

\* dyn_array_get: the comparison is one of size_t.
Get(i) ==
    /\ Running /\ made
    /\ called' = [op |-> "get", list |-> "array", at |-> i + 1,
                  ret |-> IF i \in 0..(size - 1) THEN cells[i] ELSE 0]
    /\ UNCHANGED <<made, capacity, size, cells, block, contents>>

Free ==
    /\ Running /\ made
    /\ made' = FALSE
    /\ Call("free")
    /\ UNCHANGED <<capacity, size, cells, block, contents>>

Next ==
    \/ \E v \in Values : Make(v) \/ Add(v) \/ AddGrowing(v)
    \/ \E i \in -1..MaxCapacity : DeleteAt(i) \/ Get(i)
    \/ MakeRefused \/ AddRefused \/ DeleteFromEmpty \/ UseLost \/ Free

Spec == Init /\ [][Next]_vars

----------------------------------------------------------------------------
TypeOK ==
    /\ made \in BOOLEAN
    /\ capacity \in Nat /\ size \in Nat
    /\ DOMAIN cells = 0..(capacity - 1)
    /\ block \in {0, 1} /\ contents \in {0, 1}

\* Growing when the array becomes full, not when it is (line 42), leaves a cell for the next
\* element; the pointer follows the block when realloc moves it (line 52).
NeverFull == TypeOK /\ (made => size < capacity /\ contents = block)
============================================================================
