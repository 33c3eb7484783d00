------------------------------ MODULE Database ------------------------------
(***************************************************************************)
(* ed-lesson-5/database.c: a growing array of people behind a menu.  A    *)
(* line that is no number is the last choice once more, with the rest of   *)
(* the line for a name: a choice like any other.  Ages are left out:       *)
(* nothing is decided by them.                                             *)
(***************************************************************************)
EXTENDS Integers, Sequences, SequencesExt, FiniteSetsExt

CONSTANTS
    Names,              \* what the user types at a name prompt
    InitialPeople,      \* the initial capacity (5)
    MaxPeople           \* bound: people added

DatabaseAssumption == InitialPeople \in Nat \ {0} /\ MaxPeople \in Nat

VARIABLES
    people,             \* db.people[0 .. db.size - 1], by name
    slots,              \* db.capacity
    asked               \* history: the last call, as Items.tla tells it

vars == <<people, slots, asked>>

Init ==
    /\ people = <<>>
    /\ slots = InitialPeople
    /\ asked = [op |-> "none"]

Open == asked.op \notin {"free", "lost", "undefined"}
Ask(op, name) == asked' = [op |-> op, list |-> "people", item |-> name]

----------------------------------------------------------------------------
\* addPerson: the array doubles when it is full.
AddPerson(name) ==
    /\ Open
    /\ Len(people) < MaxPeople
    /\ slots' = IF Len(people) = slots THEN 2 * slots ELSE slots
    /\ IF Len(people) < slots'
       THEN people' = Append(people, name) /\ Ask("add", name)
       ELSE UNCHANGED people /\ Ask("undefined", name)

\* No memory for the array or the name: NULL is written to, and the program ends.
AddRefused ==
    /\ Open
    /\ people' = <<>>
    /\ asked' = [op |-> "lost", list |-> "people"]
    /\ UNCHANGED slots

\* searchPerson
SearchPerson(name) ==
    LET found == {i \in DOMAIN people : people[i] = name}
    IN  IF found = {} THEN -1 ELSE Min(found) - 1

Search(name) ==
    /\ Open
    /\ asked' = [op |-> "search", list |-> "people", item |-> name, ret |-> SearchPerson(name)]
    /\ UNCHANGED <<people, slots>>

\* deletePerson: those behind the one found move up.
DeletePerson(name) ==
    /\ Open
    /\ LET index == SearchPerson(name)
       IN  people' = IF index = -1 THEN people
                     ELSE [i \in 1..(Len(people) - 1) |->
                              IF i <= index THEN people[i] ELSE people[i + 1]]
    /\ Ask("delete", name)
    /\ UNCHANGED slots

\* freeDatabase, and the end of the loop.
Exit ==
    /\ Open
    /\ people' = <<>>
    /\ asked' = [op |-> "free", list |-> "people"]
    /\ UNCHANGED slots

Next ==
    \/ \E name \in Names : AddPerson(name) \/ Search(name) \/ DeletePerson(name)
    \/ AddRefused \/ Exit
============================================================================
