------------------------------ MODULE Friends ------------------------------
(***************************************************************************)
(* ed-lesson-10/friends.c: two threads eat from one plate of grapes.  Joey *)
(* holds the plate's mutex for his whole loop.  Emma tests the shared      *)
(* counter WITHOUT the mutex and takes it only around her decrement, so    *)
(* what she tested may be stale by the time she eats.                      *)
(***************************************************************************)
EXTENDS Integers

CONSTANT Grapes        \* the initial value of the global `grapes` (100 in the code)

GrapesAssumption == Grapes \in Nat

VARIABLES
    grapes,            \* the shared counter
    plate,             \* who holds the mutex: "free", "joey" or "emma"
    joey,              \* Joey's program counter
    emma,              \* Emma's program counter
    main               \* what main() is doing: creating a thread, joining one, done

vars == <<grapes, plate, joey, emma, main>>

Init ==
    /\ grapes = Grapes
    /\ plate = "free"
    /\ joey = "unborn"
    /\ emma = "unborn"
    /\ main = "createEmma"

----------------------------------------------------------------------------
\* Variants of the actions below, each with one plausible slip; the runs show
\* which property notices it.

\* Joey leaves without unlocking the plate.
JoeyKeepsPlate ==
    /\ joey = "eat"
    /\ grapes <= 0
    /\ joey' = "done"
    /\ UNCHANGED <<grapes, plate, emma, main>>

\* Emma takes her grape without locking the plate.
EmmaGrabs ==
    /\ emma = "lock"
    /\ emma' = "eat"
    /\ UNCHANGED <<grapes, plate, joey, main>>

----------------------------------------------------------------------------
\* main(): creates Emma, creates Joey, joins Emma, joins Joey.

CreateEmma ==
    /\ main = "createEmma"
    /\ main' = "createJoey"
    /\ emma' = "test"
    /\ UNCHANGED <<grapes, plate, joey>>

CreateJoey ==
    /\ main = "createJoey"
    /\ main' = "joinEmma"
    /\ joey' = "lock"
    /\ UNCHANGED <<grapes, plate, emma>>

JoinEmma ==
    /\ main = "joinEmma"
    /\ emma = "done"
    /\ main' = "joinJoey"
    /\ UNCHANGED <<grapes, plate, joey, emma>>

JoinJoey ==
    /\ main = "joinJoey"
    /\ joey = "done"
    /\ main' = "done"
    /\ UNCHANGED <<grapes, plate, joey, emma>>

----------------------------------------------------------------------------
\* joey(): one critical section around the whole loop.

JoeyLock ==
    /\ joey = "lock"
    /\ plate = "free"
    /\ plate' = "joey"
    /\ joey' = "eat"
    /\ UNCHANGED <<grapes, emma, main>>

JoeyEat ==
    /\ joey = "eat"
    /\ grapes > 0
    /\ grapes' = grapes - 1
    /\ UNCHANGED <<plate, joey, emma, main>>

JoeyUnlock ==
    /\ joey = "eat"
    /\ grapes <= 0
    /\ plate' = "free"
    /\ joey' = "done"
    /\ UNCHANGED <<grapes, emma, main>>

----------------------------------------------------------------------------
\* emma(): the loop condition reads `grapes` without holding the plate.

EmmaTest ==
    /\ emma = "test"
    /\ emma' = IF grapes > 0 THEN "lock" ELSE "done"
    /\ UNCHANGED <<grapes, plate, joey, main>>

EmmaLock ==
    /\ emma = "lock"
    /\ plate = "free"
    /\ plate' = "emma"
    /\ emma' = "eat"
    /\ UNCHANGED <<grapes, joey, main>>

EmmaEat ==
    /\ emma = "eat"
    /\ grapes' = grapes - 1
    /\ emma' = "unlock"
    /\ UNCHANGED <<plate, joey, main>>

EmmaUnlock ==
    /\ emma = "unlock"
    /\ plate' = "free"
    /\ emma' = "test"
    /\ UNCHANGED <<grapes, joey, main>>

----------------------------------------------------------------------------
Main == CreateEmma \/ CreateJoey \/ JoinEmma \/ JoinJoey
Joey == JoeyLock \/ JoeyEat \/ JoeyUnlock
Emma == EmmaTest \/ EmmaLock \/ EmmaEat \/ EmmaUnlock

\* main() returning ends the process: the one state it may rest in.
Finished == main = "done" /\ UNCHANGED vars

Next == Main \/ Joey \/ Emma \/ Finished

Spec == Init /\ [][Next]_vars

\* The scheduler keeps running a thread that can run.  Nothing is assumed of the
\* mutex's queue: weak fairness lets Emma overtake Joey for as long as she likes.
FairSpec == Spec /\ WF_vars(Main) /\ WF_vars(Joey) /\ WF_vars(Emma)

----------------------------------------------------------------------------

\* Every variable stays in its range (the globals and locals of friends.c).
TypeOK ==
    /\ grapes \in -1 .. Grapes
    /\ plate \in {"free", "joey", "emma"}
    /\ joey \in {"unborn", "lock", "eat", "done"}
    /\ emma \in {"unborn", "test", "lock", "eat", "unlock", "done"}
    /\ main \in {"createEmma", "createJoey", "joinEmma", "joinJoey", "done"}

\* The mutex has one holder, and it is the thread inside its critical section.
HolderEats ==
    /\ plate = "joey" <=> joey = "eat"
    /\ plate = "emma" <=> emma \in {"eat", "unlock"}

\* Emma's stale test overdraws the plate only when Joey has come and gone between
\* her test and her lock, and never a second time: she cannot be about to eat again.
OneGrapeShort ==
    /\ grapes < 0 => joey = "done" /\ emma \in {"unlock", "test", "done"}
    /\ grapes = 0 /\ emma = "eat" => joey = "done"

\* "JOEY DOESN'T SHARE FOOD": while he has the plate, every grape that
\* goes is one he ate.
JoeyDoesntShare ==
    [][joey = "eat" /\ grapes' # grapes => joey' = "eat" /\ emma' = emma]_vars

\* main() returns only when both threads have: nobody is left holding the plate,
\* and it is empty.
CleanExit ==
    main = "done" => joey = "done" /\ emma = "done" /\ plate = "free" /\ grapes <= 0

\* Whatever the interleaving, the program ends.
Terminates == <>(main = "done")
============================================================================
