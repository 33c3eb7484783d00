------------------------------ MODULE Kitchen ------------------------------
(***************************************************************************)
(* ed-lesson-10/kh.c: rordon starts a head chef, the head chef starts one  *)
(* sous chef per ingredient.  Each sous chef prepares NumMeals portions    *)
(* and counts them in a global; the head chef spins until one portion of   *)
(* everything is there, and takes one of each.  No mutex guards the        *)
(* counters: `counter++` and `done_x--` are a load and a store, and the     *)
(* two threads' may interleave.                                            *)
(***************************************************************************)
EXTENDS Integers

CONSTANTS
    NumMeals,          \* NUM_MEALS
    HandleOutcomes     \* what the uninitialised `pthread_t *main_chef` does: a
                       \* subset of {"writable", "segv"}

Ingredients == {"herbs", "stock", "wine"}

KitchenAssumption ==
    /\ NumMeals \in Nat \ {0}
    /\ HandleOutcomes \subseteq {"writable", "segv"}

VARIABLES
    done,              \* done_herbs, done_stock, done_wine
    mealsReady,        \* meals_ready
    sous,              \* each sous chef: its pc, its loop index and the value it loaded
    head,              \* the head chef: its pc and the value it loaded
    rordon,            \* rordon's pc
    handle,            \* what main_chef's garbage turns out to be in this run
    served,            \* history: the portions the head chef has taken of each
    lost               \* history: some store overwrote a count it had not seen

vars == <<done, mealsReady, sous, head, rordon, handle, served, lost>>

\* The order in which the head chef's `&&` reads the counters (line 62) and the
\* one in which it takes the portions (lines 65-67).
TestOrder == <<"herbs", "stock", "wine">>
TakeOrder == <<"wine", "stock", "herbs">>

Init ==
    /\ done = [x \in Ingredients |-> 0]
    /\ mealsReady = 0
    /\ sous = [x \in Ingredients |-> [pc |-> "unborn", i |-> 0, tmp |-> 0]]
    /\ head = [pc |-> "unborn", k |-> 1, tmp |-> 0]
    /\ rordon = "create"
    /\ handle \in HandleOutcomes
    /\ served = [x \in Ingredients |-> 0]
    /\ lost = FALSE

SousAt(x, label) == sous[x].pc = label
HeadAt(label) == head.pc = label

----------------------------------------------------------------------------
\* Variants of the actions below, each with one plausible slip.

\* A sous chef counts a portion on his own before storing, and never re-reads it.
SousStoreAbsolute(x) ==
    /\ SousAt(x, "store")
    /\ done' = [done EXCEPT ![x] = sous[x].i + 1]
    /\ sous' = [sous EXCEPT ![x].pc = "prep", ![x].i = @ + 1]
    /\ lost' = (lost \/ done[x] # sous[x].tmp)
    /\ UNCHANGED <<mealsReady, head, rordon, handle, served>>

\* The head chef tests the herbs and the stock and forgets the wine.
HeadTestForgetsWine ==
    /\ HeadAt("test")
    /\ head' = IF done[TestOrder[head.k]] > 0
               THEN [head EXCEPT !.k = (@ % 2) + 1, !.pc = IF head.k < 2 THEN "test" ELSE "serve"]
               ELSE [head EXCEPT !.pc = "loop"]
    /\ UNCHANGED <<done, mealsReady, sous, rordon, handle, served, lost>>

\* The head chef stops one meal early.
HeadLoopShort ==
    /\ HeadAt("loop")
    /\ head' = [head EXCEPT !.k = 1, !.pc = IF mealsReady < NumMeals - 1 THEN "test" ELSE "join"]
    /\ UNCHANGED <<done, mealsReady, sous, rordon, handle, served, lost>>

----------------------------------------------------------------------------
\* sous_chef(): prep, then `counter++` as a load and a store.

SousPrep(x) ==
    /\ SousAt(x, "prep")
    /\ sous' = [sous EXCEPT ![x].pc = IF sous[x].i < NumMeals THEN "load" ELSE "exit"]
    /\ UNCHANGED <<done, mealsReady, head, rordon, handle, served, lost>>

SousLoad(x) ==
    /\ SousAt(x, "load")
    /\ sous' = [sous EXCEPT ![x].pc = "store", ![x].tmp = done[x]]
    /\ UNCHANGED <<done, mealsReady, head, rordon, handle, served, lost>>

SousStore(x) ==
    /\ SousAt(x, "store")
    /\ done' = [done EXCEPT ![x] = sous[x].tmp + 1]
    /\ sous' = [sous EXCEPT ![x].pc = "prep", ![x].i = @ + 1]
    /\ lost' = (lost \/ done[x] # sous[x].tmp)
    /\ UNCHANGED <<mealsReady, head, rordon, handle, served>>

----------------------------------------------------------------------------
\* head_chef()

HeadCreate ==
    /\ HeadAt("create")
    /\ sous' = [sous EXCEPT ![TestOrder[head.k]].pc = "prep"]
    /\ head' = IF head.k < 3 THEN [head EXCEPT !.k = @ + 1] ELSE [head EXCEPT !.pc = "loop"]
    /\ UNCHANGED <<done, mealsReady, rordon, handle, served, lost>>

HeadLoop ==
    /\ HeadAt("loop")
    /\ head' = [pc |-> IF mealsReady < NumMeals THEN "test" ELSE "join", k |-> 1, tmp |-> head.tmp]
    /\ UNCHANGED <<done, mealsReady, sous, rordon, handle, served, lost>>

\* One operand of the `&&`: a counter at zero sends him round the loop again.
HeadTest ==
    /\ HeadAt("test")
    /\ head' = IF done[TestOrder[head.k]] > 0
               THEN IF head.k < 3 THEN [head EXCEPT !.k = @ + 1]
                                  ELSE [pc |-> "serve", k |-> 1, tmp |-> head.tmp]
               ELSE [head EXCEPT !.pc = "loop"]
    /\ UNCHANGED <<done, mealsReady, sous, rordon, handle, served, lost>>

HeadServe ==
    /\ HeadAt("serve")
    /\ mealsReady' = mealsReady + 1
    /\ head' = [head EXCEPT !.pc = "load"]
    /\ UNCHANGED <<done, sous, rordon, handle, served, lost>>

HeadLoad ==
    /\ HeadAt("load")
    /\ head' = [pc |-> "store", k |-> head.k, tmp |-> done[TakeOrder[head.k]]]
    /\ UNCHANGED <<done, mealsReady, sous, rordon, handle, served, lost>>

HeadStore ==
    /\ HeadAt("store")
    /\ LET x == TakeOrder[head.k] IN
           /\ done' = [done EXCEPT ![x] = head.tmp - 1]
           /\ served' = [served EXCEPT ![x] = @ + 1]
           /\ lost' = (lost \/ done[x] # head.tmp)
    /\ head' = IF head.k < 3 THEN [pc |-> "load", k |-> head.k + 1, tmp |-> head.tmp]
                             ELSE [head EXCEPT !.pc = "loop"]
    /\ UNCHANGED <<mealsReady, sous, rordon, handle>>

HeadJoin ==
    /\ HeadAt("join")
    /\ SousAt(TestOrder[head.k], "exit")
    /\ head' = IF head.k < 3 THEN [head EXCEPT !.k = @ + 1] ELSE [head EXCEPT !.pc = "exit"]
    /\ UNCHANGED <<done, mealsReady, sous, rordon, handle, served, lost>>

----------------------------------------------------------------------------
\* rordon(): pthread_create stores the new thread's id through an uninitialised
\* pointer.  When that is not writable memory the whole process dies there.

RordonCreate ==
    /\ rordon = "create"
    /\ IF handle = "writable"
       THEN rordon' = "wait" /\ head' = [head EXCEPT !.pc = "create"]
       ELSE rordon' = "segv" /\ head' = head
    /\ UNCHANGED <<done, mealsReady, sous, handle, served, lost>>

\* The shouting loop ends (each round before that changes nothing).
RordonSeesMeals ==
    /\ rordon = "wait"
    /\ mealsReady >= NumMeals
    /\ rordon' = "join"
    /\ UNCHANGED <<done, mealsReady, sous, head, handle, served, lost>>

RordonJoin ==
    /\ rordon = "join"
    /\ HeadAt("exit")
    /\ rordon' = "exit"
    /\ UNCHANGED <<done, mealsReady, sous, head, handle, served, lost>>

----------------------------------------------------------------------------
SousChef(x) == SousPrep(x) \/ SousLoad(x) \/ SousStore(x)
HeadChef ==
    \/ HeadCreate \/ HeadLoop \/ HeadTest
    \/ HeadServe \/ HeadLoad \/ HeadStore \/ HeadJoin
Rordon == RordonCreate \/ RordonSeesMeals \/ RordonJoin

\* main() joins rordon and returns: the process is over.
Finished == rordon \in {"exit", "segv"} /\ UNCHANGED vars

Next == (\E x \in Ingredients : SousChef(x)) \/ HeadChef \/ Rordon \/ Finished

Spec == Init /\ [][Next]_vars

\* Every thread that can run is scheduled again.
FairSpec ==
    /\ Spec
    /\ \A x \in Ingredients : WF_vars(SousChef(x))
    /\ WF_vars(HeadChef)
    /\ WF_vars(Rordon)

----------------------------------------------------------------------------

\* Every variable stays in its range: however many updates are lost, a counter never goes
\* below zero and never above the number of portions that sous chef has made.
TypeOK ==
    /\ done \in [Ingredients -> Nat]
    /\ \A x \in Ingredients : done[x] <= sous[x].i
    /\ mealsReady \in 0 .. NumMeals
    /\ sous \in [Ingredients -> [pc : {"unborn", "prep", "load", "store", "exit"},
                                 i : 0 .. NumMeals, tmp : Int]]
    /\ head \in [pc : {"unborn", "create", "loop", "test", "serve", "load", "store", "join",
                       "exit"},
                 k : 1 .. 3, tmp : Int]
    /\ rordon \in {"create", "wait", "join", "exit", "segv"}
    /\ handle \in HandleOutcomes
    /\ served \in [Ingredients -> 0 .. NumMeals]
    /\ lost \in BOOLEAN

\* The head chef tests the counters first and takes the portions later, without a
\* lock in between.  That is safe because he is the only one who takes: what he
\* has tested, or has not yet taken of what he tested, is still there.
TestedPortionsStay ==
    /\ TypeOK
    /\ HeadAt("test") => \A j \in 1 .. head.k - 1 : done[TestOrder[j]] > 0
    /\ HeadAt("serve") => \A x \in Ingredients : done[x] > 0
    /\ head.pc \in {"load", "store"} => \A j \in head.k .. 3 : done[TakeOrder[j]] > 0

\* While no store has overwritten another's update, the counters are exact and each
\* meal announced is backed by a portion of everything.
ExactUnlessLost ==
    ~lost => \A x \in Ingredients :
                /\ done[x] = sous[x].i - served[x]
                /\ mealsReady <= sous[x].i

\* If no update is lost dinner is served.  (The head chef's spinning is harmless to
\* it: the sous chefs are scheduled too.)
DinnerUnlessLost == [](~lost /\ handle = "writable") => <>(rordon = "exit")
============================================================================
