---------------------------- MODULE MCConcurrent ----------------------------
(***************************************************************************)
(* The programs of a few threads or handlers that are small enough to      *)
(* share a run: concurrent_ll, friends, kh and sigchild.  One of them is   *)
(* chosen at the start and runs alone.                                     *)
(***************************************************************************)
EXTENDS ConcurrentList

CONSTANTS Grapes, NChildren, NumMeals, HandleOutcomes

VARIABLES
    program,
    grapes, plate, joey, emma, main,
    child, i, parent, handler, pending, merged,
    done, mealsReady, sous, chef, rordon, handle, served, lost

Friends == INSTANCE Friends
SigChild == INSTANCE SigChild
Kitchen == INSTANCE Kitchen WITH head <- chef

friends == <<grapes, plate, joey, emma, main>>
sigchild == <<child, i, parent, handler, pending, merged>>
kitchen == <<done, mealsReady, sous, chef, rordon, handle, served, lost>>

ConcInit ==
    /\ program \in {"concurrent_ll", "friends", "sigchild", "kitchen"}
    /\ Init /\ Friends!Init /\ SigChild!Init /\ Kitchen!Init

\* A step of one program leaves the others' variables alone.
List(S) == program = "concurrent_ll" /\ S /\ UNCHANGED <<program, friends, sigchild, kitchen>>
Eating(S) == program = "friends" /\ S /\ UNCHANGED <<program, vars, sigchild, kitchen>>
Forking(S) == program = "sigchild" /\ S /\ UNCHANGED <<program, vars, friends, kitchen>>
Cooking(S) == program = "kitchen" /\ S /\ UNCHANGED <<program, vars, friends, sigchild>>

ConcNext ==
    \/ List(Next)
    \/ Eating(Friends!Next)
    \/ Forking(SigChild!Next)
    \/ Cooking(Kitchen!Next)

allvars == <<program, vars, friends, sigchild, kitchen>>

ConcSpec == ConcInit /\ [][ConcNext]_allvars

\* Every thread, and every child, that can run does in the end.
ConcFairSpec ==
    /\ ConcSpec
    /\ WF_allvars(List(A)) /\ WF_allvars(List(B))
    /\ WF_allvars(Eating(Friends!Main))
    /\ WF_allvars(Eating(Friends!Joey)) /\ WF_allvars(Eating(Friends!Emma))
    /\ WF_allvars(Forking(SigChild!Parent))
    /\ \A c \in SigChild!Children : WF_allvars(Forking(SigChild!End(c)))
    /\ \A x \in Kitchen!Ingredients : WF_allvars(Cooking(Kitchen!SousChef(x)))
    /\ WF_allvars(Cooking(Kitchen!HeadChef)) /\ WF_allvars(Cooking(Kitchen!Rordon))

ASSUME MCConcurrentAssumption ==
    Friends!GrapesAssumption /\ SigChild!SigChildAssumption /\ Kitchen!KitchenAssumption

----------------------------------------------------------------------------
\* The properties of Friends.tla, SigChild.tla and Kitchen.tla.
OneGrapeShort == Friends!OneGrapeShort
JoeyDoesntShare == Friends!JoeyDoesntShare
NamesAZombie == SigChild!NamesAZombie
Accounted == SigChild!Accounted
TestedPortionsStay == Kitchen!TestedPortionsStay
ExactUnlessLost == Kitchen!ExactUnlessLost

\* Whatever the interleaving, friends returns from main().
Terminates == program = "friends" => Friends!Terminates

\* concurrent_ll always ends in thread B's assertion, or in a use after free before it.
Aborts == program = "concurrent_ll" => NeverReturns

\* sigchild reaps every child whose signal was not merged into another's, if the parent lives.
ReapedUnlessMerged == program = "sigchild" => SigChild!ReapedUnlessMerged

\* In the kitchen dinner is served unless an update is lost.
DinnerUnlessLost == program = "kitchen" => Kitchen!DinnerUnlessLost
============================================================================
