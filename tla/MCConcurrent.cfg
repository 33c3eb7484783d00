\* The four nodes of main(); grapes for several rounds of Emma before and after Joey; the
\* three children of the code and one more; two meals, for a second round over the counters
\* with what the first one lost.
SPECIFICATION ConcFairSpec
CONSTANTS
    NNodes = 4
    Grapes = 12
    NChildren = 4
    NumMeals = 2
    HandleOutcomes = {"writable", "segv"}
INVARIANTS AloneIsSafe ListIntact OneGrapeShort NamesAZombie Accounted
INVARIANTS TestedPortionsStay ExactUnlessLost
PROPERTIES JoeyDoesntShare Terminates  ReapedUnlessMerged DinnerUnlessLost
