\* The toll: lines of two cells, a buffer of five, a FIFO of six.  A booth that keeps up
\* reads whole lines, as with 1024 bytes and cars that come seconds apart; one that falls
\* behind finds more than a buffer, and cuts a line.  The game and kill_me have no bounds.
SPECIFICATION ProcSpec
CONSTANTS
    l1 = l1
    l2 = l2
    Lanes <- TwoLanes
    MsgLen = 2
    BufSize = 5
    PipeCap = 6
    MaxCars = 4
    MaxStocks = 3
INVARIANTS ExactUnlessCut FairGame UpToDateUnlessLate SequenceEnds
PROPERTIES  GoesOn
\* kill_me may have exited, and a fork may have failed.
CHECK_DEADLOCK FALSE
