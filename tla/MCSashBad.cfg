\* A command that does not exist starts the line.
SPECIFICATION FairSpec
CONSTANTS
    q1 = q1
    q2 = q2
    Pids = {1, 2, 3, 4}
    Shell = 1
    Pipes <- TwoPipes
    Lines <- BadLines
    MaxLines = 1
    Items = 2
    Capacity = 1
    MaxForkFailures = 0
INVARIANTS OneForEach
CHECK_DEADLOCK FALSE
