\* Two lines, each Enter alone or up to three commands that exist; "emit" writes one line more
\* than a pipe holds, and one fork may fail.
SPECIFICATION FairSpec
CONSTANTS
    q1 = q1
    q2 = q2
    Pids = {1, 2, 3, 4}
    Shell = 1
    Pipes <- TwoPipes
    Lines <- SomeLines
    MaxLines = 2
    Items = 2
    Capacity = 1
    MaxForkFailures = 1
INVARIANTS PromptIsClean PipedThrough
 
\* The shell stops at the end of its input, and may wait for ever.
CHECK_DEADLOCK FALSE
