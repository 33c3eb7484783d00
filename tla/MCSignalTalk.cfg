\* Four lines for the child instead of the code's two: the protocol is the same at every
\* length.  The user presses Ctrl-C at any moment, as often as four lines bear, and once more.
SPECIFICATION FairSpec
CONSTANTS
    Rounds = 4
    MaxCtrlC = 3
INVARIANTS IndexInBounds Dialogue
 
\* A Ctrl-C whose signal is merged with the peer's, or comes out of turn, may leave one
\* process waiting for ever.
CHECK_DEADLOCK FALSE
