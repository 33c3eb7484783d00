\* Four nodes, the words "a" and "..", and a stack of three slots (the code has ten): the
\* deepest search fills it, and one more cd overruns it.  Addresses are interchangeable.
SPECIFICATION Spec
CONSTANTS
    root = root
    n1 = n1
    n2 = n2
    n3 = n3
    Nodes <- FourNodes
    Root = root
    InitialCapacity = 3
    Words = {"a", ".."}
    StackCapacity = 3
INVARIANTS  ShiftInBounds
PROPERTIES UsesTree ImplementsDirectory
SYMMETRY Perms
\* The program stops at kill, and is undefined past the end of its stack.
CHECK_DEADLOCK FALSE
