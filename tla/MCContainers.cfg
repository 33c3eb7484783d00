\* A map of three keys that collide at different sizes, in a table of one bucket with three
\* doublings, any of which may be refused; an array that grows once and is refused the second
\* time; two lists over four nodes; a table of people that grows once.
SPECIFICATION ContainersSpec
CONSTANTS
    k1 = k1
    k2 = k2
    k3 = k3
    Keys <- ThreeKeys
    Values = {v1, v2}
    ABSENT = ABSENT
    Hash <- SomeHash
    InitSize = 1
    MaxSize = 8
    Numbers = {1, 2}
    InitialCapacity = 2
    MaxCapacity = 4
    Lists = {l1, l2}
    Memory = {n1, n2, n3, n4}
    NULL = NULL
    Names = {ann, bob}
    InitialPeople = 2
    MaxPeople = 5
INVARIANTS WellPlaced NeverFull KthFromTheEnd
PROPERTIES  ImplementsItems
\* A call may end the program.
CHECK_DEADLOCK FALSE
