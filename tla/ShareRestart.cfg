\* Two directories; crashes at every await; a disk, contents and a configuration
\* that change while the tables are rebuilt.
SPECIFICATION Spec
CONSTANTS
    d1 = d1
    d2 = d2
    p1 = p1
    p2 = p2
    a1 = a1
    a2 = a2
    Dirs <- TwoDirs
    Adverts <- TwoAdverts
    Paths <- TwoPaths
    Under <- Disjoint
    Key <- SameKey
    MaxId = 3
    MaxVersion = 2
    MaxStarts = 3
    DhtFails = TRUE
SYMMETRY SwapDirs
INVARIANTS
    TypeOK
    IdsAreStable
    StartHeals
    FailsForCause
CHECK_DEADLOCK FALSE
