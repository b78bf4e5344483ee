\* A file of three chunks, a remote file that changes, one crash of the process.
SPECIFICATION Spec
CONSTANTS
    f1 = f1
    f2 = f2
    w1 = w1
    w2 = w2
    w3 = w3
    r1 = r1
    r2 = r2
    Files <- OneFile
    Size <- Size3
    Name <- Named1
    Workers <- Workers2
    Requests <- Sequential
    Ops = {"queue", "pause", "resume", "alter", "crash"}
    MaxId = 2
    MaxIndex = 1
    MaxLength = 5
    MaxCrashes = 1
SYMMETRY WorkerSymmetry
CHECK_DEADLOCK FALSE
INVARIANTS
    StatusMatchesOffset
    UniqueUnfinished
    CompletedIsWhole
    ActiveIsLive
PROPERTIES
    RowsAdvance
    RowsFollowLifecycle
