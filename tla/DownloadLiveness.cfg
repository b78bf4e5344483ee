\* What ends, and what a pause comes to, with one user and no crash.
SPECIFICATION FairSpec
CONSTANTS
    f1 = f1
    f2 = f2
    w1 = w1
    w2 = w2
    w3 = w3
    r1 = r1
    r2 = r2
    Files <- OneFile
    Size <- Size2
    Name <- Named1
    Workers <- Workers2
    Requests <- Sequential
    Ops = {"queue", "pause", "resume", "delete", "alter"}
    MaxId = 1
    MaxIndex = 1
    MaxLength = 4
    MaxCrashes = 0
CHECK_DEADLOCK FALSE
PROPERTIES
    EveryTaskEnds
    InProgressSettles
    PauseTakesEffect
