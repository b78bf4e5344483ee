\* One user at a time, who queues, overrides, pauses, resumes and deletes a
\* file of one chunk at any moment of its download; write streams may lag.
SPECIFICATION Spec
CONSTANTS
    f1 = f1
    f2 = f2
    w1 = w1
    w2 = w2
    w3 = w3
    r1 = r1
    r2 = r2
    Files <- OneFile
    Size <- Size1
    Name <- Named1
    Workers <- Workers2
    Requests <- Sequential
    Ops = {"queue", "override", "pause", "resume", "delete", "slowDisk"}
    MaxId = 2
    MaxIndex = 1
    MaxLength = 2
    MaxCrashes = 0
SYMMETRY WorkerSymmetry
CHECK_DEADLOCK FALSE
INVARIANTS
    TypeOK
    SingleWriter
    PauseReachesTask
    ResumeIsSafe
