\* Calls over one connection, resumed content, and two faults.
SPECIFICATION FairSpec
CONSTANTS
    c1 = c1
    c2 = c2
    Files <- OneFile
    Key <- OneKey
    Calls <- TwoCalls
    Disk0 <- OneDisk
    Versions = {1}
    MaxLength = 2
    MaxFaults = 2
INVARIANTS
    TypeOK
    RequestsAreUnderstood
PROPERTIES
    CleanEndIsWhole
    GetFileIsAnswered
    ContentInOrder
    CallsEnd
CHECK_DEADLOCK FALSE
