\* Starts end and files are announced; one directory with two files.
SPECIFICATION FairSpec
CONSTANTS
    d1 = d1
    d2 = d2
    p1 = p1
    p2 = p2
    a1 = a1
    a2 = a2
    Dirs <- OneDir
    Adverts <- OneAdvert
    Paths <- TwoPaths
    Under <- TwoBelowOne
    Key <- OwnKey
    MaxId = 4
    MaxVersion = 1
    MaxStarts = 2
    DhtFails = FALSE
PROPERTIES
    StartEnds
    AllAnnounced
CHECK_DEADLOCK FALSE
