\* Lost, late and misdirected replies, the socket reopened on the same port.
SPECIFICATION Spec
CONSTANTS
    NumServers = 2
    Worlds <- AnyWorld
    SourceGiven = FALSE
    FixedPort = TRUE
    MaxFaults = 3
INVARIANTS
    TypeOK
    RelayIsReachable
    NeverTooLenient
    MappingIsExact
    ExactWithoutFaults
CHECK_DEADLOCK FALSE
