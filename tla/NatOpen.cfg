\* The script as nat.ts starts it, on a host without NAT.
SPECIFICATION Spec
CONSTANTS
    NumServers = 2
    Worlds <- OpenHosts
    SourceGiven = FALSE
    FixedPort = TRUE
    MaxFaults = 0
INVARIANTS
    OpenIsRecognised
CHECK_DEADLOCK FALSE
