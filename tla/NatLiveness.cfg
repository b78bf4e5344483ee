\* The discovery ends whatever is lost; the host's address given, any port.
SPECIFICATION FairSpec
CONSTANTS
    NumServers = 2
    Worlds <- AnyWorld
    SourceGiven = TRUE
    FixedPort = FALSE
    MaxFaults = 2
PROPERTIES
    DiscoveryEnds
CHECK_DEADLOCK FALSE
