SPECIFICATION FairSpec
CONSTANTS
    Node = {1, 2, 3}
    Explicit <- Previous
    Off = {3}
    MaxFaults = 1
    MaxStops = 1
    MaxCables = 2
INVARIANTS TypeOK AcceptorStatus StopStaysLocal ShutdownSpreads
PROPERTIES StopEnds
CHECK_DEADLOCK FALSE
