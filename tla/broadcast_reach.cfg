SPECIFICATION FairSpec
CONSTANTS
    n1 = n1
    n2 = n2
    n3 = n3
    n4 = n4
    Nodes <- FourNodes
    Zone <- OneZone
    Topologies <- AnyConnected
    Holders = {n4}
    Scopes = {"public", "private", "service"}
    MaxHops = 3
    Timeout = 1
    MaxBroadcasts = 1
    MaxFaults = 0
    MaxTime = 0
PROPERTIES
    Reached
CHECK_DEADLOCK FALSE
