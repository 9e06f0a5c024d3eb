SPECIFICATION Spec
CONSTANTS
    n1 = n1
    n2 = n2
    n3 = n3
    n4 = n4
    Nodes <- ThreeNodes
    Zone <- TwoZones
    Topologies <- Triangle
    Holders = {}
    Scopes = {"public", "private"}
    MaxHops = 5
    Timeout = 0
    MaxBroadcasts = 2
    MaxFaults = 1
    MaxTime = 1
INVARIANTS
    TypeOK
    OncePerComputer
    PrivateStaysInside
CHECK_DEADLOCK FALSE
