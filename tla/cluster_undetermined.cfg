SPECIFICATION Spec
CONSTANTS
    Node = {1, 2}
    Explicit <- Smaller
    Off = {}
    MaxFaults = 0
    MaxStops = 0
    MaxCables = 1
INVARIANTS StatusDetermined
CHECK_DEADLOCK FALSE
