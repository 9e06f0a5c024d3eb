SPECIFICATION Spec
CONSTANTS
    Node <- Two
    Explicit <- LargerOnly
    Forgettable = {1, 2}
    MaxFaults = 2
INVARIANTS
    OneLinkPerPeer
    FileCurrent
CHECK_DEADLOCK FALSE
