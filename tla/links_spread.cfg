SPECIFICATION FairSpec
CONSTANTS
    Node <- Three
    Explicit <- Mixed
    Forgettable = {}
    MaxFaults = 0
INVARIANTS
    AcceptedIsSaved
PROPERTIES
    EveryoneKnown
CHECK_DEADLOCK FALSE
