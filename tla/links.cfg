SPECIFICATION FairSpec
CONSTANTS
    Node <- Two
    Explicit <- LargerOnly
    Forgettable = {}
    MaxFaults = 2
INVARIANTS TypeOK NeverLost OwnerDials
PROPERTIES FilesGrow
    EventuallyLinked
CHECK_DEADLOCK FALSE
