SPECIFICATION Spec
CONSTANTS
    Computer = {1, 2, 3}
    Links <- Chain
    Reporters = {1, 3}
    local = local
    Local = {local}
    Levels = {0, 1}
    HowOld = 0
    MaxTime = 2
    MaxChanges = 2
    MaxBreaks = 1
    MaxRequests = 1
INVARIANTS
    TypeOK
    Registered
    FirstIsNewest
    UpToDate
CHECK_DEADLOCK FALSE
