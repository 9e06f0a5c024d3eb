SPECIFICATION Spec
CONSTANTS
    f1 = f1
    f2 = f2
    link = link
    root = root
    busy = busy
    idle = idle
    a = a
    b = b
    j1 = j1
    j2 = j2
    Flag <- TwoFlags
    ConnFlag = link
    Service = {root, busy, idle}
    Writers = {root}
    Looping = {busy}
    Conn <- Both
    Job <- TwoJobs
    FlagsLimit = 1
    MaxSaves = 3
    MaxRestarts = 1
SYMMETRY Symmetry
INVARIANTS
    TypeOK
    NotOverCounted
    CountExact
    LastSaveWins
    ListSound
    ConnFlagCleared
CHECK_DEADLOCK FALSE
