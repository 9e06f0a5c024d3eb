SPECIFICATION Spec
CONSTANTS
    c1 = c1
    c2 = c2
    installed = installed
    visitor = visitor
    far = far
    none = none
    Conns <- TwoConns
    Services <- TheServices
    LocalServicesList <- TheList
    Servers <- TheServers
    NoName = none
    Watchers = {c1}
    Inputs <- TheInputs
    MinTtl = 1
    MaxTtl = 3
    DefaultTtl = 0
    MaxMessages = 2
    MaxTime = 1
INVARIANTS
    TypeOK
    CacheOnlyWhenDown
    AtMostOnce
    Fifo
    HonestReplies
    LocalOutcomeKnown
    StatusUpSound
PROPERTIES
    OnlyExpiredErased
    ImplementsMailbox
