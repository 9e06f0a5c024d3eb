SPECIFICATION FairSpec
CONSTANTS
    Client = {"unix", "datagram"}
    Listen <- Listens
    Commands <- SomeCommands
    MaxFaults = 3
INVARIANTS TypeOK ClientInformed
PROPERTIES EventuallyInformed
CHECK_DEADLOCK FALSE
