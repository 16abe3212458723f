SPECIFICATION Spec
CONSTANTS
    MaxFd = 5
    Commands = TRUE
    Probe = 4
INVARIANTS
    WatchedOpen
