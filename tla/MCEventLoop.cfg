SPECIFICATION FairSpec
CONSTANTS
    MaxFd = 5
    Commands = TRUE
    Probe = 4
INVARIANTS
    IInv
    Owned
    NoneUnwatched
    StrayOnlyOnReuse
    BlocksOnlyOnReuse
PROPERTIES
    ExactlyOnce
    ProbeEnds
