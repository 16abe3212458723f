SPECIFICATION FairSpec
CONSTANTS
    KeepaliveCount = 3
    CountMod = 256
    TokenMod = 4
    AlarmIds = {1, 2}
    MaxRegister = 2
    MaxKeepalive = 1
    Faults = {}
INVARIANTS
    SingleChain
    FailuresBounded
PROPERTIES
    EventuallyRegistered
    EventuallyUnregistered
