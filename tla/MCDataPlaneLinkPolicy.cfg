SPECIFICATION FairSpec
CONSTANTS
    MaxDp = 2
    MaxConn = 3
    MaxQuery = 0
    MaxCrash = 2
    MaxQueue = 2
    MaxPolicy = 3
    Faults = {"refused", "accept", "error", "register"}
INVARIANTS
    SingleConnection
    PolicyNotForgotten
PROPERTIES
    PolicyReestablished
CHECK_DEADLOCK FALSE
