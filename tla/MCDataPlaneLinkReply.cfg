SPECIFICATION Spec
CONSTANTS
    MaxDp = 2
    MaxConn = 2
    MaxQuery = 2
    MaxCrash = 0
    MaxQueue = 1
    MaxPolicy = 1
    Faults = {"malformed", "several"}
INVARIANTS
    IInv
    FirstGetsIdentity
PROPERTIES
    AnswersOwed
CHECK_DEADLOCK FALSE
