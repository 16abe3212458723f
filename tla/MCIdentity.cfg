SPECIFICATION Spec
CONSTANTS
    Faults = {"open", "read", "rand", "remove", "write", "short"}
    MaxGen = 4
CHECK_DEADLOCK FALSE
INVARIANTS
    IInv
    OnePair
    NeverRekeyed
    TwoStartsSuffice
PROPERTY
    SettledStays
