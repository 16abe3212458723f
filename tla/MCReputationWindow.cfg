SPECIFICATION Spec
CONSTANTS
    Devices = {d1, d2, d3, d4}
    FeedbackMax = 3
CHECK_DEADLOCK FALSE
INVARIANTS
    IInv
    OneEntryEach
    FeedbackComplete
PROPERTIES
    FeedbackFrozen
