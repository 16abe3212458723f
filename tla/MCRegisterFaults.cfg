SPECIFICATION Spec
CONSTANTS
    KeepaliveCount = 3
    CountMod = 6
    TokenMod = 4
    AlarmIds = {1, 2}
    MaxRegister = 2
    MaxKeepalive = 2
    Faults = {"refused", "stall"}
INVARIANTS
    NotStranded
    AckedLossDetected
