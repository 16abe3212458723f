SPECIFICATION Spec
CONSTANTS
    MaxAlarms = 3
    Enabled = {"procs", "load1", "load15", "packets_avg"}
    Width = 2
    LongMax = 3
    Thresholds <- MCThresholds
    MaxBatch = 2
INVARIANTS
    IInv
    AlarmsOwned
    NoPushForgotten
    OneRequest
    CommandsKept
PROPERTIES
    CommandsRun
