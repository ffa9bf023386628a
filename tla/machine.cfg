SPECIFICATION FairSpec
CONSTANTS
    MaxReplacementRetries = 2
    MaxVMs = 4
    MaxFaults = 2
    MaxCommands = 1
INVARIANTS
    RecordedVMDeleted
PROPERTIES
    ComesUp
    ComesToRest
    GoesAway
CHECK_DEADLOCK FALSE
