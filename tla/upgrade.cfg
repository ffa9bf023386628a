SPECIFICATION FairSpec
CONSTANTS
    Targets = {v2, v3}
    Installed = v1
    Ops = {o1, o2}
    Handlers = {1, 2}
    None = None
    MaxFaults = 1
INVARIANTS
    OneWriter
    UnlockedIsSettled
    RecoveryTruthful
PROPERTY RecoveryAnswered
CHECK_DEADLOCK FALSE
