SPECIFICATION FairSpec
CONSTANTS
    k1 = k1
    k2 = k2
    Keys = {k1, k2}
    Ops = {1, 2}
    Posts = {1, 2}
    OpsOf <- MCOpsOf
    Asked <- MCAsked
    Recoveries = {1}
    None = None
    MaxOperations = 2
    MaxInspected = 1
    MaxFaults = 1
INVARIANTS JournalTruthful AdministratorRemains
PROPERTIES ChangesAuthorized RecoverySettles OutboxDrains
CHECK_DEADLOCK FALSE
