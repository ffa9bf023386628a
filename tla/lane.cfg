SPECIFICATION Spec
CONSTANTS
    w1 = w1
    w2 = w2
    t1 = t1
    t2 = t2
    g1 = g1
    Workers = {w1, w2}
    NoOwner = NoOwner
    NoTask = NoTask
    Tasks = {t1, t2}
    TheAgent = g1
    Agents = {g1}
    AgentOf <- MCAgentOf
    MaxDispatchAttempts = 2
    MaxInteractions = 0
    MaxProgressUpdates = 0
    MaxOutstanding = 2
    MaxRetained = 2
    MaxAttemptIds = 2
    MaxCalls = 0
SYMMETRY WorkerSymmetry
INVARIANTS
    LaneExclusion
    RowsAgree
CHECK_DEADLOCK FALSE
