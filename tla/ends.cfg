SPECIFICATION FairSpec
CONSTANTS
    w1 = w1
    t1 = t1
    g1 = g1
    Workers = {w1}
    NoOwner = NoOwner
    NoTask = NoTask
    Tasks = {t1}
    TheAgent = g1
    Agents = {g1}
    AgentOf <- MCAgentOf
    MaxDispatchAttempts = 2
    MaxInteractions = 1
    MaxProgressUpdates = 0
    MaxOutstanding = 2
    MaxRetained = 2
    MaxAttemptIds = 2
    MaxCalls = 1
PROPERTIES
    EveryTaskEnds
    LaneFreed
CHECK_DEADLOCK FALSE
