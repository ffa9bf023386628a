SPECIFICATION Spec
CONSTANTS
    w1 = w1
    w2 = w2
    t1 = t1
    g1 = g1
    Workers = {w1, w2}
    NoOwner = NoOwner
    NoTask = NoTask
    Tasks = {t1}
    TheAgent = g1
    Agents = {g1}
    AgentOf <- MCAgentOf
    MaxDispatchAttempts = 2
    MaxInteractions = 1
    MaxProgressUpdates = 1
    MaxOutstanding = 2
    MaxRetained = 2
    MaxAttemptIds = 3
    MaxCalls = 1
SYMMETRY WorkerSymmetry
PROPERTY CompletedByCurrentAttempt
CHECK_DEADLOCK FALSE
