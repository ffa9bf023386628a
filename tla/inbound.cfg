SPECIFICATION FairSpec
CONSTANTS
    r1 = r1
    r2 = r2
    h1 = h1
    h2 = h2
    b1 = b1
    p1 = p1
    Requests = {r1, r2}
    Hooks = {h1, h2}
    TheBody = b1
    BodyOf <- MCBodyOf
    Replicas = {p1}
    None = None
    QueueDepth = 1
    MaxOutstanding = 1
    MaxTerminal = 1
    MaxSpent = 1
INVARIANTS LimitsKept RefusedMeansUnsent DeliveredOnce
PROPERTIES AcceptedSettles StopEnds
CHECK_DEADLOCK FALSE
