SPECIFICATION FairSpec
CONSTANTS
    u1 = u1
    u2 = u2
    p1 = p1
    r1 = r1
    Uploads = {u1, u2}
    TheResult = r1
    Results = {r1}
    ResultOf <- MCResultOf
    None = None
    Replicas = {p1}
    MaxFiles = 2
    MaxAttempts = 1
INVARIANTS
    ReferencedObjectKept
    NoOrphanBytes
    ReadyIsReferenced
PROPERTIES
    UploadReclaimed
    RetiredTaskDeleted
CHECK_DEADLOCK FALSE
