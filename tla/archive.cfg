SPECIFICATION FairSpec
CONSTANTS
    Uploads = {1, 2}
    MaxFaults = 1
    MaxCommands = 1
INVARIANTS
    AgentGivenBack
    ArchiveKept
    BootsOnlyRestored
    DiscardComplete
PROPERTY EveryJobEnds
CHECK_DEADLOCK FALSE
