SPECIFICATION FairSpec
CONSTANTS
    MaxRestartRetries = 2
    MaxOrphanAttempts = 2
    MaxFaults = 1
    MaxCommands = 1
    Verbs = {"Running", "Stopped", "Restarting", "NeedsAuth", "memory", "credential", "repair", "delete"}
    Bridge = FALSE
PROPERTIES StopHalts RunsOrParks RebuildsEnd DeletionCompletes
CHECK_DEADLOCK FALSE
