SPECIFICATION Spec
CONSTANTS
    MaxRestartRetries = 2
    MaxOrphanAttempts = 2
    MaxFaults = 0
    MaxCommands = 2
    Verbs = {"Stopped", "Restarting"}
    Bridge = FALSE
PROPERTY StopKept
CHECK_DEADLOCK FALSE
