CONSTANTS
    LogLimit = 3
    MaxChatter = 0
SPECIFICATION InstallSpec
CHECK_DEADLOCK FALSE
INVARIANT AgentInstalled
