CONSTANTS
    Hosts <- MCHosts3
    InitialHosts = {1, 2, 3}
    Metered = {2}
    Flaky = {1, 2, 3}
    Fragile = {1, 2}
    Records = {"record"}
    NoRecord = "none"
    RecordOf <- MCRecordOf
    DnsMayFail = FALSE
    StorageErrors = FALSE
    Events = {}
    MaxEvents = 0
    NoHost = 0
    Priority <- MCPriority
    FailThreshold = 3
    RecoverThreshold = 2
    MaxElectRetries = 3
SPECIFICATION Spec
INVARIANTS LeaderIsBest CircuitExact FlagMatchesRecord DnsFollowsLeader
PROPERTIES MatrixObeyed OnlyExhaustedCleared
