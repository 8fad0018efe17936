CONSTANTS
    Hosts <- MCHosts2
    InitialHosts = {2}
    Metered = {1}
    Flaky = {1, 2}
    Fragile = {1}
    Records = {"record"}
    NoRecord = "none"
    RecordOf <- MCRecordOf
    DnsMayFail = FALSE
    StorageErrors = FALSE
    Events = {"create", "delete"}
    MaxEvents = 2
    NoHost = 0
    Priority <- MCPriority
    FailThreshold = 3
    RecoverThreshold = 2
    MaxElectRetries = 3
SPECIFICATION FairSpec
INVARIANTS LeaderServes
PROPERTIES LeaderReturns
