CONSTANTS
    Hosts <- MCHosts2
    InitialHosts = {1, 2}
    Metered = {}
    Flaky = {1, 2}
    Fragile = {1, 2}
    Records = {"record"}
    NoRecord = "none"
    RecordOf <- MCRecordOf
    DnsMayFail = FALSE
    StorageErrors = FALSE
    Events = {}
    MaxEvents = 0
    NoHost = 0
    Priority <- MCPriority
    FailThreshold = 3
    RecoverThreshold = 2
    MaxElectRetries = 3
SPECIFICATION Spec
INVARIANTS LeaderServes
