CONSTANTS
    Hosts <- MCHosts2
    InitialHosts = {1, 2}
    Metered = {}
    Flaky = {}
    Fragile = {}
    Records = {"record"}
    NoRecord = "none"
    RecordOf <- MCRecordOf
    DnsMayFail = TRUE
    StorageErrors = FALSE
    Events = {}
    MaxEvents = 0
    NoHost = 0
    Priority <- MCPriority
    FailThreshold = 3
    RecoverThreshold = 2
    MaxElectRetries = 3
SPECIFICATION FairSpec
PROPERTIES DnsCatchesUp
