CONSTANTS
    Hosts <- MCHosts2
    InitialHosts = {2}
    Metered = {}
    Flaky = {}
    Fragile = {}
    Records = {"record"}
    NoRecord = "none"
    RecordOf <- MCRecordOf
    DnsMayFail = FALSE
    StorageErrors = FALSE
    Events = {"create"}
    MaxEvents = 1
    NoHost = 0
    Priority <- MCPriority
    FailThreshold = 3
    RecoverThreshold = 2
    MaxElectRetries = 3
SPECIFICATION ObservedSpec
PROPERTIES DeathConfirmed
