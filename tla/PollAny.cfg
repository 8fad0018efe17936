CONSTANTS
    Hosts <- MCHosts2
    InitialHosts = {1}
    Metered = {1}
    Flaky = {1}
    Fragile = {1}
    Records = {"record"}
    NoRecord = "none"
    RecordOf <- MCRecordOfFirst
    DnsMayFail = TRUE
    StorageErrors = TRUE
    Events = {"create", "delete", "force", "edit", "flag", "apply", "crash"}
    MaxEvents = 1
    NoHost = 0
    Priority <- MCPriority
    FailThreshold = 2
    RecoverThreshold = 1
    MaxElectRetries = 3
SPECIFICATION FairSpec
INVARIANTS TypeOK
PROPERTIES PollReturns
