CONSTANTS
    Hosts <- MCHosts2
    InitialHosts = {1, 2}
    Metered = {2}
    Flaky = {1, 2}
    Fragile = {1, 2}
    Records = {"record"}
    NoRecord = "none"
    RecordOf <- MCRecordOf
    DnsMayFail = TRUE
    StorageErrors = FALSE
    Events = {"delete", "crash"}
    MaxEvents = 1
    NoHost = 0
    Priority <- MCPriority
    FailThreshold = 3
    RecoverThreshold = 2
    MaxElectRetries = 3
SPECIFICATION ObservedSpec
INVARIANTS AtMostOneLeader
PROPERTIES DnsAfterConnect VerdictsConfirmed
