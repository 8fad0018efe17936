CONSTANTS
    Updaters = {"poll", "apply"}
    Addresses = {"a", "b"}
    NoAddress = "none"
    ddnsRetries = 3
    RecordIds = {1, 2, 3}
    MaxUpdates = 4
    Calls = {"e1", "e2"}
    MaxConcurrency = 1
    LogLimit = 3
    MaxChatter = 2
SPECIFICATION MCSpec
CHECK_DEADLOCK FALSE
INVARIANTS
    ServicesTypeOK
    RecordIntact
    ClientsAccounted
    NothingLost PageShowsLog
PROPERTIES
    AddressesPromised UpdateEnds
    ResultsPromised CallsReturn
    InstallEnds
