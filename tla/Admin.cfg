CONSTANTS
    Pools = {"default", "spare"}
    Default = "default"
    Ids = {1, 2}
    Requests = {q1, q2}
    Priorities = {0, 1}
    CatalogErrors = TRUE
    Agents = {"h1", "h2"}
    Accesses = {a1, a2}
    Templates = {"", "t1", "t2"}
    NoTemplate = ""
    Absent = Absent
    TypedTokens = {8}
    MaxTokens = 2
    MaxSaves = 2
    StorageErrors = TRUE
    Tabs = {t1, t2}
    RulePools = {"default", "spare"}
    LegacyPool = "default"
    RecordNames = {"a", "b"}
    ApiKeys = {"k1", "k2"}
    OldToken = "k0"
    MaxRules = 2
    MaxRuleSaves = 2
    ReadsFail = TRUE
    Visits = {v1, v2}
    Passwords = {"p1", "p2"}
    Short = "short"
    SessionLife = 1
    MaxLogins = 2
    MaxClock = 3
    AccountErrors = TRUE
    Interval = 5
    RequestLimit = 2
    ProbeLimit = 3
    Timeout = 15
    PollInterval = 10
    PollTime = 2
    Spacing = 3
    FailThreshold = 3
    RecoverThreshold = 2
SPECIFICATION MCSpec
SYMMETRY MCSymmetry
INVARIANTS
    AdminTypeOK
    HostsHavePools MadeUpPriorityFree
     TemplateCurrent
    RulesDistinct
    VerdictInTime
PROPERTIES
    RestartHeals SecretsSurvive
    EndedStaysEnded ChangeKnowsPassword HealthyStaysUp
