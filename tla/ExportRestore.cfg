SPECIFICATION SiteModelSpec
CONSTANTS
    Messages <- MCMessages
    Clients <- MCClients
    MaxId = 2
    Capacity = 1
    QueueCapacity = 1
    MaxFaults = 0
    MaxLen = 0
    SpoolInputs <- MCInputs
    SpoolCapacities = {1}
    CompactAfter = 1
    MaxPosition = 1
    MaxStreamEpoch = 1
    MaxSessions = 1
    MaxAppendFaults = 0
    NoSpool = NoSpool
    Stores = {"sqlite"}
    HistoryBatch = 1
    Retention = 1
    PageSize = 1
    MaxHistoryTime = 1
    MaxRowId = 1
    MaxPuts = 1
    MaxHistoryOutages = 0
    MaxBoots = 0
    MaxCollections = 1
    Openers = {"p"}
    LegacyRows = {"r"}
    LegacyVersions = {0}
    MaxAttempts = 1
    Commands = {"c"}
    SiteChannels = {1}
    SiteNames <- MCSiteNames
    SiteConfigs <- MCSiteConfigs
    MaxSyncs = 2
    MaxSiteEdits = 1
    m1 = m1
    c1 = c1
INVARIANTS
    RestoreBringsBack
CHECK_DEADLOCK FALSE
