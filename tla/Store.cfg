SPECIFICATION ModelSpec
CONSTANTS
    Messages <- MCMessages
    Clients <- MCClients
    MaxId = 3
    Capacity = 2
    QueueCapacity = 1
    MaxFaults = 2
    MaxLen = 3
    SpoolInputs <- MCInputs
    SpoolCapacities = {1}
    CompactAfter = 2
    MaxPosition = 2
    MaxStreamEpoch = 2
    MaxSessions = 2
    MaxAppendFaults = 0
    NoSpool = NoSpool
    Stores = {"sqlite", "postgres"}
    HistoryBatch = 1
    Retention = 1
    PageSize = 1
    MaxHistoryTime = 3
    MaxRowId = 4
    MaxPuts = 1
    MaxHistoryOutages = 1
    MaxBoots = 1
    MaxCollections = 2
    Openers = {"p", "q"}
    LegacyRows = {"r"}
    LegacyVersions = {0, 4, 9}
    MaxAttempts = 2
    Commands = {"c", "d"}
    SiteChannels = {1}
    SiteNames <- MCSiteNames
    SiteConfigs <- MCSiteConfigs
    MaxSyncs = 1
    MaxSiteEdits = 1
    m1 = m1
    c1 = c1
INVARIANTS
    OutboxIsDurable
    ReplayIsRecovery
    
    
    
    StoreTypeOK
PROPERTIES
    ImplementsPort
    SetupKeepsASite
