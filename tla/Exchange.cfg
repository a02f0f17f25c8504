SPECIFICATION ModelSpec
CONSTANTS
    SlotWriters <- OneWriter
    SlotReaders <- OneReader
    SlotSeqMod = 4
    MaxSets = 4
    Layouts <- MCLayouts
    Topologies <- MCTopologies
    Readers <- OneReader
    Writers <- OneWriter
    MaxGen = 4
    MaxDisruptions = 2
    ReaderServices = {"alarm", "api", "history", "uplink"}
    MaxLayout = 2
    MaxDbEdits = 2
    MaxPublications = 2
    NoLiveGeneration = NoLiveGeneration
    Messages <- MCMessages
    Producers <- MCProducers
    Clients <- MCClients
    MaxId = 3
    Capacity = 2
    QueueCapacity = 1
    MaxFaults = 1
    DrainLimit = 2
    Backlog = 2
    QueueRoom = 3
    MaxConnections = 2
    MaxSessionRequests = 2
    MaxChallenges = 2
    LedgerCapacity = 1
    RequestLife = 1
    ChallengeLives = {1, 2}
    MaxNow = 2
    MaxEvents = 1
    MaxLinks = 2
    MaxStops = 1
    Nobody = Nobody
    Jobs = {"j", "k"}
    Digests = {1, 2}
    MaxOffers = 2
    MaxTrouble = 1
    NoJob = NoJob
    Entities = {"a", "b"}
    BufferRoom = 2
    MaxUpdates = 2
    MaxSyncFaults = 2
    NoSync = NoSync
    a = a
    b = b
    h = h
    r1 = r1
    w1 = w1
    m1 = m1
    p1 = p1
    forwarder = forwarder
    maintenance = maintenance
INVARIANTS
    ConsistentRead
    AcceptedReadIsCanonical
    WritesReachCanonical
    MessagesArriveInOrder
    CloudSessionsAreFresh
    IntegrationCommandsRunOnce
    
    ExchangeTypeOK
PROPERTIES
    PublishedViewIsCurrent
    NothingGoesBack
