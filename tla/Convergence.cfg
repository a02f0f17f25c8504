SPECIFICATION FairModel
CONSTANTS
    Layouts <- MCLayouts
    Topologies <- MCTopologies
    Readers <- OneReader
    Writers = {}
    MaxGen = 6
    MaxDisruptions = 2
    ReaderServices = {"alarm", "api", "history", "uplink"}
    MaxLayout = 2
    MaxDbEdits = 2
    MaxPublications = 2
    NoLiveGeneration = NoLiveGeneration
    Messages <- MCMessages
    Producers <- MCProducers
    Clients <- MCClients
    MaxId = 3
    Capacity = 2
    QueueCapacity = 3
    MaxFaults = 1
    DrainLimit = 2
    a = a
    b = b
    h = h
    r1 = r1
    m1 = m1
    p1 = p1
    forwarder = forwarder
    maintenance = maintenance
PROPERTIES
    TopologyConverges
    MessagesAreDelivered
CHECK_DEADLOCK FALSE
