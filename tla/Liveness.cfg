SPECIFICATION FairModel
CONSTANTS
    Entities = {"a", "b"}
    BufferRoom = 2
    MaxUpdates = 2
    MaxSyncFaults = 1
    NoSync = NoSync
    Channels = {"c"}
    ReconcileCallers = {"p"}
    Gone = Gone
    MaxReconcileRevision = 2
    MaxReconcileFaults = 1
    Requests = {}
    MaxRequests = 0
    MaxQueue = 2
    MaxAttempts = 0
    MaxRounds = 1
    ZeroThreshold = 2
    MaxOutages = 2
    MaxBusiness = 1
    BusTargets = 2
    BusFormat <- MCFormat
    BusReading <- MCReading
    RetryCount = 1
    LateAdapters = {"aether485"}
    MaxBusPolls = 1
    MaxGarbled = 2
    RouteLayouts = {1}
    Targets = {1}
    RouteNone = RouteNone
    Manual = {"operator"}
    Rules = {}
    Rebuilders = {}
    MaxSequence = 2
    MaxIncarnation = 2
    MaxRevision = 2
    MaxRules = 0
    RuleIds = {2}
    OnChange = {2}
    Interval = 1
    Cooldown = 1
    TimeDeadband = 1
    Deadband = 1
    RuleSamples = {0, 2}
    NaN = NaN
    MaxAge = 2
    MaxRun = 1
    MaxHints = 1
    MaxLoads = 1
    MaxChanges = 1
    NodeIds = {1, 2}
    UnknownNode = 9
    Readings = {1, 2}
    MaxIterations = 3
    Absent = Absent
    AlarmRules = {"r"}
    MaxAlerts = 1
    MaxMoves = 1
    MaxEdits = 1
    MaxAlarmStops = 1
    NoAlarm = NoAlarm
    Processees = {"p", "q"}
    Cadence = 2
    Second = 1
    MaxCells = 4
    DataSteps = 2
    Deadline = 1
    MaxInputAge = 2
    MaxInputGap = 4
    MaxMissing = 1
    MaxOutputAge = 2
    FallbackAge = 1
    Permits = 1
    Commissions <- MCCommissions
    SampleValues = {1}
    FirstInstant = 4
    MaxInstant = 5
    MaxRows = 2
    MaxRuns = 2
    MaxDataMoves = 1
    NoFrame = NoFrame
    Stores = {"sqlite", "postgres"}
    HistoryBatch = 1
    Retention = 1
    PageSize = 1
    MaxHistoryTime = 1
    MaxRowId = 2
    MaxPuts = 2
    MaxHistoryOutages = 1
    MaxBoots = 0
    MaxCollections = 1
    Conns = {"c", "d"}
    ClientIdOf <- MCIds
    HubSlots = {"s"}
    PageSlots <- MCPages
    Inactive = 1
    MaxValue = 1
    MaxTexts = 1
    NoConn = NoConn
    RequestClients = {}
    RuleKeys = {1}
    AlarmChannels = {1}
    MaxRequestCommands = 0
    NoCommand = NoCommand
PROPERTIES
    
    
    WorkEnds
CHECK_DEADLOCK FALSE
