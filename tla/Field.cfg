SPECIFICATION ModelSpec
CONSTANTS
    Channels = {"c"}
    ReconcileCallers = {"p", "q"}
    Gone = Gone
    MaxReconcileRevision = 3
    MaxReconcileFaults = 1
    Requests = {"connect", "disconnect", "query"}
    MaxRequests = 2
    MaxQueue = 2
    MaxAttempts = 2
    MaxRounds = 1
    ZeroThreshold = 2
    MaxOutages = 2
    MaxBusiness = 1
    Keys <- MCKeys
    NoPoint = NoPoint
    MaxPointRevision = 3
    BusTargets = 3
    BusFormat <- MCFormat
    BusReading <- MCReading
    RetryCount = 1
    LateAdapters = {"aether485"}
    MaxBusPolls = 1
    MaxGarbled = 2
    ModbusRegisters = 6
    PointSets <- MCPointSets
    MaxGap = 1
    MaxBatch = 3
    CommandValues = {1}
    BadValue = BadValue
    MaxModbusPolls = 1
    MaxPending = 2
    MaxDrifts = 1
    MaxWrites = 1
    IecPoints <- MCServed
    IecControls = {"x", "y"}
    IecReports <- MCReports
    ServedNames <- MCNames
    DeviceModels <- MCModels
    LateConnecting = FALSE
    MaxIecPolls = 2
    MaxIecConnects = 2
    MaxIecCommands = 2
    MaxIecReports = 1
    NoIecRequest = NoIecRequest
    NameLengths = {1, 20, 34, 40, 53, 54, 55, 64}
    MaxNames = 74
    Integers61850 <- MCInts
    DatasetSize = 2
INVARIANTS
    ChannelsRunAsConfigured
    
    
    FieldTypeOK

    
CHECK_DEADLOCK FALSE
