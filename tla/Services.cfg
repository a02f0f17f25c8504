SPECIFICATION ModelSpec
CONSTANTS
    RouteLayouts <- MCLayouts
    Targets <- MCTargets
    RouteNone = RouteNone
    Manual = {"operator"}
    Rules = {"rule"}
    Rebuilders = {"subscription", "rules"}
    MaxSequence = 2
    MaxIncarnation = 1
    MaxRevision = 2
    MaxRules = 1
    RuleIds = {1, 2}
    OnChange = {2}
    Interval = 1
    Cooldown = 1
    TimeDeadband = 0
    Deadband = 1
    RuleSamples = {0, 2}
    NaN = NaN
    MaxAge = 2
    MaxRun = 1
    MaxHints = 1
    MaxLoads = 1
    MaxChanges = 1
    NodeIds = {1, 2, 3}
    UnknownNode = 9
    Readings = {1, 2}
    MaxIterations = 3
    Absent = Absent
    GovernedRequests <- MCRequests
    MaxTries = 2
    MaxCrashes = 1
    AlarmRules = {"r"}
    MaxAlerts = 2
    MaxMoves = 2
    MaxEdits = 1
    MaxAlarmStops = 1
    NoAlarm = NoAlarm
    RequestClients <- MCRequestClients
    RuleKeys = {1, 2}
    AlarmChannels = {1}
    MaxRequestCommands = 2
    NoCommand = NoCommand
    Processees = {"p", "q"}
    Cadence = 2
    Second = 1
    MaxCells = 4
    DataSteps = 2
    Deadline = 1
    MaxInputAge = 2
    MaxInputGap = 4
    MaxMissing = 1
    MaxOutputAge = 2
    FallbackAge = 1
    Permits = 1
    Commissions <- MCCommissions
    SampleValues = {1}
    FirstInstant = 4
    MaxInstant = 5
    MaxRows = 2
    MaxRuns = 2
    MaxDataMoves = 1
    NoFrame = NoFrame
    Conns <- MCConns
    ClientIdOf <- MCIds
    HubSlots = {"s"}
    PageSlots <- MCPages
    Inactive = 0
    MaxValue = 1
    MaxTexts = 2
    NoConn = NoConn
    GatewayClients = {"a", "b"}
    Usernames = {"admin", "u"}
    Passwords = {1}
    RefreshLife = 1
    AccessLife = 1
    MaxUsers = 3
    MaxTokens = 3
    MaxSeconds = 2
    MaxRequestsSent = 3
    MaxGatewayStops = 1
    NoUser = NoUser
    l1 = l1
    l2 = l2
    t1 = t1
    g1 = g1
    g2 = g2
    q1 = q1
    q2 = q2
    c1 = c1
    c2 = c2
INVARIANTS
    RulesActOnACommittedView
    RulesActAsConfigured
    
    AlarmsAreSound
    ProcessedDataIsSound
    
    ServicesTypeOK
CHECK_DEADLOCK FALSE
