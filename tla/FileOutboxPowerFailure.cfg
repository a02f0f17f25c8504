SPECIFICATION SpecPowerFailure
CONSTANTS
    Messages = {m1}
    Clients = {c1}
    MaxId = 4
    Capacity = 2
    QueueCapacity = 1
    MaxFaults = 2
INVARIANT AcceptedSurvive
