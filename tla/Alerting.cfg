CONSTANTS
    Nodes = {a, b}
    Facts = {"disk_usage"}
    MaxEvents = 3
    MaxAcks = 1
    MaxDeletes = 1
    MaxFailures = 1
SPECIFICATION AlertFairSpec
INVARIANTS TriggeredIsOpen EveryFiringIsTold
PROPERTY AlertsFollow
