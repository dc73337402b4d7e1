CONSTANTS
    MaxCommand = 1
    MaxSession = 2
    Workers = {1, 2}
    MaxRecords = 2
    Unverifiable = {}
    Unsupported = {}
    Skewed = {}
    DiskMayFail = TRUE
    HandlerOutcomes <- AnyOutcome
    OutboundSize = 1
    QueueSize = 1
    Faults = {"panel_close", "agent_close", "panel_restart", "agent_restart",
              "abort", "expiry", "demotion", "logout"}
SPECIFICATION ChanSpec
INVARIANTS SucceededMeansDone
PROPERTY ImplementsLifecycle
CHECK_DEADLOCK FALSE
