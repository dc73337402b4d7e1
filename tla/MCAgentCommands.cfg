CONSTANTS
    MaxCommand = 1
    MaxSession = 2
    Workers = {1, 2}
    MaxRecords = 2
    Unverifiable = {}
    Unsupported = {}
    Skewed = {}
    DiskMayFail = FALSE
    HandlerOutcomes <- AnyOutcome
    OutboundSize = 4
    QueueSize = 1
    Faults = {"agent_close", "panel_close"}
    Callers = {q1, q2}
SPECIFICATION PartsFairSpec
INVARIANT NoLostWakeup
PROPERTIES ReconnectResolvesAll AnswerIsFresh CallsReturn
CHECK_DEADLOCK FALSE
