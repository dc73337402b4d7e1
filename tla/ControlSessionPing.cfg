CONSTANTS
    MaxCommand = 2
    QueueSize = 1
    LinkSize = 4
    Tickers = {"ping"}
    SessionFaults = {}
SPECIFICATION SessionFairSpec
PROPERTIES OnlyDeadTransportIsGivenUp
CHECK_DEADLOCK FALSE
