CONSTANTS
    MaxCommand = 2
    QueueSize = 1
    LinkSize = 1
    Tickers = {"ping"}
    SessionFaults = {"cut", "close", "stop"}
SPECIFICATION SessionFairSpec
PROPERTIES TakenIsAnswered 
CHECK_DEADLOCK FALSE
