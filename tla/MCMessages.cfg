CONSTANTS
    Cap = 2
    QueueCap = 2
    MaxTokens = 4
SPECIFICATION FairSpec
INVARIANTS RowsOfMessage AllRowsSeen ColumnsAreThere
PROPERTIES LoopEnds CancelEnds
CHECK_DEADLOCK FALSE
