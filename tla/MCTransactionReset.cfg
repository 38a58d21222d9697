CONSTANTS
    MaxUsers = 2
    MaxTx = 2
    MaxCalls = 3
SPECIFICATION Spec
PROPERTY NextQueryResets
CHECK_DEADLOCK FALSE
