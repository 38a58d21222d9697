CONSTANTS
    Bulks = {orders, lines}
    Exclusive = TRUE
    None = none
    Columns = 2
    MaxCalls = 5
SPECIFICATION Spec
INVARIANTS TypeOK DoneIsComplete LoadedOnce 
CHECK_DEADLOCK FALSE
