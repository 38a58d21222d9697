CONSTANTS
    MaxLen = 5
    Limit = 3
    MaxInt = 21
SPECIFICATION Spec
INVARIANTS TypeOK SplitsAtSeparators OnlySeparatorsLost EscapesAreDropped
PROPERTY SplitEnds
CHECK_DEADLOCK FALSE
