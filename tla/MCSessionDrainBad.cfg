CONSTANTS
    Cap = 1
    MaxReq = 1
    MaxToks = 1
SPECIFICATION Spec
PROPERTY FailedDrainMarksBad
CHECK_DEADLOCK FALSE
