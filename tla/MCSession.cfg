CONSTANTS
    Cap = 1
    MaxReq = 3
    MaxToks = 2
SPECIFICATION ClientSpec
INVARIANTS OwnTokensOnly SuccessIsComplete
PROPERTIES IsExchange CancelReturns ReaderExitsOrStuck WaitEndsOrStuck
CHECK_DEADLOCK FALSE
