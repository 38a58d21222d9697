CONSTANTS
    MaxUsers = 2
    MaxTx = 2
    MaxCalls = 4
SPECIFICATION Spec
INVARIANTS  NoInheritedTx CommitIsTrue RollbackIsTrue
PROPERTY RunsAfterReset
CHECK_DEADLOCK FALSE
