CONSTANTS
    RetryInterval = 2
    JoinTimeout = 2
    RecoverThreshold = 2
    SetsBitrate = TRUE
    MaxLost = 1
SPECIFICATION Spec
INVARIANT TypeOK
INVARIANT NoStackForgotten
INVARIANT ExitIsTimely
INVARIANT ExitLeavesBusyStack
PROPERTY BringupsAreSpaced
PROPERTY LinkIsRecovered
CHECK_DEADLOCK FALSE
