CONSTANTS
    Lines <- MCLines
    Positions <- MCPositions
    Modes = {"GUIDED", "MANUAL"}
    NoMode = NoMode
    InitPublishCount = 2
    ArrivalThreshold = 1
    TypeMask = 2496
    QueueLimit = 1
SPECIFICATION Spec
INVARIANT TypeOK
INVARIANT StreamBeforeRequest
INVARIANT OnlyHeardLines
PROPERTY TakeoverCompletes
PROPERTY MoveCompletes
