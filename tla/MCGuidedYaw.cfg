CONSTANTS
    Lines <- MCLines
    Positions <- MCPositions
    Modes = {"GUIDED", "MANUAL"}
    NoMode = NoMode
    InitPublishCount = 2
    ArrivalThreshold = 1
    TypeMask = 2496
    QueueLimit = 2
SPECIFICATION Spec
PROPERTY YawIsLeftAlone
