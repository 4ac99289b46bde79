CONSTANTS
    Frames = {"odom", "map", ""}
    PathFrame = "odom"
    MaxPoses = 3
    MinTranslations <- MCMinTranslations
    Poses <- MCPoses
    NonFinitePose = NonFinitePose
    Nothing = Nothing
SPECIFICATION RecordsSpec
INVARIANT PathFollows
INVARIANT StartFrameFixed
