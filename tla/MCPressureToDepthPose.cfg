CONSTANTS
    MaxVerticalSpeed = 1
    JumpTolerance = 0
    MaxRateDt = 2
    ReacquireGoodSamples = 2
    NonFinite = NonFinite
    Params <- MCParams
    Pressures <- MCPressures
    SurfacePressure = 8
    PressurePerDepth = 2
    DepthOffset = 1
    ZVariance = 1
    VarianceSamples = 2
    VarianceScale = 5
    MaxClock = 5
    MaxSkew = 1
    MaxRespawns = 1
SPECIFICATION Spec
INVARIANT TypeOK
INVARIANT PublishedRateBounded
INVARIANT RampFollowsInterruption
INVARIANT FrameFixed
