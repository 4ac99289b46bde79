CONSTANTS
    MaxVelocity = 3
    MaxAcceleration = 1
    JumpTolerance = 1
    MaxRateDt = 2
    NonFinite = NonFinite
    InitialVariance = 9
    DecayNum = 3
    DecayDen = 5
    SampleCount = 2
    Params <- MCParams
    Messages <- MCMessages
    RequireValidVelocity = TRUE
    MinAltitude = 1
    MaxFom = 2
    MinValidBeams = 4
    UseDvlCovariance = TRUE
    CovarianceScale = 2
    DefaultVariance = 3
    MinLinearVariance = 1
    MaxLinearVariance = 10
    RecoveryTriggerGap = 2
    MaxClock = 3
    MaxSkew = 1
    MaxRespawns = 1
SPECIFICATION Spec
INVARIANT TypeOK
INVARIANT PublishNeedsEvidence
INVARIANT HoldsAreJustified
INVARIANT RecoveryFloor
PROPERTY PublishedRateBounded
