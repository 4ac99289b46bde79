CONSTANTS
    MaxVerticalSpeed = 1
    JumpTolerance = 1
    MaxRateDt = 2
    ReacquireGoodSamples = 3
    Depths <- MCDepths
    SampleTimes <- MCTimes
    NonFinite = NonFinite
SPECIFICATION Spec
INVARIANT TypeOK
PROPERTY ReacquireNeedsEvidence
PROPERTY EvidenceSuffices
PROPERTY OutputRateBounded
