CONSTANTS
    Messages <- MCMessages
    Stamps <- MCStamps
    Params <- MCParams
    ExpectedType = "position_local"
    Scale = 1
    MaxTwistDt = 2
    Turn = 4
    NonFinite = NonFinite
SPECIFICATION Spec
INVARIANT TypeOK
INVARIANT JumpsExactly
PROPERTY OneFrameBetweenResets
PROPERTY TwistMatchesPath
