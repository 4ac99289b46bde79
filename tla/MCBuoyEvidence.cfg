CONSTANTS
    Points <- MCPoints
    Targets <- MCTargets
    NonFinite = NonFinite
    Modes = {"ALT_HOLD", "GUIDED", "MANUAL"}
    HoldMode = "ALT_HOLD"
    GuidedMode = "GUIDED"
    NoMode = NoMode
    ArrivalRadius = 1
    UseBuoyZ = FALSE
    RequestInterval = 2
SPECIFICATION Spec
INVARIANT TypeOK
INVARIANT HoldsWhereItArrived
PROPERTY RequestsAreSpaced
PROPERTY ModeFollowsIntent
PROPERTY FlightCompletes
