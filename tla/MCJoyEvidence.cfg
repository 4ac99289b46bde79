CONSTANTS
    Messages <- MCMessages
    EntryNeutral = 3
    PostEntryNeutral = 2
    VerticalDeadzone = 10
    PwmRange = 300
SPECIFICATION Spec
INVARIANT TypeOK
INVARIANT NeutralPeriodsAreKept
PROPERTY AltHoldIsPrepared
PROPERTY StickIsHonoured
PROPERTY AltHoldIsRequested
