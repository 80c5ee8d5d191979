SPECIFICATION PrekeyFairSpec
CONSTANTS
    Kinds = {ec}
    RotationDays = 1
    RetentionDays = 1
    MAX_RETIRED_SIGNED_PAIRS = 3
    KEY_ID_MAX = 4
    LowWatermark = 1
    Target = 2
    MAX_STORED = 3
    MAX_ONE_TIME = 4
    Enrolled = 1
    MaxDay = 3
    MaxClaims = 2
    MaxTroubles = 1
CHECK_DEADLOCK FALSE
INVARIANT PrekeysAreHeld
PROPERTY InTimeOpens
PROPERTY KeepsPromise
PROPERTY PlanEndsUnlessRefused
