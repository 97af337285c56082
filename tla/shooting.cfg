SPECIFICATION Spec
CONSTANTS
    Fails = Fails
    None = None
    Problems <- AnyMap
    Tol = 1
    lam0 = 0
    Bounds <- Window
    BootstrapTargets <- SomeTargets
    MaxOuter = 4
    MaxBacktrack = 2
    TrustRadius0 = 1
    TrustRadiusMin = 1
    TrustRadiusMax = 6
    StallGrowth = 3
    HasDeadline = TRUE
INVARIANTS
    CorridorHolds
    PendingIsCurrent
    NeverFailsAtOuter
CHECK_DEADLOCK FALSE
