SPECIFICATION FairSpec
CONSTANTS
    None = None
    Seeds <- AnySeed
    Bounds <- NarrowWindow
    Residuals <- SomeResiduals
    Tol = 1
    MaxOuter = 3
    MaxInner = 3
    MaxBacktrack = 2
    BracketGrowth = 3
    BracketMaxSteps = 2
    Required = 2
    Patience = 2
    TrendWindow = 2
    HasDeadline = TRUE
INVARIANTS
    ConvergedHangsTogether
    ReasonIsTrue
    WarmStartIsOwn
PROPERTIES
    SolveEnds
CHECK_DEADLOCK FALSE
