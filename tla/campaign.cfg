SPECIFICATION Spec
CONSTANTS
    NULL = NULL
    Points = {}
    EfoldRel = 15
    QuantityRel = 15
    Cube = 2
    Digit = 3
    Designs <- MCDesigns
    HandFiles <- MCHandFiles
    Axis <- MCAxis
    Combos <- MCCombos
    MaxCombos = 2
    MaxSamples = 2
    Compares <- MCCompares
    MaxFailures = 2
INVARIANTS
    PointsMeetTheDesign
    ReportHangsTogether
    SettledPointsAreShown
CHECK_DEADLOCK FALSE
