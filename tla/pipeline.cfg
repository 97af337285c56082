SPECIFICATION Spec
CONSTANTS
    t1 = t1
    t2 = t2
    p1 = p1
    p2 = p2
    NULL = NULL
    Tasks = {t1, t2}
    Points = {p1, p2}
    PointOf <- TwoPoints
    Outcomes <- AllOutcomes
    CodeChanges = TRUE
    MaxInFlight = 2
    MaxRuns = 2
INVARIANTS
    OneValidatedRow
    FinishedIsComplete
    ResultsHaveSources
PROPERTIES
    ImplementsFILedger
CHECK_DEADLOCK FALSE
