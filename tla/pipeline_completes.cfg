SPECIFICATION FairSpec
CONSTANTS
    t1 = t1
    t2 = t2
    p1 = p1
    p2 = p2
    NULL = NULL
    Tasks = {t1, t2}
    Points = {p1, p2}
    PointOf <- TwoPoints
    Outcomes <- AllOutcomes
    CodeChanges = FALSE
    MaxInFlight = 1
    MaxRuns = 3
INVARIANTS
    NeverRaises
PROPERTIES
    SolvedNotRecomputed
    EventuallySettles
CHECK_DEADLOCK FALSE
