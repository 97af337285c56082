SPECIFICATION FairSpec
CONSTANTS
    NULL = NULL
    Points = {p1, p2}
    Combos = {c1}
    Answers <- MixedAnswers
    Configs <- MixedConfigs
    MaxRuns = 3
INVARIANTS
    FinishedIsComplete
    CompactionsSound
    
PROPERTIES
    SettledStoresNothing
    RunsEnd
CHECK_DEADLOCK FALSE
