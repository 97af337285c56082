SPECIFICATION Spec
CONSTANTS
    NULL = NULL
    C_threshold = 4
    Unit = 10
    Step = 10
    N_end = 40
    Tasks <- MCTasks
    Shapes <- MCShapes
    Nodes = 2
    MaxRestarts = 1
    MaxExpansions = 2
    Levels <- MCLevels
    MaxInner = 2
    MaxEvaluations = 2
INVARIANT EndpointKept
