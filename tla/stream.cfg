SPECIFICATION Spec
CONSTANTS
    Script <- OneStage
    Interval = 2
    MaxTime = 3
    Interrupts = TRUE
    Failures = TRUE
INVARIANTS
    HeartbeatIsFresh
    CopyIsComplete
CHECK_DEADLOCK FALSE
