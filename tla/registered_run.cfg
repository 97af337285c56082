SPECIFICATION FairSpec
CONSTANTS
    MaxSignals = 3
    WritesMayFail = TRUE
INVARIANTS
    RecordTellsExit
    SignalDecidesExit
PROPERTIES
    RecordStands
    EventuallyRecorded
CHECK_DEADLOCK FALSE
