CONSTANTS
    Maximum = 1
    MaxBytes = 3
    Socket = 2
    Checkpoints = TRUE
SPECIFICATION LiveSpec
INVARIANTS StreamExact SleepersHaveReason
PROPERTY CloseEnds
CHECK_DEADLOCK FALSE
