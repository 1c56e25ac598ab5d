CONSTANTS
    Count = 3
    Batch = 1
    Worker = {w1, w2}
    Stored = {9}
    FailCount = 2
SPECIFICATION LiveSpec
INVARIANT EntriesStored
PROPERTY ImportReturns
CHECK_DEADLOCK FALSE
