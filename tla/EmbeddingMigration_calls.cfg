CONSTANTS
    Chunks = {1, 2, 3}
    BatchSizes = {1, 2}
    MaxBatches = 2
    MaxCalls = 2
    MaxEdits = 1
SPECIFICATION FairSpec
INVARIANTS ReturnedAccountsForAll MarkedIsIndexed
PROPERTIES NoNewWorkAfterAbort EveryCallReturns
