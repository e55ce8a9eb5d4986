CONSTANTS
    j1 = j1  j2 = j2  j3 = j3
    k1 = k1
    w1 = w1  w2 = w2
    NoJob = NoJob
    NoKey = NoKey
    Jobs <- MCJobs
    Keys <- MCKeys
    Workers <- MCWorkers
    RetryLimits = {0, 1}
    Interruptible = TRUE
SPECIFICATION FairSpec
INVARIANTS JobsAccountedFor OneJobPerKey FirstAttemptsInOrder
PROPERTIES TerminalIsFinal EveryJobEnds
