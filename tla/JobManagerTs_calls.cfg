CONSTANTS
    j1 = j1  j2 = j2
    k1 = k1
    w1 = w1  w2 = w2
    c1 = c1  c2 = c2
    NoJob = NoJob
    NoKey = NoKey
    Jobs <- MCJobs
    Keys <- MCKeys
    Clients <- MCClients
    Interruptible = FALSE
    Workers <- MCWorkers
    Procs <- MCProcs
    RetryLimits = {1}
SPECIFICATION BlockFairSpec
INVARIANTS MutexInv BlocksExact
PROPERTIES GrantedInOrder EveryBlockEnds TsEveryJobEnds
