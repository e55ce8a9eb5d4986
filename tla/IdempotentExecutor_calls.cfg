CONSTANTS
    a = a  b = b  c = c
    k1 = k1  k2 = k2
    Callers <- MCCallers
    Operations <- MCOperations
SPECIFICATION FairSpec
INVARIANTS OneSharedRun
PROPERTIES ImplementsSharedExecution EveryCallEnds
