CONSTANTS
    k1 = k1  k2 = k2  k3 = k3
    t1 = t1  t2 = t2
    NoThread = NoThread
    Keys <- MCKeys
    Threads <- MCThreads
    Capacity = 2
    Ttls = {1, 2}
SPECIFICATION Spec
INVARIANTS CacheExact
PROPERTIES OnlyLeastRecentEvicted ImplementsLruMap
