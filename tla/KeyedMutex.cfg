SPECIFICATION FairSpec
CONSTANTS
    Tasks = {t1, t2, t3}
    Keys = {k1, k2, k3, k4}
    Mutexes = {m1, m2, m3, m4}
    NoTask = NoTask
    NoMutex = NoMutex
INVARIANTS
    MutualExclusion
    OneMutexPerKey
    TableBounded
    PermitNotLost
PROPERTIES
    ImplementsKeyedLock
    EveryLockServed
