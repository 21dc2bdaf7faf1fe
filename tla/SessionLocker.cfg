CONSTANTS
    Calls = {c1, c2, c3}
    Sessions = {s1, s2}
    Mutexes = {m1, m2}
    NoMutex = NoMutex
    NoCall = NoCall
SPECIFICATION FairSpec
INVARIANTS
    MutualExclusion
    TableIsExact
PROPERTIES
    LockReturns
    ImplementsSessionMutex
