SPECIFICATION FairSpec
CONSTANTS
    Callers = {c1, c2, c3}
    Closers = {k1, k2}
    Loader = loader
    Instances = {i1, i2, i3}
    NoInstance = none
    MaxInstances = 2
INVARIANTS PoolIsSound NothingLeaks
PROPERTIES EveryCallReturns
CHECK_DEADLOCK FALSE
