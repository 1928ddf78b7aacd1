SPECIFICATION MCSpec
CONSTANTS
    Callers = {c1, c2, c3}
    Closers = {k1}
    Paths = {p1, p2}
    Limit = 1
    N = 2
    Tools = {t1, t2}
    Analyzers = {a1}
    DocLimit = 2
    Slots = 1
INVARIANTS WithinLimit LoadedOnce NothingLeaks WorkIsJoined CleanIsComplete
PROPERTIES HandsOutOpenEngines EveryLoadReturns RunsEnd
CHECK_DEADLOCK FALSE
