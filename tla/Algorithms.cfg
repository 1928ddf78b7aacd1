SPECIFICATION MCSpec
CONSTANTS
    MaxId = 3
    MaxJobs = 3
    MaxNeeds = 2
    MaxEntries = 3
    MaxSteps = 3
    MaxStatements = 1
    MaxNodes = 5
    MaxOperands = 3
    Contents = {"", "x"}
    NumPaths = 2
    Length = 2
    Bytes = {1, 9}
    MaxEdits = 3
    MaxSkipped = 1
    IncludeSuggested = FALSE
    NumNames = 4
    MaxBases = 2
    MaxDepth = 2
    Idle = Idle
INVARIANTS CycleIsReal NoCycleMissed PlanIsExact VerdictIsExact FindingIsReal ConditionIsSound PolicyIsExact ParserIsExact NarrowingIsExact ExtendsAreExact
CHECK_DEADLOCK FALSE
