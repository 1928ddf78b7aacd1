SPECIFICATION Spec
CONSTANTS
    Names = {n1, n2, n3}
    MaxChanges = 2
    MaxLinks = 1
    MaxLookups = 7
    MaxFiles = 2
    None = None
INVARIANTS ContentIsWhatWasRead
CHECK_DEADLOCK FALSE
