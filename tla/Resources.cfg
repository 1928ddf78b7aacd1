SPECIFICATION ResourcesSpec
CONSTANTS
    N = 3
    MaxEdits = 3
    c1 = c1
    c2 = c2
    c3 = c3
    Callers = {c1, c2, c3}
    RefOf <- MCRefOf
    Ids = {"id1", "id2"}
    Commands = {c1, c2}
    Releases = {d1}
    Analyses = {c1, c2}
    PluginCalls = {c1, c2}
    Names = {n1, n2, n3}
    MaxChanges = 1
    MaxLinks = 1
    MaxLookups = 5
    MaxFiles = 2
    None = None
INVARIANTS OneIdentity MetadataIsReported RevocationSticks EnginesAreOwned ReadsAgree CallsAreIsolated NoTempLeft
PROPERTIES LookupsAreShared EveryLookupReturns FirstWriteAfterAllChecks NoLostEdit
CHECK_DEADLOCK FALSE
