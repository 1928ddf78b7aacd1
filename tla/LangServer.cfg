SPECIFICATION Spec
CONSTANTS
    u1 = u1
    u2 = u2
    alias = alias
    Absent = Absent
    Cleared = Cleared
    PathOf <- MCPathOf
    FileURI <- MCFileURI
    Paths = {1, 2}
    Uris = {u1, u2}
    Texts = {t1}
    MaxVersion = 2
    MaxMessages = 4
    Closable = TRUE
INVARIANTS CodeActionsCurrent ListsCanBeCleared
PROPERTIES PublishesCurrent
