SPECIFICATION Spec
CONSTANTS
    Writers = {w1}
    Refs = {a}
    MaxRev = 1
    MaxEdits = 0
    MayCrash = FALSE
    Free = Free
    Editor = Editor
    NoFile = NoFile
    Undeclared = Undeclared
INVARIANTS RollsBackUnwrittenManifest
