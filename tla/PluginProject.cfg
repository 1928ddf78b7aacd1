SPECIFICATION Spec
CONSTANTS
    Writers = {w1, w2}
    Refs = {a}
    MaxRev = 2
    MaxEdits = 1
    MayCrash = TRUE
    Free = Free
    Editor = Editor
    NoFile = NoFile
    Undeclared = Undeclared
SYMMETRY Symmetry
INVARIANTS FailedSaveLeavesNoTrace
PROPERTIES NoLostUpdate SavesAreAtomic
