SPECIFICATION Spec
CONSTANTS
    Callers = {c1, c2}
    None = None
INVARIANTS ErrorOnEveryLookup
CHECK_DEADLOCK FALSE
