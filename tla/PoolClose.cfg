SPECIFICATION Spec
CONSTANTS
    None = None
    Callers = {e1, e2}
    Runtimes = {r1, r2}
    Size = 1
CHECK_DEADLOCK FALSE
PROPERTY CloseIsAlone
