SPECIFICATION Spec
CONSTANTS
    None = None
    Lists = {}
    Others = {c1}
    Closers = {k1}
    PipeSize = 1
    LineBound = 1
    OwnIds = {1}
CHECK_DEADLOCK FALSE
INVARIANT OnlyResponses
