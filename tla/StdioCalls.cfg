SPECIFICATION Spec
CONSTANTS
    None = None
    Lists = {l1}
    Others = {c1}
    Closers = {k1}
    PipeSize = 1
    LineBound = 1
    OwnIds = {0, 1, 2}
CHECK_DEADLOCK FALSE
INVARIANT TypeOK
INVARIANT OwnAnswer
