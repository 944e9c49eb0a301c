SPECIFICATION TimedSpec
CONSTANTS
    None = None
    Lists = {}
    Others = {c1, c2}
    Closers = {}
    PipeSize = 1
    LineBound = 1
    OwnIds = {1}
CHECK_DEADLOCK FALSE
PROPERTY CallsEnd
