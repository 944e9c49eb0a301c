SPECIFICATION Spec
CONSTANTS
    None = None
    Names = {n1, n2}
    Configs = {c1, c2}
    Transports = {t1, t2, t3, t4}
    Handlers = {h1, h2}
    Watchers = {}
    Peers = {}
SYMMETRY Symmetry
INVARIANT NoLeak
INVARIANT MemoryInStore
INVARIANT ToolsAreCurrent
PROPERTY StrandedOnlyByFailure
