SPECIFICATION Spec
CONSTANTS
    None = None
    Names = {n1}
    Configs = {c1}
    Transports = {t1, t2, t3}
    Handlers = {h1}
    Watchers = {w1}
    Peers = {}
SYMMETRY Symmetry
INVARIANT NoLeak
