SPECIFICATION FairSpec
CONSTANTS
    None = None
    Names = {n1}
    Configs = {c1}
    Transports = {t1, t2, t3, t4}
    Handlers = {h1, h2}
    Watchers = {w1}
    Peers = {p1}
INVARIANT TypeOK
INVARIANT Ownership
PROPERTY LostOnlyByAdd
PROPERTY NamesConverge
