SPECIFICATION FairSpec
CONSTANTS
    None = None
    Names = {n1}
    Configs = {c1, c2}
    Transports = {t1, t2, t3}
    Handlers = {}
    Watchers = {w1}
    Peers = {p1}
PROPERTY EndpointsConverge
