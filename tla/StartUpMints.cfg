SPECIFICATION Spec
CONSTANTS
    None = None
    Plain = Plain
    Torn = Torn
    Procs = {p1, p2}
    Names = {n1}
    Fragile = {n1}
    Keys = {k1, k2}
    Tokens = {t1, t2}
PROPERTY MintsOnce
