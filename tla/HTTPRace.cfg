SPECIFICATION Spec
CONSTANTS
    None = None
    Callers = {c1, c2}
    Sessions = {s1, s2, s3, s4}
    Cold = FALSE
    Lossy = FALSE
INVARIANT Recovers
