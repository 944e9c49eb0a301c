SPECIFICATION Spec
CONSTANTS
    None = None
    Callers = {c1}
    Sessions = {s1, s2, s3}
    Cold = TRUE
    Lossy = FALSE
INVARIANT Recovers
