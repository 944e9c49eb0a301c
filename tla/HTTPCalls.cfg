SPECIFICATION FairSpec
CONSTANTS
    None = None
    Callers = {c1, c2}
    Sessions = {s1, s2, s3}
    Cold = FALSE
    Lossy = TRUE
INVARIANT TypeOK
INVARIANT ExecutedOnce
INVARIANT RecoversUndisturbed
PROPERTY CallReturns
