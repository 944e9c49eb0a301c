\* Four executions, two slots, runtimes that cannot be created, contexts
\* that end, and a Close at any time.
SPECIFICATION FairSpec
CONSTANTS
    None = None
    Callers = {e1, e2, e3, e4}
    Runtimes = {r1, r2, r3}
    Size = 2
CHECK_DEADLOCK FALSE
INVARIANT TypeOK
INVARIANT SlotsConserved
INVARIANT RuntimesAccounted
INVARIANT NeverReused
PROPERTY ParallelLimit
PROPERTY Served
