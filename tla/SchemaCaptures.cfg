SPECIFICATION FairSpec
CONSTANTS
    None = None
    Tools = {t1, t2}
    Configs = {c1, c2}
    Scripts = {e1}
    Hooks = {h1, h2}
    MaxToolCalls = 1
    Ages = TRUE
    Stdio = TRUE
INVARIANT TypeOK
INVARIANT SchemasHaveServer
INVARIANT Announced
INVARIANT ForeignOnlyWhenLate
PROPERTY Captured
