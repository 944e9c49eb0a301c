\* --schema-ttl 0.
SPECIFICATION Spec
CONSTANTS
    None = None
    Tools = {t1}
    Configs = {c1}
    Scripts = {e1}
    Hooks = {h1}
    MaxToolCalls = 1
    Ages = FALSE
    Stdio = TRUE
SYMMETRY Symmetry
INVARIANT InferredOnce
