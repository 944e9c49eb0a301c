\* The answer of execute_code and the capture race.
SPECIFICATION Spec
CONSTANTS
    None = None
    Tools = {t1}
    Configs = {c1}
    Scripts = {e1}
    Hooks = {h1}
    MaxToolCalls = 1
    Ages = TRUE
    Stdio = TRUE
SYMMETRY Symmetry
INVARIANT NextSearchShows
