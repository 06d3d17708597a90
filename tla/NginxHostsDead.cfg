SPECIFICATION Spec
CONSTANTS
    Host = {1, 2}
    Proxy = {1}
    Dead = {2}
    Site = {}
    Handler = {h1, h2}
    Config = {good, better, bad}
    Broken = {bad}
    NoFile = NoFile
    Empty = Empty
    LateErase = FALSE
    MaxRequests = 3
SYMMETRY Symmetry
INVARIANT RecreatesConfig
CHECK_DEADLOCK FALSE
