SPECIFICATION Spec
CONSTANTS
    Host = {1, 2, 3, 4}
    Proxy = {1}
    Dead = {2}
    Site = {4}
    Handler = {h1, h2}
    Config = {good, better, bad}
    Broken = {bad}
    NoFile = NoFile
    Empty = Empty
    LateErase = FALSE
    MaxRequests = 3
SYMMETRY Symmetry
INVARIANT TypeOK
INVARIANT AnswerHolds
INVARIANT ServesFiles
PROPERTY BrokenHasOwner
CHECK_DEADLOCK FALSE
