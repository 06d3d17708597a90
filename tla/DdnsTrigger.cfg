SPECIFICATION FairSpec
CONSTANTS
    Call = {c1, c2}
    Row = {1, 2}
    MaxTime = 1
    SameInstant = FALSE
    Faults = {"write", "spawn"}
INVARIANT TypeOK
INVARIANT ChildFindsConfig
INVARIANT NothingLeft
PROPERTY TriggerAnswers
