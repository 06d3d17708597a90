SPECIFICATION BackendSpec
CONSTANTS
    boot = boot
    halt = halt
    r1 = r1
    p1 = p1
    p2 = p2
    Job = {boot, halt, r1}
    Boot = boot
    Halt = halt
    Proc = {p1, p2}
    NoProc = NoProc
    MaxMutations = 1
    Overlap = FALSE
    Stubborn = {}
    Faults = {}
INVARIANT ExitLeavesNoChild
CHECK_DEADLOCK FALSE
