SPECIFICATION BackendFairSpec
CONSTANTS
    boot = boot
    halt = halt
    r1 = r1
    p1 = p1
    p2 = p2
    Job = {boot, halt, r1}
    Boot = boot
    Halt = halt
    Proc = {p1, p2}
    NoProc = NoProc
    MaxMutations = 2
    Overlap = FALSE
    Stubborn = {}
    Faults = {"query", "write", "spawn", "crash", "which"}
INVARIANT BackendTypeOK
INVARIANT ExitAwaitsStop
INVARIANT CalmExitLeavesNoChild
PROPERTY ShutdownCompletes
CHECK_DEADLOCK FALSE
