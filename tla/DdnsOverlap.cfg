SPECIFICATION FairSpec
CONSTANTS
    boot = boot
    halt = halt
    r1 = r1
    r2 = r2
    p1 = p1
    p2 = p2
    p3 = p3
    Job = {boot, halt, r1, r2}
    Boot = boot
    Halt = halt
    Proc = {p1, p2, p3}
    NoProc = NoProc
    MaxMutations = 3
    Overlap = TRUE
    Stubborn = {}
    Faults = {"query", "write", "spawn", "crash", "which"}
INVARIANT StopsAwaitTheirOwnProcess
INVARIANT CurrentIsUnsignalled
INVARIANT NoLostReload
PROPERTY EventuallyRead
CHECK_DEADLOCK FALSE
