SPECIFICATION Spec
CONSTANTS
    NoToken = NoToken
    NoProc = NoProc
    OldToken = OldToken
    p1 = p1
    p2 = p2
    p3 = p3
    p4 = p4
    Procs = {p1, p2, p3}
    Worlds <- MeteringWorlds
    Expiring = FALSE
    SystemctlFails = FALSE
PROPERTY OnlyAttachAttaches
CHECK_DEADLOCK FALSE
