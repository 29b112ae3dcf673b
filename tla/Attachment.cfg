SPECIFICATION Spec
CONSTANTS
    NoToken = NoToken
    NoProc = NoProc
    OldToken = OldToken
    p1 = p1
    p2 = p2
    p3 = p3
    p4 = p4
    Procs = {p1, p2, p3, p4}
    Worlds <- CalmWorlds
    Expiring = TRUE
    SystemctlFails = FALSE
INVARIANTS
    PublicImpliesPrivate
    QuiescentConsistent
    DetachDetaches
PROPERTIES
    SubscriptionSpec
CHECK_DEADLOCK FALSE
