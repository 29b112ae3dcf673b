SPECIFICATION Spec
CONSTANTS
    Intervals = 2
    MaxReboots = 1
    Settings <- Machines
    LastDay = 3
    Soon = 1
    Grace = 1
    Ping = 2
    MaxAttempts = 6
    Tolerated = 3
    LastRelease = 2
    Cloud = "aws"
    Variants = {"hwe", "nvidia"}
    NoVariant = NoVariant
    Entitlements <- Documents
    Packages <- Names
    Offered <- Origin
    Kernels = {"ga", "kfips"}
    Meta = "meta"
    Brings = {"kfips"}
    Wanted <- Conditions
    Needs <- Dependence
    Required = {"tool"}
    Removed = {"tool"}
    Snaps = {}
    AutoUpgrade = {TRUE, FALSE}
    Before <- Earlier
INVARIANTS
    NoFalseAlarm
    CountedAttempts
    ToldTheTruth
    TermsInForce
    SameForEveryone
    DeltasTell
    KernelRemains
    EndsAsAgreed
PROPERTIES
    RetryEnds
    PollNotices
    WaitEnds
    JobsInTime
CHECK_DEADLOCK FALSE
