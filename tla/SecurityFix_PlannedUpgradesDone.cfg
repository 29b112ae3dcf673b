SPECIFICATION FixSpec
CONSTANTS
    Sources <- Src
    Binaries <- Bin
    SourceOf <- BuiltFrom
    Requests <- SmallRequests
    Machines <- AttachedMachines
    MaxOthers = 1
INVARIANTS
    PlannedUpgradesDone
CHECK_DEADLOCK FALSE
