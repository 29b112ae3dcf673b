SPECIFICATION FixSpec
CONSTANTS
    Sources <- Src
    Binaries <- Bin
    SourceOf <- BuiltFrom
    Requests <- SmallRequests
    Machines <- ValidMachines
    MaxOthers = 1
INVARIANTS
    ValidContractPlanned
CHECK_DEADLOCK FALSE
