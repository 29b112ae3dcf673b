SPECIFICATION Spec
CONSTANTS
    Worlds <- AllWorlds
    Unfit = {"fips", "ros"}
    BlockDisable <- MoveWorlds
    ContractMoves <- MoveWorlds
    ReleaseMoves <- MoveWorlds
    Crashes <- StillWorlds
    Boots <- MoveWorlds
INVARIANTS
    TypeOK
    StandTogether
    DetachLeavesNothing
    PackagesHaveSource
PROPERTIES
    RefreshMovesSources
    UpgradeLeavesApplicable
    BootRestoresFips
CHECK_DEADLOCK FALSE
