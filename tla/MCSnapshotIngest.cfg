SPECIFICATION FairSpec
CONSTANTS
    Pools = {"pool"}
    Tokens = {"token"}
    Levels <- MCLevels
    RuleTables <- MCRuleTables
    DefaultThreshold = 50
    Malformed = Malformed
    MaxCycles = 3
    MaxFaults = 2
INVARIANTS
    TypeOK
    NoDropMissed
    AlertsStoredUnlessAborted
    DropAlertedOnce
PROPERTIES
    AllOrNothing
    CycleEnds
