SPECIFICATION Spec
CONSTANTS
    Pools = {"pool"}
    Tokens = {"token"}
    Levels <- MCLevels
    RuleTables <- MCRuleTables
    DefaultThreshold = 50
    Malformed = Malformed
    MaxCycles = 3
    MaxFaults = 1
INVARIANT
    AlertsAreStored
