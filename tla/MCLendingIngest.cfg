SPECIFICATION FairSpec
\* A panic stops the process for good once its MaxFaults restarts are used up.
CHECK_DEADLOCK FALSE
CONSTANTS
    Accounts = {"alice", "bob"}
    Assets <- MCAssets
    Payloads <- MCPayloads
    Price <- MCPrice
    RuleTables <- MCRuleTables
    NoCursor = NoCursor
    NoAsset = NoAsset
    NoPrice = NoPrice
    PageLimit = 1
    MaxPages = 2
    Lookback = 1
    MaxEvents = 3
    MaxFaults = 1
INVARIANTS
    TypeOK
    NoEventSkipped
    PositionsAreTrue
    AlertsAreCrossings
    BandsOfNewest
PROPERTIES
    EveryEventPassed
