SPECIFICATION FairSpec
CONSTANTS
    Ingesters = {"p1"}
    Assets <- MCAssets
    Payments <- MCPayments
    Thresholds <- MCThresholds
    DefaultThreshold = 2
    NoCursor = NoCursor
    NoAmount = NoAmount
    PageSize = 1
    MaxPages = 2
    MaxPayments = 4
    MaxFaults = 2
INVARIANTS
    TypeOK
    NoWhaleMissed
    NoDuplicateWhale
    NoFalseWhale
    AlertsFollowRows
PROPERTIES
    CursorNeverRetreats
    ImplementsFeed
    EveryWhaleStored
    StoredThenAlerted
