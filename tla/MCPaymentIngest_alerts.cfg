SPECIFICATION Spec
CONSTANTS
    Ingesters = {"p1"}
    Assets <- MCAssets
    Payments <- MCFewPayments
    Thresholds <- MCThresholds
    DefaultThreshold = 2
    NoCursor = NoCursor
    NoAmount = NoAmount
    PageSize = 1
    MaxPages = 2
    MaxPayments = 3
    MaxFaults = 1
INVARIANT
    StoredWhalesAlerted
