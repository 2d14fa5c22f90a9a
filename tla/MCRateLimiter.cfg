SPECIFICATION Spec
CONSTANTS
    Clients = {"c1", "c2"}
    Workers = {"w1", "w2"}
    Rates <- MCRates
    Burst = 2
    Cost = 3
    SweepSize = 1
    SweepAge = 3
    MaxTime = 5
    NoBucket = NoBucket
    NoRequest = NoRequest
INVARIANTS
    TypeOK
    WindowBound
PROPERTIES
    RefusedOnlyAtLimit
