SPECIFICATION FairSpec
CONSTANTS
    Requests = {"r1", "r2"}
    Servers = {"s1", "s2"}
    ServerOf <- MCServerOf
    TTL = 2
    MaxTime = 3
    MaxChanges = 1
    MaxLate = 1
    NoEntry = NoEntry
    NoAnswer = NoAnswer
INVARIANTS
    TypeOK
    AnswersFresh
PROPERTIES
    EveryRequestEnds
