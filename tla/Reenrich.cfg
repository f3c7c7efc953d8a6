SPECIFICATION OfflineSpec
CONSTANTS
    Null = Null
    Supplies <- MCSupplies
    MinSupport = 2
    Threshold = 60
    MatchAt = 60
    Replicates = 2
    MaxScore = 10
    MinUnits = 2
    NIMargin = 1
    MinDirectional = 2
    Candidate = "cheap"
    Percents = {1, 99}
INVARIANTS
    ReenrichReachesEveryRow
CHECK_DEADLOCK FALSE
