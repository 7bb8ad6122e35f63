SPECIFICATION BuilderFairSpec
CONSTANTS
    t1 = t1
    t2 = t2
    Nothing = Nothing
    Theses <- MCTheses
    RetryLimit = 1
    MaxBuilds = 3
INVARIANTS
    CompletedIsBuilt
    ImplementationIsOnRecord
    OwnGoodWorkCompletes
PROPERTIES
    BuildEnds
CHECK_DEADLOCK FALSE
