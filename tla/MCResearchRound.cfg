SPECIFICATION FairSpec
CONSTANTS
    MaxRounds = 1
    MaxRetries = 3
    MaxStage1 = 3
    MaxCompile = 1
    MaxLaunches = 1
    MaxCrashes = 1
    MaxReruns = 1
INVARIANTS
    CompiledRoundHasSelectedAttempt
    FailuresLeaveTrace
    FactorIdsAreFresh
PROPERTIES
    KeepsLedger
    RoundEnds
CHECK_DEADLOCK FALSE
