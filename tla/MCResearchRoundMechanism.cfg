SPECIFICATION FairSpec
CONSTANTS
    MaxRounds = 2
    MaxRetries = 1
    MaxStage1 = 3
    MaxCompile = 1
    MaxLaunches = 1
    MaxCrashes = 0
    MaxReruns = 0
INVARIANT
    RecordedMechanismContinues
CHECK_DEADLOCK FALSE
