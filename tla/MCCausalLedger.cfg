SPECIFICATION FairSpec
CONSTANTS
    x = x
    y = y
    NoRule = NoRule
    Rules <- MCRules
    MaxJobs = 2
    MaxRounds = 2
    Predictions = 2
    Windows = 2
    SurvivalPct = 60
    MaxCrashes = 1
INVARIANTS
    FactorsAreDistinct
    VerdictIsCredited
    CreditIsRecorded
PROPERTIES
    ThesisIsSettled
CHECK_DEADLOCK FALSE
