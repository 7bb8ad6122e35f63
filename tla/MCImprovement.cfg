SPECIFICATION FairSpec
CONSTANTS
    ema = ema
    orb = orb
    None = None
    Families <- MCFamilies
    FlagSets <- MCFlagSets
    Suites <- MCSuites
    Repeat = 2
    Interval = 2
    FirstRound <- MCRound
    LastRound <- MCRound
    CliResults <- MCCliResults
    Bounds <- MCBounds
INVARIANTS
    KeepIsEarned
    MemoriesMatchRounds
PROPERTIES
    ReleasesAreOwn
    HooksEnd
CHECK_DEADLOCK FALSE
