SPECIFICATION Spec
CONSTANTS
    base = base
    c1 = c1
    k1 = k1
    k2 = k2
    None = None
    Base <- base
    Changed <- MCChanged
    Commits <- MCCommits
    Outcomes <- MCOutcomes
    MaxJobs = 2
    MaxRounds = 2
    MaxRuns = 4
    MaxDeaths = 1
    MaxDeploys = 1
INVARIANTS
    AcceptedRunsImprove
    CheckpointsAreStored
PROPERTIES
    OnlyRerunsLowerTheBest
CHECK_DEADLOCK FALSE
