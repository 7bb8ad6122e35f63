SPECIFICATION FairSpec
CONSTANTS
    c1 = c1
    c2 = c2
    Commits <- OneCommit
    NoCommit = NoCommit
    MaxRounds = 2
    PlateauRounds = 1
    MaxLaunches = 2
    MaxCrashes = 1
    MaxDeploys = 0
    MaxLosses = 0
INVARIANTS
    WritesAreLegal
    BaselineFirst
    NoStrandedJob
    RoundsAreOnRecord
PROPERTIES
    LaunchTerminates
\* The controller is started by an operator; when launches run out it stays idle.
CHECK_DEADLOCK FALSE
