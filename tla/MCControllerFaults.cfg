SPECIFICATION Spec
CONSTANTS
    c1 = c1
    c2 = c2
    Commits <- TwoCommits
    NoCommit = NoCommit
    MaxRounds = 1
    PlateauRounds = 1
    MaxLaunches = 3
    MaxCrashes = 1
    MaxDeploys = 1
    MaxLosses = 1
INVARIANTS
    Consistent
    ResearchOnCurrentCommit
PROPERTIES
    FreshJobIsUnused
\* The controller is started by an operator; when launches run out it stays idle.
CHECK_DEADLOCK FALSE
