SPECIFICATION Spec
CONSTANTS
    s1 = s1
    s2 = s2
    s3 = s3
    shaA = shaA
    shaB = shaB
    None = None
    Sessions <- MCSessions
    Shas <- MCShas
    Deps <- MCDeps
    Overlap = FALSE
    Forced = FALSE
SYMMETRY MCSymmetry
INVARIANTS
    OneController
    CheckedOutReleasesAreWhole
    ControllerRunsItsLaunch
CHECK_DEADLOCK FALSE
