SPECIFICATION ScreeningSpec
CONSTANTS
    DayShapes <- MCDayShapes
    MaxDays = 3
    MaxTrades = 3
    Window = 2
    OrBars = 1
    Rules <- MCRules
    HoldoutDay = 3
    MinSample = 1
    MinLift = 10
    MinZ2 = 150
    MaxOverlap = 70
    Lessons = {"as predicted"}
    MaxScreens = 2
    MaxVerdicts = 2
    None = None
INVARIANTS
    NoLookAhead
    HoldoutStaysUnseen
CHECK_DEADLOCK FALSE
