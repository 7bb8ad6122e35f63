SPECIFICATION Spec
CONSTANTS
    Unit = 2
    MaxPrice = 4
    Slippage = 0
    MaxHold = 2
    OrBars = 1
    Configs <- MCConfigs
    None = None
INVARIANTS
    FlatOvernight
    LossIsBounded
    InvertedTradesEnd
    FillsAreInBar
CHECK_DEADLOCK FALSE
