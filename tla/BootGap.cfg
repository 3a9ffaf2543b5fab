SPECIFICATION Spec
CONSTANTS
    Harts <- TwoHarts
    Bars <- AllBars
    Configs <- AllConfigs
    MaxVms = 2
INVARIANT
    NoWay
CHECK_DEADLOCK FALSE
