SPECIFICATION Spec
CONSTANTS
    Harts <- TwoHarts
    Bars <- AllBars
    Configs <- AllConfigs
    MaxVms = 2
INVARIANTS
    TypeOK
    NoBootFault
    GuestsOnReadyTables
    OneBuilder
    RefusedConfigStops
PROPERTY
    AllGuestsRun
CHECK_DEADLOCK FALSE
