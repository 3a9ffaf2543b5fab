SPECIFICATION Spec
CONSTANTS
    Harts = {h0, h1}
    Bars = {bar}
    Bar = bar
    MaxRounds = 4
INVARIANTS
    TypeOK
    LockExclusive
    BarrierSafe
    NoLapping
PROPERTIES
    ProgressIfSingleLast
CHECK_DEADLOCK FALSE

