SPECIFICATION Spec
CONSTANTS
    Harts = {h0, h1}
    Bars = {bar}
    Bar = bar
    MaxRounds = 1
PROPERTIES
    BarrierProgress
CHECK_DEADLOCK FALSE

