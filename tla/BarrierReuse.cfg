SPECIFICATION Spec
CONSTANTS
    Harts = {h0, h1, h2}
    Bars = {bar}
    Bar = bar
    MaxRounds = 2
INVARIANTS
    BarrierSafe
CHECK_DEADLOCK FALSE
SYMMETRY HartSymmetry
