SPECIFICATION Spec
CONSTANTS
    BITS = 2
    HEX = 4
    Harts = {0, 1}
    Programs <- MCPrograms
INVARIANTS
    TypeOK
    CallsContiguous
    CallsPrinted
PROPERTIES
    CallsEnd
CHECK_DEADLOCK FALSE
