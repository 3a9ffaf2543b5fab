SPECIFICATION Spec
CONSTANTS
    Harts = {h0, h1}
    PAGE_SIZE = 4
    dynamic = 6
    DTB_MEMORY_END = 20
    JUNK = JUNK
INVARIANTS
    TypeOK
    NoSharing
    NothingLost
    ReturnedClean
PROPERTY
    ImplementsAllocator
CHECK_DEADLOCK FALSE
