SPECIFICATION Spec
CONSTANTS
    NHarts = 3
    config <- TwoVms
    Sources = {2, 33}
    MaxPriority = 1
    GuestOffsets <- TwoVmsOffsets
    GuestWords = {1, 10, 1024}
INVARIANTS
    TypeOK
    ContextsIsolated
    ClaimedIsHeld
    ClaimedIsPresented
    NoSpuriousVSEIP
PROPERTIES
    OthersUntouched
    LoadsIsolated
CHECK_DEADLOCK FALSE
