SPECIFICATION Spec
CONSTANTS
    NHarts = 1
    config <- TwoDevices
    Sources = {1, 10}
    MaxPriority = 1
    GuestOffsets <- Offsets
    GuestWords = {0, 1, 2, 10, 1024}
INVARIANT
    ClaimedIsPresented
CHECK_DEADLOCK FALSE
