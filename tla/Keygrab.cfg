SPECIFICATION KSpec
CONSTANTS
    NHarts = 2
    config <- TwoVms
    Sources = {10, 33}
    MaxPriority = 1
    GuestOffsets <- Offsets
    GuestWords = {0, 11}
    MaxKeys <- Keys
INVARIANTS
    KTypeOK
    EchoInOrder
    NothingSpurious
PROPERTIES
    KeysEchoed
CHECK_DEADLOCK FALSE
