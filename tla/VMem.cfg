SPECIFICATION Spec
CONSTANTS
    Harts <- TwoHarts
    PAGE_SIZE = 2
    LEVELS = 3
    W = 2
    ADDRESSES = 128
    RamPages = 15
    Pool <- Ram
    VmRoot <- StaticRoots
    KernelRegions <- Kernel
    Configs <- AllConfigs
INVARIANTS
    TypeOK
    Isolated
    MappedExactly
    ConvertFinds
PROPERTY
    EntriesStay
CHECK_DEADLOCK FALSE
