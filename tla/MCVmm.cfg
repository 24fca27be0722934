SPECIFICATION Spec
CONSTANTS
    Pages = 32
    PageSize = 16
    UserPages = 10
    KernelStart = 12
    ADDR_SPACE <- Regions
    StackPages = 2
    UserStack <- Stack
    ElfPages <- Segments
    MaxLoads = 3
    MaxTasks = 3
INVARIANTS
    FreeBlocksExact
    LookupExact
    KernelMapsInKernelHalf
