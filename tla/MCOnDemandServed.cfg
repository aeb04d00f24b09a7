CONSTANTS
    ENTRIES = 19
    Tasks <- MCTasks
    CodeStart <- MCCodeStart
    KERNEL_PAGE_DIR = 1
    KERNEL_PAGE_TABLE_0 = 2
    SHARED = 7
    FIRST_KERNEL_PAGE = 8
    FIRST_USER_PAGE = 19
    TASK_CODE_VIRTUAL = 76
    TASK_SHARED_PAGE = 79
    ON_DEMAND_MEM_START_VIRTUAL = 57
    ON_DEMAND_MEM_START_PHYSICAL = 30
    DST_VIRT_PAGE = 40
    SRC_VIRT_PAGE = 41
    CopyPages = {19, 20}
    BootMemories <- MCBootMemories
    TLB_SIZE = 1
SPECIFICATION Spec
PROPERTY OnDemandServed
