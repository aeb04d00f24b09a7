SPECIFICATION FairSpec
CONSTANTS
    MAX_TASKS = 4
    NullSelector = 0
    IdleSelector = 96
    GDT_COUNT = 35
    WORD = 4
    BootCounts = {0, 1, 4, 5}
    BootMemory = {0, 3}
    Selectors <- MCSelectors
INVARIANTS
    IInv
    ContextIntegrity
    TickAccounting
    SharedTaskIdFresh
    ScancodeAnnounced
PROPERTIES
    ImplementsRoundRobin
    TasksRunForever
    ScancodesRead
