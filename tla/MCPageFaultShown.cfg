SPECIFICATION Spec
CONSTANTS
    WORD = 131072
    PAGE_SIZE = 4096
    TASK_CODE_VIRTUAL = 32768
    TASK_SHARED_PAGE = 45056
    FLAT_SEGM_SIZE = 120000
    Addresses <- MCAddresses
    Calls <- MCCalls
INVARIANTS PageFaultShown
