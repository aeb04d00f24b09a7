SPECIFICATION FairSpec
CONSTANTS
    MAX_TASKS = 4
    Selectors = {s1, s2}
    NullSelector = null
    IdleSelector = idle
INVARIANTS
    IInv
    BoundedWait
PROPERTIES
    RegistrationsKept
    NoStarvation
    ImplementsRoundRobin
