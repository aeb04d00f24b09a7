SPECIFICATION Spec
CONSTANTS
    VIDEO_FILS = 2
    VIDEO_COLS = 3
    Uses <- MCUses
    BootFlags = {TRUE}
INVARIANTS FlagsFollowKeys FlagsInSight MarkerAtCursor
PROPERTIES FlagsCatchUp ImplementsPage
