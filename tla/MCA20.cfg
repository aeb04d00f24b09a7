SPECIFICATION Spec
CONSTANTS
    Bytes = {0, 7, 255}
    LeftOpen = {TRUE, FALSE}
INVARIANTS A20Open
