SPECIFICATION Spec
CONSTANTS
    Buses = {b1}
    Counts = {0, 2}
    Starts = {0, 2}
    DefaultTail = 1
    MaxPage = 2
    MaxLog = 2
INVARIANT RefusedLineDoesNothing
CHECK_DEADLOCK FALSE
