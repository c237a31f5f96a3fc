SPECIFICATION SpecSimulator
CONSTANTS
    Jitter = {1, 2}
    Durations = {0, 2}
    BarrierSize = 2
    MaxIterations = 7
    MaxTasks = 3
    MaxArrivals = 5
    MaxRuns = 2
    MaxSleepIterations = 5
CHECK_DEADLOCK FALSE
INVARIANTS
    TasksGetOn
    SleepsFireInOrder
