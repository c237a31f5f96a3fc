SPECIFICATION SpecStorage
CONSTANTS
    d1 = d1  d2 = d2  d3 = d3  c1 = c1  c2 = c2  p1 = p1  p2 = p2
    k1 = k1  k2 = k2  k3 = k3
    Drives = {d1, d2, d3}
    Conns = {c1, c2}
    ConnOf <- MCConnOf
    Processes = {p1, p2}
    ProcessOf <- MCProcessOf
    Bus = Bus
    Free = Free
    Last = 1
    MaxRetries = 1
    MaxFaults = 1
    Clients = {w1, w2}
    Size = 3
    SpaceTtl = 2
    MaxSpaceWrites = 3
    MaxSpaceClock = 3
    MaxLost = 2
    Tasks = {t1, t2}
    Keys = {k1, k2, k3}
    CheckpointTtl = 1
    MaxCheckpoints = 2
    MaxCheckpointBytes = 3
    CheckpointSizes = {1, 2, 4}
    MaxCheckpointSize = 3
    MaxPuts = 3
    MaxTime = 2
    Clones = {w1, w2}
    CachedPlaces = {k1, k2, k3}
    ValueTtl = 2
    MaxValues = 2
    MaxValueBytes = 3
    MaxValueSize = 3
    ValueSizes = {1, 2, 4}
    MaxStores = 3
    MaxTicks = 4
SYMMETRY Symmetry
INVARIANTS
    FoldedInOrder
    AnswersAreTrue
    CachesServeStored
    CachesWithinLimits
PROPERTIES
    ImplementsStorage
CHECK_DEADLOCK FALSE
