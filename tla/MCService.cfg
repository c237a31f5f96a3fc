SPECIFICATION SpecService
CONSTANTS
    Calls = {c1, c2, c3}
    Frontend = "bus"
    Remote = TRUE
    MaxFaults = 1
    Queued = {c1, c2, c3}
    Buses = {b1, b2}
    MaxCached = 1
    Wrapped = {n1, n2}
    Layers = {"agent_bus", "write_once_space", "storage", "applicator", "commit_service"}
    Nodes = {n1, n2}
    Admins = {a1}
    plain = plain
    None = None
INVARIANTS
    CallersToldTheTruth
    ErrorsKeepTheirClass
    CommitsInTurn
    BooksBalance
PROPERTIES
    CallersGetAnswers
CHECK_DEADLOCK FALSE
