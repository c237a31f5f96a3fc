SPECIFICATION SpecLocal
CONSTANTS
    Daemons = {d1, d2, d3}
    Others = {o1}
    None = None
    MaxCrashes = 2
    MaxPolicy = 1
    Hooks = {h1, h2}
    Inputs <- MCInputs
INVARIANTS
    ServedSocketReachable
    ReportsAreTrue
PROPERTIES
    KeepsToItsOwn
    FailuresPass
