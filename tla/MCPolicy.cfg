SPECIFICATION SpecPolicy
CONSTANTS
    Calls = {c1, c2}
    None = None
    Policies = {"on", "off"}
    Early = TRUE
    Batches = TRUE
    Expiring = FALSE
    MaxVersion = 1
    MaxLog = 3
    Nodes = {n1, n2}
    Admins = {a1, a2}
    plain = plain  fancy = fancy
    DesiredPolicies = {plain, fancy}
    Malformed = {bad}
    Supported <- MCSupported
    MaxGeneration = 1
    MaxRetries = 1
    MaxFaults = 1
INVARIANTS
    DecidedOnce
    OnePolicyPerGeneration
PROPERTIES
    CommitsUseNewestPolicy
CHECK_DEADLOCK FALSE
