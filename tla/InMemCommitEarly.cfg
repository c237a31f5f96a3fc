SPECIFICATION Spec
CONSTANTS
    Calls = {c1, c2}
    None = None
    Policies = {"on"}
    Early = TRUE
    Batches = FALSE
    Expiring = FALSE
    MaxVersion = 1
    MaxLog = 1
PROPERTIES
    AdoptsNewer
