SPECIFICATION SpecEngine
CONSTANTS
  v1 = v1  c1 = c1  c2 = c2  c3 = c3  d1 = d1  d2 = d2  k1 = k1  k2 = k2
  VoterIds = {v1}
  Configs = {c1, c2, c3}
  Absent = Absent
  Keep = Keep
  Remove = Remove
  Missing = Missing
  Unrecognized = Unrecognized
  NumVersions = 6
  PolicyOf <- Revisions
  MaxLog = 7
  Drives = {d1, d2}
  Creators = {k1, k2}
  Kinds = {"string", "group"}
  Supported <- SupportedConfigs
  ExternalEntries <- FromOthers
  MaxExternal = 3
  MaxFaults = 1
  MaxRetries = 1
SYMMETRY Symmetry
CHECK_DEADLOCK FALSE
INVARIANTS
  TypeOK
  CheckpointIsReplay
  DecisionsFollowLog
  CheckpointedVerdictsLogged
  OutcomeIsFirstDecision
  PolicyFaithful
  SingleCasRetrySuffices
  PlaybackStopsForCause
PROPERTIES
  CheckpointAdvances
