SPECIFICATION FairSpecProgress
CONSTANTS
  v1 = v1  c1 = c1  d1 = d1  d2 = d2
  VoterIds = {v1}
  Configs = {c1}
  Absent = Absent
  Keep = Keep
  Remove = Remove
  Missing = Missing
  Unrecognized = Unrecognized
  NumVersions = 1
  PolicyOf <- OnlyAsync
  MaxLog = 9
  Drives = {d1, d2}
  Creators = {}
  Kinds = {"group"}
  Supported <- AllSupported
  ExternalEntries <- OneVote
  MaxExternal = 1
  MaxFaults = 0
  MaxRetries = 1
CHECK_DEADLOCK FALSE
PROPERTIES
  ProposalsReturn
  DrivesEnd
