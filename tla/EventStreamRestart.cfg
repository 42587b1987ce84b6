CONSTANTS
  Followers = {f}
  Transports = {"sse", "ws"}
  Capacity = 2
  Limit = 2
  MaxSeq = 3
  MaxEpoch = 2
SPECIFICATION Spec
CHECK_DEADLOCK FALSE
INVARIANTS
  RestartIsAnnounced
