CONSTANTS
  None = None
  Lead = lead
  Peer = peer
  Followers = {f}
  Transports = {"sse", "ws"}
  Capacity = 2
  Limit = 2
  MaxSeq = 5
  MaxEpoch = 2
SPECIFICATION ServicesSpec
CHECK_DEADLOCK FALSE
INVARIANTS
  FollowsTheJournal
PROPERTIES
  
  WorkGoesOn
