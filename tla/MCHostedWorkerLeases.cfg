CONSTANTS
  Sessions = {s}
  Turns = {t1, t2}
  Keys = {k1, k2}
  Payloads = {p}
  Workers = {w1, w2}
  LeaseLengths = {3}
  ReapLimit = 2
  TxnAge = 0
  MaxTime = 4
  None = None
  Tokens = {a1, a2}
  Capacity = 1
  Ttl = 2
  Heartbeat = 1
  Timely = TRUE
  FaultsUntil = 1
SPECIFICATION WSpec
SYMMETRY Symmetry
CHECK_DEADLOCK FALSE
INVARIANTS
  ExecutesOnlyWhileLeased
