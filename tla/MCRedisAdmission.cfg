CONSTANTS
  Scopes <- MCScopes
  Counters <- MCCounters
  CountersOf <- MCCountersOf
  Limit <- MCLimit
  Tokens = {k1, k2, k3}
  Ttl = 2
  MaxTime = 5
SPECIFICATION Spec
SYMMETRY Symmetry
CHECK_DEADLOCK FALSE
INVARIANTS
  WithinLimits
  CountedEverywhereOrNowhere
PROPERTIES
  LapsedStaysLapsed
