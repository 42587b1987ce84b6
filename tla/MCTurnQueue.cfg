CONSTANTS
  Sessions = {s1, s2}
  Turns = {t1, t2}
  Keys = {k1, k2}
  Payloads = {p1, p2}
  Workers = {w1, w2}
  LeaseLengths = {1, 2}
  ReapLimit = 2
  TxnAge = 1
  MaxTime = 3
  None = None
SPECIFICATION Spec
SYMMETRY Symmetry
CHECK_DEADLOCK FALSE
INVARIANTS
  AtMostOneExecution
  RevokedLeaseIsStale
  OutboxTellsLedger
  RepliesStayTrue
PROPERTIES
  OutcomeIsFinal
  ImplementsLifecycle
