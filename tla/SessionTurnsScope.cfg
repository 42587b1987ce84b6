CONSTANTS
  Sessions = {s1}
  Clients = {c}
  Stoppers = {main}
  Janitor = main
  MaxActive = 1
  MaxSteps = 1
  MaxRounds = 1
  MaxTurns = 2
  MaxPrompts = 1
SPECIFICATION Spec
CHECK_DEADLOCK FALSE
INVARIANTS
  InterruptIsTurnScoped
