CONSTANTS
  Sessions = {s1}
  Clients = {c}
  Stoppers = {main, i1}
  Janitor = main
  MaxActive = 1
  MaxSteps = 1
  MaxRounds = 1
  MaxTurns = 2
  MaxPrompts = 1
SPECIFICATION FairSpec
CHECK_DEADLOCK FALSE
INVARIANTS
  NoPromptIsOrphaned
  TerminalEventsBeforeIdle
PROPERTIES
  InterruptsAreHeard
  TurnsEnd
