CONSTANTS
  None = None
  Lead = lead
  Members = {m1, m2}
  Gated = {m1}
  Providers = {p1, p2}
  TerminalCalls = 3
  TerminalEvents = 3
  TerminalDrops = 1
  LoopTools = {"look", "edit", "plan"}
  LoopSafe = {"look"}
  LoopPlanTools = {"look", "plan"}
  LoopSwitch = "plan"
  LoopUnbudgeted = {"edit"}
  LoopThreshold = 2
  LoopTurns = 2
  LoopSteps = 1
  LoopCalls = 2
  LoopChanges = 1
SPECIFICATION Spec
CHECK_DEADLOCK FALSE
INVARIANTS
  ContextIsTheSelectedBranch
  
  
PROPERTIES
  BoardIsKept
  
  WorktreesAreKept
  
  MachinesAreOwned
  AnswersAreHonest
