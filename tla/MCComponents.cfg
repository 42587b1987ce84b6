CONSTANTS
  None = None
  Sessions = {s1}
  Prompts = {p1, p2}
  MaxLines = 6
  MaxInbox = 2
  Two = {s1, s2}
  Janitor = main
  Client = c
  Agent = Agent
  Boxes = {b1, b2, b3}
  Actors = {p1, p2}
  Things = {t1, t2}
  MaxLoops = 2
  MaxOwners = 2
  MaxClients = 2
  SubagentMaxSteps = 2
  MaxCalls = 2
  MaxReads = 2
  MaxRestarts = 1
  PipeSize = 1
  MaxOutput = 1
  MaxWrites = 2
SPECIFICATION ComponentsSpec
SYMMETRY Symmetry
CHECK_DEADLOCK FALSE
INVARIANTS
  McpServersAreShared
  AnswersAreWhole
  SubagentsTellTheTruth
  CommandsAreAccountedFor
  PromptsAreAnsweredTruly
PROPERTIES
  AdmissionHolds
  
  PoolIsOwned
  
  
