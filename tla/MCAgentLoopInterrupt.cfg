\* An interrupt and Bash, whose timeout_seconds is 620 s: it runs in a thread of its own.
SPECIFICATION Spec
CONSTANTS
  Tools = {"Bash"}
  Safe = {}
  PlanTools = {}
  Switch = "EnterPlanMode"
  Unbudgeted = {}
  Threshold = 2
  ForkTo = "rounds"
  MaxTurns = 1
  MaxSteps = 1
  MaxCalls = 1
  MaxChanges = 0
INVARIANT InterruptReachesTools
CHECK_DEADLOCK FALSE
