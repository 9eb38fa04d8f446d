SPECIFICATION AgentsSpec
CONSTANTS
  Parts = {"graph", "dynamic", "team", "memory"}
  j1 = j1
  j2 = j2
  x = x
  y = y
  p = p
  q = q
  Tasks <- MCTasks
  Priorities <- MCPriorities
  Deadlines <- MCDeadlines
  DefaultRetries = 1
  MaxDeps = 2
  MaxClock = 1
  MaxRuns = 2
  Items <- MCJobs
  Callers <- MCRunners
  MaxAccepted = 3
  MaxServings = 2
  Jobs <- MCJobs
  Runners <- MCRunners
  Keys <- MCKeys
  Agents <- MCAgents
  Capacity = 1
  TTL = 1
  MaxWrites = 3
  MaxTime = 2
CHECK_DEADLOCK FALSE
INVARIANTS
  AgentsTypeOK
  OutcomeExplained
  RunServesItsTasks
  TasksInOrder
  CopiesAreRecent
PROPERTIES
  RunReturns
