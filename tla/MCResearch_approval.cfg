SPECIFICATION MCSpec
CONSTANTS
  Parts = {"approval"}
  r1 = r1
  r2 = r2
  a = a
  b = b
  c = c
  None = none
  Runs <- TwoRuns
  NodeIds <- MCIds
  Graphs <- FactoryGraphs
  MaxWorkers = 1
  MaxControl = 2
  LastStage = 8
  Required <- OneRequired
  MaxRequests = 1
  MaxDecisions = 7
  MaxApprovals = 0
CHECK_DEADLOCK FALSE
INVARIANTS
  ProductionWasApproved
