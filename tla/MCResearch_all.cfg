SPECIFICATION MCSpec
CONSTANTS
  Parts = {"runner", "approval", "promotion"}
  r1 = r1
  r2 = r2
  a = a
  b = b
  c = c
  None = none
  Runs <- TwoRuns
  NodeIds <- MCIds
  Graphs <- MCGraphs
  MaxWorkers = 1
  MaxControl = 2
  LastStage = 8
  Required <- MCRequired
  MaxRequests = 2
  MaxDecisions = 2
  MaxApprovals = 1
CHECK_DEADLOCK FALSE
INVARIANTS
  NodesGrounded
  OutcomeIsTrue
  VerdictsHold
  HistoryClimbs
PROPERTIES
  EveryRunEnds
