SPECIFICATION ModelsSpec
CONSTANTS
  Parts = {"checkpoints"}
  Environments <- OneEnvironment
  MaxVersions = 3
  MaxEvents = 5
  x = x
  y = y
  old = old
  new = new
  sketch = sketch
  solid = solid
  line = line
  face = face
  c1 = c1
  c2 = c2
  c3 = c3
  best_pt = best_pt
  w1 = w1
  w2 = w2
  Tags <- MCTags
  Explicit <- MCExplicit
  Labels <- MCLabels
  MaxFaults = 2
  Paths <- MCPaths
  Loaders <- MCThreads
  Clients <- MCThreads
  MaxLoads = 3
  Tokens <- MCTokens
  Families <- MCFamilies
  Layouts <- MCLayouts
  DefaultLayout <- MCDefaultLayout
  Defaults <- MCDefaults
  Guess <- MCGuess
  Checkpoints <- MCCheckpoints
  BestFile = best_pt
  Losses <- MCLosses
  KeepBest = 2
  Keep = 2
  MaxSaves = 4
  Params <- MCParams
  Adapters <- MCAdapters
CHECK_DEADLOCK FALSE
INVARIANTS
  ResumeExists
