SPECIFICATION MCSpec
CONSTANTS
  Parts = {"config", "plugins", "alerts", "credits", "market", "trust"}
  x = x
  y = y
  base = base
  site = site
  old = old
  new = new
  core = core
  geo = geo
  ui = ui
  alice = alice
  bob = bob
  sheets = sheets
  home = home
  work = work
  rule = rule
  Garbage = garbage
  Absent = absent
  Sources <- MCSources
  Settings <- MCSettings
  EnvSettings <- MCEnvSettings
  MaxEdits = 4
  Plugins <- MCPlugins
  Callers <- MCThreads
  Manifests <- MCManifests
  MaxScans = 2
  MaxUnloads = 1
  Rules <- MCRules
  Evaluators <- MCThreads
  Cooldown = 2
  MaxTick = 4
  Accounts <- MCPeople
  Amounts <- MCAmounts
  MaxCalls = 3
  MaxFaults = 2
  People <- MCPeople
  Emails <- MCEmails
  Datasets <- MCDatasets
  Publishers <- OnePublisher
  MaxStops = 4
  NoOwner = none
  NoEmail = none
  Objects <- MCObjects
  MaxRecords = 3
  MaxChanges = 1
CHECK_DEADLOCK FALSE
SYMMETRY MCSymmetry
INVARIANTS
  ServicesTypeOK
  ListenersKnow
  DependenciesBeside
  CooldownKept
  ReturnedIsRecorded
  BalanceExplained
  RecordsAgree
  ChainUnbroken
