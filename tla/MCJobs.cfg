SPECIFICATION JobsSpec
CONSTANTS
  image = image
  merge = merge
  MaxJobs = 2
  ProviderTargets = {image}
  TtsTargets = {}
  ComposeTargets = {merge}
  Cost <- MCCost
  Tasks = {t1, t2}
  NoTask = NoTask
  Owners = {w1, w2}
  NoOwner = NoOwner
  Runs = {p1, p2}
  NoRun = NoRun
  Callers = {c1, c2}
  MaxAttempts = 2
  MaxActiveJobs = 0
  DailyJobLimit = 0
  DailyBudget = 3
  NoTarget = NoTarget
SYMMETRY Symmetry
INVARIANTS
  TypeOK
  RowProtocol
  OlderActiveWasRetried
  FirstAttemptsWithinBudget
PROPERTIES
  TaskKeptWithinAttempt
  ImplementsLifecycle
CHECK_DEADLOCK FALSE
