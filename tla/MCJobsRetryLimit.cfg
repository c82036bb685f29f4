SPECIFICATION JobsSpec
CONSTANTS
  image = image
  merge = merge
  MaxJobs = 2
  ProviderTargets = {image}
  TtsTargets = {}
  ComposeTargets = {merge}
  Cost <- MCCost
  Tasks = {t1}
  NoTask = NoTask
  Owners = {w1}
  NoOwner = NoOwner
  Runs = {}
  NoRun = NoRun
  Callers = {c1}
  MaxAttempts = 2
  MaxActiveJobs = 1
  DailyJobLimit = 0
  DailyBudget = 0
  NoTarget = NoTarget
INVARIANT ActiveWithinLimit
CHECK_DEADLOCK FALSE
