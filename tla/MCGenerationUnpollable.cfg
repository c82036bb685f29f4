SPECIFICATION Spec
CONSTANTS
  MaxJobs = 2
  ProviderTargets = {image}
  TtsTargets = {}
  ComposeTargets = {}
  Cost <- MCCost
  MaxTasks = 2
  Tasks <- MCTasks
  NoTask = 0
  Owners = {Runner}
  Runner = Runner
  NoOwner = NoOwner
  Runs = {}
  NoRun = NoRun
  Callers = {c1}
  MaxAttempts = 3
  MaxActiveJobs = 0
  DailyJobLimit = 2
  DailyBudget = 0
  NoTarget = NoTarget
  MaxCrashes = 0
  QuickRestart = FALSE
  Webhooks = FALSE
  Faults = FALSE
INVARIANT PollableWhileWaiting
CHECK_DEADLOCK FALSE
