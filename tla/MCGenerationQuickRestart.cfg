SPECIFICATION FairSpec
CONSTANTS
  MaxJobs = 2
  ProviderTargets = {image}
  TtsTargets = {tts}
  ComposeTargets = {merge}
  Cost <- MCCost
  MaxTasks = 3
  Tasks <- MCTasks
  NoTask = 0
  Owners = {Runner}
  Runner = Runner
  NoOwner = NoOwner
  Runs = {}
  NoRun = NoRun
  Callers = {c1}
  MaxAttempts = 2
  MaxActiveJobs = 0
  DailyJobLimit = 2
  DailyBudget = 0
  NoTarget = NoTarget
  MaxCrashes = 1
  QuickRestart = TRUE
  Webhooks = FALSE
  Faults = FALSE
PROPERTY FirstAttemptSettles
CHECK_DEADLOCK FALSE
