SPECIFICATION Spec
CONSTANTS
  MaxRuns = 2
  MaxKids = 1
  MaxShots = 1
  Voiced = {1}
  MaxAttempts = 2
  MaxTries = 1
  Reopenable = {}
  Workers = {w1}
  NoWorker = NoWorker
  Callers = {c1}
  MaxFaults = 0
INVARIANT
  OneActiveRun
CHECK_DEADLOCK FALSE
