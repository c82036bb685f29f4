SPECIFICATION Spec
CONSTANTS
  MaxRuns = 1
  MaxKids = 6
  MaxShots = 2
  Voiced = {2}
  MaxAttempts = 2
  MaxTries = 1
  Reopenable = {}
  Workers = {w1}
  NoWorker = NoWorker
  Callers = {c1}
  MaxFaults = 0
INVARIANTS
  ProductionTypeOK
  StageHasInputs
  NoDuplicateChild
PROPERTY
  ImplementsRun
CHECK_DEADLOCK FALSE
