SPECIFICATION FairSpec
CONSTANTS
  MaxRuns = 1
  MaxKids = 5
  MaxShots = 1
  Voiced = {1}
  MaxAttempts = 1
  MaxTries = 2
  Reopenable = {"film"}
  Workers = {w1, w2}
  NoWorker = NoWorker
  Callers = {c1}
  MaxFaults = 1
PROPERTIES
  ChildrenFollowLifecycle
  RunEnds
CHECK_DEADLOCK FALSE
