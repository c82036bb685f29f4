SPECIFICATION Spec
CONSTANTS
  MaxRuns = 1
  MaxKids = 5
  MaxShots = 1
  Voiced = {1}
  MaxAttempts = 2
  MaxTries = 1
  Reopenable = {}
  Workers = {w1}
  NoWorker = NoWorker
  Callers = {c1}
  MaxFaults = 0
INVARIANT
  VoicedShotsHaveAudio
CHECK_DEADLOCK FALSE
