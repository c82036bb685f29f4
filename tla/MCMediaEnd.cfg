SPECIFICATION Spec
CONSTANTS
  Images = {i1}
  Videos = {a}
  Values = {v1}
  ValueKeys = {1, 2}
  Shots = {s1}
  Clips = {t1}
  None = None
  Writers = {w1}
  Cleaners = {h, q}
  Hourly = h
  MaxAttempts = 2
  MaxAssets = 1
  MaxSaves = 2
  MaxValues = 2
  MaxTrouble = 1
INVARIANTS
  CountsAreExact
PROPERTY OrphanedFilesGo
CHECK_DEADLOCK FALSE
