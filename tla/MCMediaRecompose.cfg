SPECIFICATION Spec
CONSTANTS
  Images = {i1}
  Videos = {a, b}
  Values = {v1}
  ValueKeys = {1}
  Shots = {s1, s2}
  Clips = {t1}
  None = None
  Writers = {w1, w2}
  Cleaners = {h, q}
  Hourly = h
  MaxAttempts = 1
  MaxAssets = 2
  MaxSaves = 3
  MaxValues = 0
  MaxTrouble = 1
SYMMETRY Symmetry
INVARIANTS
  ObjectsHoldTheirContent
CHECK_DEADLOCK FALSE
