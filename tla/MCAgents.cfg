SPECIFICATION Spec
CONSTANTS
  MaxRuns = 3
  MaxStarts = 1
  Ways = {"chat", "retry", "production"}
  Skills = {k1, k2}
  NoSkill = NoSkill
  Callers = {c1}
  MaxActions = 1
  MaxTools = 1
  MaxTrouble = 1
INVARIANTS
  AgentsTypeOK
  LogTellsTheRun
  RetriesReplaceTheirSource
CHECK_DEADLOCK FALSE
