SPECIFICATION Spec
CONSTANTS
  MaxRuns = 2
  MaxStarts = 1
  Ways = {"chat", "retry", "production"}
  Skills = {k1, k2}
  NoSkill = NoSkill
  Callers = {c1}
  MaxActions = 1
  MaxTools = 2
  MaxTrouble = 2
INVARIANTS
  CompletedRunsAreRecorded
PROPERTIES
  RunsEnd
CHECK_DEADLOCK FALSE
