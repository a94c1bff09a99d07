SPECIFICATION Spec
CONSTANTS
  h1 = h1
  h2 = h2
  h3 = h3
  s1 = s1
  Hups <- TwoHups
  Stops <- NoStop
  Configs <- TwoConfigs
  First <- FirstConfig
  MaxEdits = 1
INVARIANTS
  SurvivesReload
CHECK_DEADLOCK FALSE
