SPECIFICATION FairSpec
CONSTANTS
  h1 = h1
  h2 = h2
  h3 = h3
  s1 = s1
  Hups <- TwoHups
  Stops <- OneStop
  Configs <- AllConfigs
  First <- NoWsfs
  MaxEdits = 2
INVARIANTS
  OneReload
  AllOfOneConfig
  AlwaysServing
PROPERTIES
  PostponedRuns
CHECK_DEADLOCK FALSE
