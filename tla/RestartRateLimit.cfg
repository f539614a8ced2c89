SPECIFICATION RestartSpec
CONSTANTS
  Agents <- TwoAgents
  Line <- TwoLine
  Parent <- TwoParent
  Interactive = FALSE
  TurnLimit = 2
  RecoveryLimit = 1
  IdleLimit = 1
  MaxRestarts = 1
PROPERTIES ResumedScanRuns
