SPECIFICATION Spec
CONSTANTS
  Agents <- TwoAgents
  Line <- TwoLine
  Parent <- TwoParent
  Interactive = FALSE
  TurnLimit = 3
  RecoveryLimit = 2
  IdleLimit = 2
INVARIANTS OnlyStraysAtFinish EndedScansAreSettled
PROPERTIES ScanEnds
