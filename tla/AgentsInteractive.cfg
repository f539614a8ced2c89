SPECIFICATION Spec
CONSTANTS
  Agents <- TwoAgents
  Line <- TwoLine
  Parent <- TwoParent
  Interactive = TRUE
  TurnLimit = 2
  RecoveryLimit = 2
  IdleLimit = 2
INVARIANTS TypeOK NoLostWake NobodyLeftPaused TerminalReported ErrorsStayDrivable
PROPERTIES StopsAreFinal NoTurnWhilePaused StopIsHonoured
