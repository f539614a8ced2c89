SPECIFICATION Spec
CONSTANTS
  Conns = {c1, c2, c3}
  MaxConnections = 2
INVARIANTS TypeOK WithinLimit NoOrphanChannel
PROPERTIES ReleasedWhenIdle TunnelDrains
CHECK_DEADLOCK FALSE
