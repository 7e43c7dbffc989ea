CONSTANTS
  Children = {coder}
  Workers = {coder}
  Ladder <- Steps
  ReapAfter = 2
  Cadence = 2
  Hints = {0, 2}
  Deployments <- Apart
  Horizon = 6
  Faults = {"nats", "db", "slow", "restart"}
SPECIFICATION Spec
INVARIANTS LadderClimbed ReportedInTime WarnedBeforeReaped ReapedInTime GlancedInTime
CHECK_DEADLOCK FALSE
