CONSTANTS
  Agents = {worker}
  Orchestrators = {}
  Replicas = {r1, r2}
  NextDue <- EveryHour
  Horizon = 5
  MaxFired = 2
  Faults = {"crash", "db", "delete"}
SPECIFICATION Spec
SYMMETRY SameCode
INVARIANT NoStampede
PROPERTY WorkersKeepTime
CHECK_DEADLOCK FALSE
