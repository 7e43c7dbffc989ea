CONSTANTS
  Agents = {chief}
  Orchestrators = {chief}
  Replicas = {r1, r2}
  NextDue <- EveryOther
  Horizon = 6
  MaxFired = 1
  Faults = {"crash", "nats", "db", "delete", "edit"}
SPECIFICATION Spec
INVARIANTS NoSlotSkipped NeverEarly
CHECK_DEADLOCK FALSE
