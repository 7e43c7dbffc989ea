CONSTANTS
  Agents = {chief}
  Orchestrators = {chief}
  Replicas = {r1}
  NextDue <- EveryHour
  Horizon = 3
  MaxFired = 2
  Faults = {"crash", "nats", "db", "delete", "edit"}
SPECIFICATION FairSpec
PROPERTIES OrchestratorsKeepTime OrchestratorServed
CHECK_DEADLOCK FALSE
