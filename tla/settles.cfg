CONSTANTS
  lead = lead
  heir = heir
  task = task
  chief = chief
  coder = coder
  None = None
  Sessions <- SoloSessions
  Agents <- FamilyAgents
  AgentOf <- SoloAgentOf
  ParentOf <- SoloParentOf
  Orchestrators = {chief}
  Actors = {"watcher", "subscriber", "reconciler", "user"}
  Requests = {"delete"}
  Faults = {"crash", "nats", "k8s", "wake", "node", "db", "answer"}
  MaxBusy = 2
SPECIFICATION FairSpec
PROPERTY SessionsSettle
CHECK_DEADLOCK FALSE
