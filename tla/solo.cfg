CONSTANTS
  lead = lead
  heir = heir
  task = task
  chief = chief
  coder = coder
  None = None
  Sessions <- SoloSessions
  Agents <- FamilyAgents
  AgentOf <- SoloAgentOf
  ParentOf <- SoloParentOf
  Orchestrators = {chief}
  Actors = {"watcher", "subscriber", "reconciler", "reaper", "user"}
  Requests = {"resume", "delete"}
  Faults = {"crash", "nats", "k8s", "wake", "node", "db", "answer"}
  MaxBusy = 5
SPECIFICATION Spec
INVARIANTS TypeOK RowMatchesPod
PROPERTIES ImplementsOutcome RunsOnce
CHECK_DEADLOCK FALSE
