CONSTANTS
  lead = lead
  heir = heir
  task = task
  chief = chief
  coder = coder
  None = None
  Sessions <- FamilySessions
  Agents <- FamilyAgents
  AgentOf <- FamilyAgentOf
  ParentOf <- FamilyParentOf
  Orchestrators = {chief}
  Actors = {"watcher", "subscriber", "reconciler", "parent"}
  Requests = {}
  Faults = {"nats", "db"}
  MaxBusy = 2
SPECIFICATION FamilySpec
PROPERTY ChildEndReachesParent
CHECK_DEADLOCK FALSE
