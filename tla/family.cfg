CONSTANTS
  lead = lead
  heir = heir
  task = task
  chief = chief
  coder = coder
  None = None
  Sessions <- KinSessions
  Agents <- FamilyAgents
  AgentOf <- KinAgentOf
  ParentOf <- KinParentOf
  Orchestrators = {chief}
  Actors = {"reconciler", "user", "parent"}
  Requests = {"delete", "resume"}
  Faults = {"db"}
  MaxBusy = 2
SPECIFICATION KinSpec
INVARIANTS ChildHasParent WakesMatchEnds OneFreshSession
CHECK_DEADLOCK FALSE
