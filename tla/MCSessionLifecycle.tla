------------------------- MODULE MCSessionLifecycle -------------------------
(* Instances of SessionLifecycle small enough for TLC.                     *)
EXTENDS SessionLifecycle

CONSTANTS lead, heir, task, chief, coder

(* An orchestrator's session and the worker session it spawns.             *)
FamilySessions == {lead, task}
FamilyAgents   == {chief, coder}
FamilyAgentOf  == [s \in FamilySessions |-> IF s = lead THEN chief ELSE coder]
FamilyParentOf == [s \in FamilySessions |-> IF s = lead THEN None ELSE lead]

SoloSessions == {task}
SoloAgentOf  == [s \in SoloSessions |-> coder]
SoloParentOf == [s \in SoloSessions |-> None]

(* The orchestrator is running, the worker is about to be spawned.         *)
LeadIs(value, other) == [s \in Sessions |-> IF s = lead THEN value ELSE other]
FamilyInit ==
  /\ status = LeadIs("running", "unborn")
  /\ stamped = [s \in Sessions |-> FALSE]
  /\ why = [s \in Sessions |-> "none"]
  /\ creating = {}
  /\ job = LeadIs("active", "none")
  /\ worker = LeadIs("up", "none")
  /\ inbox = [s \in Sessions |-> {}]
  /\ log = [s \in Sessions |-> "none"]
  /\ aged = {lead}
  /\ hand = [w \in Writers |-> Idle]
  /\ sweep = NoSweep
  /\ stale = {}
  /\ woken = {} /\ epoch = 0 /\ forgotten = {}

(* The lead's pod outlives the child, so that its wakes matter: once the   *)
(* lead is over nothing is promised about them.                            *)
FamilyNext == Next /\ UNCHANGED <<worker[lead], job[lead]>>
FamilySpec ==
  /\ FamilyInit /\ [][FamilyNext]_vars
  /\ SessionFairness(task) /\ SF_vars(ReconcilerProbe(lead))
  /\ LoopFairness /\ DeadlineFairness

(* Two root sessions of one orchestrator and a worker the first spawns.    *)
KinSessions == {lead, heir, task}
KinAgentOf  == [s \in KinSessions |-> IF s = task THEN coder ELSE chief]
KinParentOf == [s \in KinSessions |-> IF s = task THEN lead ELSE None]
KinSpec == (Init \/ FamilyInit) /\ [][Next]_vars
=============================================================================
