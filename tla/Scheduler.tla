------------------------------ MODULE Scheduler ------------------------------
(***************************************************************************)
(* scheduleDueSessions: the loop that turns cron schedules into runs.      *)
(*                                                                         *)
(* Every api replica runs the same tick and nothing elects a leader.  A    *)
(* tick reads the clock and the scheduled agents once, then takes them one *)
(* by one: it computes the slot that is due after the agent's anchor, and  *)
(* creates a session (a worker, or an orchestrator without a live session) *)
(* or injects a heartbeat into the live session of an orchestrator, and    *)
(* records the slot as the agent's last tick.  An orchestrator's anchor is *)
(* that recorded tick; a worker's is its last scheduled session row.  What *)
(* goes between these awaits - another replica, a session that ends, a     *)
(* restart, an await that throws before or after it took effect - is what  *)
(* this module is about.                                                   *)
(*                                                                         *)
(* Left out: which cron expression gives which slots (NextDue is a         *)
(* constant; an `@every` schedule, whose slots move with the anchor, only  *)
(* when it has a slot at every time), pausing an agent, a new schedule     *)
(* after an edit (only its effect on the anchor), a user's runs of a       *)
(* worker.                                                                 *)
(***************************************************************************)
EXTENDS Naturals, FiniteSets

CONSTANTS
  Agents,         \* the agents with a schedule
  Orchestrators,  \* those of kind 'orchestrator'; the others are workers
  Replicas,       \* the api processes
  NextDue,        \* NextDue[a][t]: the first slot of a's schedule after t
  Horizon,        \* bound: how far the clock runs
  MaxFired,       \* bound: how far starts are counted
  Faults          \* which of "crash", "nats", "db", "delete", "edit" may happen

Times == 0 .. Horizon

ASSUME SchedulerAssumption ==
  /\ Orchestrators \subseteq Agents
  /\ Horizon \in Nat \ {0} /\ MaxFired \in Nat \ {0}
  /\ Faults \subseteq {"crash", "nats", "db", "delete", "edit"}
  /\ NextDue \in [Agents -> [Times -> Nat]]
  /\ \A a \in Agents, t \in Times :
       /\ NextDue[a][t] > t
       /\ \A u \in Times : t <= u /\ u < NextDue[a][t] => NextDue[a][u] = NextDue[a][t]

VARIABLES
  now,    \* the clock; an agent is created at 0
  tick,   \* an orchestrator's last_scheduler_tick_at, or createdAt when it is NULL;
          \* a worker's is written too, and read by nothing
  since,  \* when the schedule was last edited
  runs,   \* triggered_at of the rows with triggered_by = 'scheduler'
  live,   \* an orchestrator has a pending or running session
  fired,  \* how often each slot started something
  burst,  \* how many slots of a worker were started since the clock last moved
  unrecorded, \* history: an orchestrator's slots whose last start lost its record
  hand    \* what each replica's tick is in the middle of

vars == <<now, tick, since, runs, live, fired, burst, unrecorded, hand>>

IsOrchestrator(a) == a \in Orchestrators
Workers == Agents \ Orchestrators

Idle == [step |-> "idle"]
Scan(todo, at, ticks) == [step |-> "scan", todo |-> todo, at |-> at, ticks |-> ticks]
On(h, step, a, slot) ==
  [step |-> step, a |-> a, slot |-> slot, todo |-> h.todo \ {a}, at |-> h.at, ticks |-> h.ticks]
BackToScan(h) == Scan(h.todo, h.at, h.ticks)

Hands ==
  {Idle}
    \cup [step : {"scan"}, todo : SUBSET Agents, at : Times, ticks : [Orchestrators -> Times]]
    \cup [step : {"find", "inject", "create", "record"}, a : Agents, slot : Times,
          todo : SUBSET Agents, at : Times, ticks : [Orchestrators -> Times]]

Init ==
  /\ now = 0
  /\ tick = [a \in Orchestrators |-> 0]
  /\ since = [a \in Agents |-> 0]
  /\ runs = [a \in Agents |-> {}]
  /\ live = [a \in Agents |-> FALSE]
  /\ fired = [a \in Agents |-> [s \in Times |-> 0]]
  /\ burst = [w \in Workers |-> 0]
  /\ unrecorded = [a \in Orchestrators |-> {}]
  /\ hand = [r \in Replicas |-> Idle]

Capped(n) == IF n < MaxFired THEN n + 1 ELSE n
Fire(a, slot) ==
  /\ fired' = [fired EXCEPT ![a][slot] = Capped(@)]
  /\ burst' = [w \in Workers |-> IF w = a /\ fired[a][slot] = 0 THEN burst[w] + 1 ELSE burst[w]]
  /\ unrecorded' = [o \in Orchestrators |-> unrecorded[o] \ (IF o = a THEN {slot} ELSE {})]
-----------------------------------------------------------------------------
(* One tick of one replica.  An await that throws ends the agent's turn    *)
(* and no more: the catch counts an error and the next agent is taken.     *)

StartTick(r) ==
  /\ hand[r] = Idle
  /\ hand' = [hand EXCEPT ![r] = Scan(Agents, now, tick)]
  /\ UNCHANGED <<now, tick, since, runs, live, fired, burst, unrecorded>>

(* lastSchedulerRunFor: ORDER BY triggered_at DESC LIMIT 1.                *)
LastRun(a) == CHOOSE t \in runs[a] \cup {0} : \A u \in runs[a] : u <= t

AnchorOfRow(a, tickRead) == LastRun(a)   \* mutant: an inject leaves no row
Anchor(a, tickRead) == IF IsOrchestrator(a) THEN tickRead ELSE LastRun(a)

(* No backfill: a worker's slot whose successor has passed is skipped.     *)
NeverMissed(a, slot, at) == FALSE   \* mutant: the backlog is replayed
MissedByAll(a, slot, at) ==         \* mutant: orchestrators are skipped too
  at - slot > NextDue[a][slot] - slot
Missed(a, slot, at) ==
  ~IsOrchestrator(a) /\ at - slot > NextDue[a][slot] - slot

Consider(r, a) ==
  /\ hand[r].step = "scan" /\ a \in hand[r].todo
  /\ LET h   == hand[r]
         due == NextDue[a][Anchor(a, h.ticks[a])]
         next ==
           IF due > h.at THEN Scan(h.todo \ {a}, h.at, h.ticks)
           ELSE IF Missed(a, due, h.at) THEN On(h, "record", a, h.at)
           ELSE On(h, IF IsOrchestrator(a) THEN "find" ELSE "create", a, due)
     IN hand' = [hand EXCEPT ![r] = next]
  /\ UNCHANGED <<now, tick, since, runs, live, fired, burst, unrecorded>>

(* A worker's lastSchedulerRunFor throws.                                  *)
ConsiderFails(r, a) ==
  /\ "db" \in Faults
  /\ hand[r].step = "scan" /\ a \in hand[r].todo /\ ~IsOrchestrator(a)
  /\ hand' = [hand EXCEPT ![r].todo = @ \ {a}]
  /\ UNCHANGED <<now, tick, since, runs, live, fired, burst, unrecorded>>

(* findLiveSessionForAgent.                                                *)
FindNothing(r) ==   \* mutant: an orchestrator is always started, never injected
  /\ hand[r].step = "find"
  /\ hand' = [hand EXCEPT ![r].step = "create"]
  /\ UNCHANGED <<now, tick, since, runs, live, fired, burst, unrecorded>>
FindLive(r) ==
  /\ hand[r].step = "find"
  /\ hand' = [hand EXCEPT ![r].step = IF live[hand[r].a] THEN "inject" ELSE "create"]
  /\ UNCHANGED <<now, tick, since, runs, live, fired, burst, unrecorded>>

(* The lookup or the INSERT throws, and nothing was written.               *)
FindFails(r) ==
  /\ "db" \in Faults
  /\ hand[r].step \in {"find", "create"}
  /\ hand' = [hand EXCEPT ![r] = BackToScan(@)]
  /\ UNCHANGED <<now, tick, since, runs, live, fired, burst, unrecorded>>

(* injectHeartbeatWake.                                                    *)
Inject(r) ==
  /\ hand[r].step = "inject"
  /\ Fire(hand[r].a, hand[r].slot)
  /\ hand' = [hand EXCEPT ![r].step = "record"]
  /\ UNCHANGED <<now, tick, since, runs, live>>

InjectFails(r) ==
  /\ "nats" \in Faults
  /\ hand[r].step = "inject"
  /\ hand' = [hand EXCEPT ![r] = BackToScan(@)]
  /\ UNCHANGED <<now, tick, since, runs, live, fired, burst, unrecorded>>

(* sessions.create, triggered_at = due.  The unique index (agent_id,       *)
(* triggered_at) and the singleton trigger raise the same 23505; whether   *)
(* it is counted as a duplicate (worker) or an error (orchestrator), the   *)
(* turn ends there and no tick is recorded.                                *)
TakenByTrigger(a, slot) == IsOrchestrator(a) /\ live[a]   \* mutant: no unique index
Taken(a, slot) == slot \in runs[a] \/ (IsOrchestrator(a) /\ live[a])

Create(r) ==
  /\ hand[r].step = "create"
  /\ LET h == hand[r] IN
       IF Taken(h.a, h.slot)
         THEN /\ hand' = [hand EXCEPT ![r] = BackToScan(@)]
              /\ UNCHANGED <<runs, live, fired, burst, unrecorded>>
         ELSE /\ runs' = [runs EXCEPT ![h.a] = @ \cup {h.slot}]
              /\ live' = [live EXCEPT ![h.a] = IsOrchestrator(h.a)]
              /\ Fire(h.a, h.slot)
              /\ hand' = [hand EXCEPT ![r].step = "record"]
  /\ UNCHANGED <<now, tick, since>>

(* recordSchedulerTick.                                                    *)
Stamp(a, t) == tick' = IF IsOrchestrator(a) THEN [tick EXCEPT ![a] = t] ELSE tick
RoundedUp(slot) == IF slot < Horizon THEN slot + 1 ELSE slot   \* mutant
Recorded(slot) == slot

Record(r) ==
  /\ hand[r].step = "record"
  /\ Stamp(hand[r].a, Recorded(hand[r].slot))
  /\ hand' = [hand EXCEPT ![r] = BackToScan(@)]
  /\ UNCHANGED <<now, since, runs, live, fired, burst, unrecorded>>

(* recordSchedulerTick throws; or it is not reached, because the publish   *)
(* or the INSERT before it took effect and lost its answer.                *)
Unrecord(h) ==
  unrecorded' = [o \in Orchestrators |->
    unrecorded[o] \cup (IF h.step = "record" /\ o = h.a THEN {h.slot} ELSE {})]

RecordFails(r) ==
  /\ "db" \in Faults
  /\ hand[r].step = "record"
  /\ Unrecord(hand[r])
  /\ hand' = [hand EXCEPT ![r] = BackToScan(@)]
  /\ UNCHANGED <<now, tick, since, runs, live, fired, burst>>

EndTick(r) ==
  /\ hand[r].step = "scan" /\ hand[r].todo = {}
  /\ hand' = [hand EXCEPT ![r] = Idle]
  /\ UNCHANGED <<now, tick, since, runs, live, fired, burst, unrecorded>>

Step(r) ==
  \/ \E a \in Agents : Consider(r, a) \/ ConsiderFails(r, a)
  \/ FindLive(r) \/ FindFails(r) \/ Inject(r) \/ InjectFails(r) \/ Create(r)
  \/ Record(r) \/ RecordFails(r) \/ EndTick(r)
-----------------------------------------------------------------------------
(* Around the loop.                                                        *)

(* Any number of slots may pass between two ticks: the process may be down. *)
TimePasses ==
  /\ now < Horizon
  /\ now' = now + 1
  /\ burst' = [w \in Workers |-> 0]
  /\ UNCHANGED <<tick, since, runs, live, fired, unrecorded, hand>>

(* The orchestrator's session ends; a user starts another one.             *)
SessionEnds(a) ==
  /\ live[a]
  /\ live' = [live EXCEPT ![a] = FALSE]
  /\ UNCHANGED <<now, tick, since, runs, fired, burst, unrecorded, hand>>

UserStarts(a) ==
  /\ IsOrchestrator(a) /\ ~live[a]
  /\ live' = [live EXCEPT ![a] = TRUE]
  /\ UNCHANGED <<now, tick, since, runs, fired, burst, unrecorded, hand>>

(* A finished run is deleted (deleteSessions), and the row was the anchor. *)
DeleteRun(a) ==
  /\ "delete" \in Faults
  /\ \E slot \in runs[a] : runs' = [runs EXCEPT ![a] = @ \ {slot}]
  /\ UNCHANGED <<now, tick, since, live, fired, burst, unrecorded, hand>>

(* AgentRepository.update with a schedule resets the recorded tick.        *)
EditSchedule(a) ==
  /\ "edit" \in Faults
  /\ Stamp(a, now)
  /\ since' = [since EXCEPT ![a] = now]
  /\ UNCHANGED <<now, runs, live, fired, burst, unrecorded, hand>>

(* A restart in the middle of a tick: the next process starts from idle.   *)
Crash(r) ==
  /\ "crash" \in Faults
  /\ hand[r] # Idle /\ ~(hand[r].step = "scan" /\ hand[r].todo = {})
  /\ Unrecord(hand[r])
  /\ hand' = [hand EXCEPT ![r] = Idle]
  /\ UNCHANGED <<now, tick, since, runs, live, fired, burst>>

Next ==
  \/ \E r \in Replicas : StartTick(r) \/ Step(r) \/ Crash(r)
  \/ TimePasses
  \/ \E a \in Agents : SessionEnds(a) \/ UserStarts(a) \/ DeleteRun(a) \/ EditSchedule(a)

Spec == Init /\ [][Next]_vars

(* Fairness: a replica keeps ticking (PeriodicScheduler arms the next tick *)
(* when one ends) and a tick, once begun, goes on.  No await of an agent's *)
(* turn fails every time it is tried.  Users do not start and end sessions *)
(* for ever between a tick's find and its INSERT, and api processes        *)
(* restart finitely often.                                                 *)
Succeeds(r, a) ==
  /\ SF_vars(FindLive(r) /\ hand[r].a = a) /\ SF_vars(Inject(r) /\ hand[r].a = a)
  /\ SF_vars(Create(r) /\ hand[r].a = a) /\ SF_vars(Record(r) /\ hand[r].a = a)

FairSpec ==
  /\ Spec
  /\ \A r \in Replicas :
       WF_vars(StartTick(r)) /\ WF_vars(Step(r)) /\ \A a \in Agents : Succeeds(r, a)
  /\ <>[][\A a \in Agents : ~UserStarts(a)]_vars
  /\ <>[][\A r \in Replicas : ~Crash(r)]_vars
-----------------------------------------------------------------------------
(* Properties.                                                             *)

(* Every variable keeps its type.                                          *)
TypeOK ==
  /\ now \in Times
  /\ tick \in [Orchestrators -> Times]
  /\ since \in [Agents -> Times]
  /\ runs \in [Agents -> SUBSET Times]
  /\ live \in [Agents -> BOOLEAN]
  /\ fired \in [Agents -> [Times -> 0 .. MaxFired]]
  /\ burst \in [Workers -> Nat]
  /\ unrecorded \in [Orchestrators -> SUBSET Times]
  /\ hand \in [Replicas -> Hands]

IsSlot(a, s) == \E t \in Times : t < s /\ NextDue[a][t] = s

(* An orchestrator is never passed over: every slot up to the recorded     *)
(* tick has started something since the schedule was set, however replicas *)
(* overtake each other, crash or fail to publish.                          *)
NoSlotSkipped ==
  \A a \in Orchestrators, s \in Times :
    IsSlot(a, s) /\ since[a] < s /\ s <= tick[a] => fired[a][s] > 0

(* Catch-up is bounded, whatever the outage, the stalls and the restarts:  *)
(* at one instant each replica may be holding one slot it stalled on, and  *)
(* beyond those a worker is started twice at most (for the slot those      *)
(* uncover and for the current one), never once per slot missed.           *)
NoStampede == \A a \in Workers : burst[a] <= 2 + Cardinality(Replicas)

(* Nothing comes early: what was started, a wake or a run, was started for *)
(* a slot of the schedule that had come, however old the replica's reading *)
(* of clock, agents and rows; and no tick is recorded ahead of the clock,  *)
(* where an orchestrator would be passed over in silence.                  *)
NeverEarly ==
  /\ \A a \in Orchestrators : tick[a] <= now
  /\ \A a \in Agents, s \in Times : fired[a][s] > 0 => IsSlot(a, s) /\ s <= now

(* Replicas need no leader: however many tick, stall on what they read,   *)
(* crash and collide, and whatever finished run a user deletes in between  *)
(* (the anchor among them), the runs of a worker keep to its timetable.    *)
SlotsOf == [a \in Agents |-> {s \in Times : IsSlot(a, s)}]
Runs == INSTANCE Timetable WITH
  Agents <- Workers,
  Slots  <- SlotsOf,
  Cap    <- MaxFired,
  from   <- [a \in Workers |-> 0],
  starts <- [a \in Workers |-> fired[a]],
  gone   <- [a \in Workers |-> {s \in Times : fired[a][s] > 0 /\ s \notin runs[a]}]
WorkersKeepTime == Runs!Spec

(* One replica keeps the wakes of an orchestrator to its timetable, and a  *)
(* wake comes twice only where a restart or a throw cost the record of the *)
(* last one, once per record lost: although publishes fail, schedules are  *)
(* edited, runs are deleted and sessions come and go in the middle of a    *)
(* turn.                                                                   *)
Wakes == INSTANCE Timetable WITH
  Agents <- Orchestrators,
  Slots  <- SlotsOf,
  Cap    <- MaxFired,
  from   <- [a \in Orchestrators |-> since[a]],
  starts <- [a \in Orchestrators |-> fired[a]],
  gone   <- unrecorded
OrchestratorsKeepTime == Wakes!Spec

(* A schedule that is due is served or moved on: its anchor changes.  One  *)
(* thing stands in the way for good: a session created for the slot whose  *)
(* record was lost and which is over, as its row refuses every later       *)
(* INSERT of the slot.  It is what one replica gives an orchestrator.      *)
Blocked(a) ==
  LET due == NextDue[a][tick[a]] IN due \in runs[a] \cap unrecorded[a] /\ ~live[a]
Served(a) ==
  \A t \in Times :
    (Anchor(a, tick[a]) = t /\ NextDue[a][t] <= now) ~> (Anchor(a, tick[a]) # t \/ Blocked(a))
OrchestratorServed == \A a \in Orchestrators : Served(a)
=============================================================================
