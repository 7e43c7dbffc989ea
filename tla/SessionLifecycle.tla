-------------------------- MODULE SessionLifecycle --------------------------
(***************************************************************************)
(* The sessions table of x1agent and every actor that writes to it.        *)
(*                                                                         *)
(* A session is one run of an agent: a row of `sessions`, a Kubernetes Job *)
(* that runs the agent's pod, and the events that pod publishes on NATS.   *)
(* Six actors of the api process move a row: the job watcher, the NATS     *)
(* event subscriber, the session reconciler, the silent-worker reaper, the *)
(* user's cancel and the parent orchestrator's cancel.  Each one reads the *)
(* row (findById, or a SELECT of candidates), awaits something, and writes *)
(* it back with an UPDATE that has no condition on the old status.  What   *)
(* happens between the read and the write is what this module is about.    *)
(*                                                                         *)
(* Covered: creation (trigger, spawn, resume, with the orchestrator        *)
(* singleton trigger), launch, the two sweeps that repair rows, terminal   *)
(* events, the three cancels, deletion, the state_change wake of a parent, *)
(* lost events, api restarts, refused K8s calls, database calls that throw *)
(* before or after they took effect, Jobs that disappear.                  *)
(* Left out: what a session works on, authorisation, the summary and the   *)
(* token counts (columns no status depends on), pod restarts inside a Job  *)
(* (the Job is "active" throughout).                                       *)
(***************************************************************************)
EXTENDS Naturals, FiniteSets

CONSTANTS
  Sessions,       \* the session ids that may ever be created
  Agents,         \* the agents they are sessions of
  AgentOf,        \* the agent of each session
  ParentOf,       \* the session that spawns it, or None for a root session
  Orchestrators,  \* the agents of kind 'orchestrator'
  None,
  Actors,         \* which of the writers are at work
  Requests,       \* which of the requests below users make
  Faults,         \* which of the failures below may happen
  MaxBusy         \* bound: how many writers are inside a handler at once

Writers      == {"watcher", "subscriber", "reconciler", "reaper", "user", "parent"}
RequestKinds == {"resume", "delete"}
FaultKinds   == {"crash", "nats", "k8s", "wake", "node", "db", "answer"}

ASSUME SessionsAssumption ==
  /\ None \notin Sessions
  /\ AgentOf \in [Sessions -> Agents]
  /\ ParentOf \in [Sessions -> Sessions \cup {None}]
  /\ Orchestrators \subseteq Agents
  /\ Actors \subseteq Writers
  /\ Requests \subseteq RequestKinds
  /\ Faults \subseteq FaultKinds
  /\ MaxBusy \in Nat \ {0}

VARIABLES
  status,    \* sessions.status; "unborn" before the INSERT, "deleted" after the DELETE
  stamped,   \* sessions.completed_at IS NOT NULL
  why,       \* sessions.error_message, by who wrote it ("none" is NULL)
  creating,  \* sessions between the find of find-or-create and the INSERT
  job,       \* the K8s Job of each session
  worker,    \* the agent process in the Job's pod
  inbox,     \* events published on x1.session.<id>.events, not yet ingested
  log,       \* the terminal event in session_events, "none" if there is none
  aged,      \* sessions whose triggered_at is older than the grace window
  hand,      \* what each writer is in the middle of
  sweep,     \* the watcher's reconcileRunning: rows left, and its list of Jobs
  stale,     \* the reconciler's list of candidate rows left to probe
  woken,     \* the state_change wakes published, by child and status
  epoch,     \* flips between 0 and 1 whenever the api restarts
  forgotten  \* history: sessions whose launch was cut short before the row told of it

rowVars  == <<status, stamped, why>>
podVars  == <<job, worker, inbox>>
apiVars  == <<creating, hand, sweep, stale>>
envVars  == <<aged, epoch, forgotten>>
vars == <<rowVars, podVars, apiVars, log, envVars, woken>>

Terminal == {"complete", "failed"}
LiveSet  == {"pending", "running"}
Status   == {"unborn", "deleted"} \cup LiveSet \cup Terminal
Reports  == {"completed", "failed"}
Events   == {"started"} \cup Reports
JobState == {"none", "active", "succeeded", "failed", "terminating"}
Reasons  == {"none", "launch", "ended", "reaped", "cancelled"}

Live(s)   == status[s] \in LiveSet
Exists(s) == status[s] \in LiveSet \cup Terminal
IsOrchestrator(s) == AgentOf[s] \in Orchestrators
WorkerSessions == {s \in Sessions : ~IsOrchestrator(s)}
StatusAsReported(report) == report   \* mutant: the event's word, not the row's
StatusOf(report) == IF report = "completed" THEN "complete" ELSE "failed"

(* What a writer holds between its read and the last call of its handler:  *)
(* the status it will write and what the handler does after the UPDATE.    *)
Idle == [step |-> "idle", s |-> None, will |-> "none", why |-> "none", after |-> "none"]
ToLaunch(s) == [step |-> "launch", s |-> s, will |-> "none", why |-> "none", after |-> "none"]
ToWrite(s, will, reason, after) ==
  [step |-> "write", s |-> s, will |-> will, why |-> reason, after |-> after]
EndedQuietly(s, will) ==   \* mutant: a failure wakes nobody
  ToWrite(s, will, "ended", IF will = "complete" THEN "wake" ELSE "none")
Ended(s, will) == ToWrite(s, will, "ended", "wake")
Hands ==
  [step : {"idle", "launch", "write", "wake", "kill"}, s : Sessions \cup {None},
   will : {"none", "running"} \cup Terminal, why : Reasons,
   after : {"none", "wake", "kill"}]

Begins(w) ==
  /\ w \in Actors
  /\ hand[w].step = "idle"
  /\ Cardinality({v \in Writers : hand[v].step # "idle"}) < MaxBusy

Sweep(rows, jobs) ==
  [rows |-> rows, jobs |-> [s \in Sessions |-> IF s \in rows THEN jobs[s] ELSE "none"]]
NoSweep == Sweep({}, [s \in Sessions |-> "none"])

Init ==
  /\ status = [s \in Sessions |-> "unborn"]
  /\ stamped = [s \in Sessions |-> FALSE]
  /\ why = [s \in Sessions |-> "none"]
  /\ creating = {}
  /\ job = [s \in Sessions |-> "none"]
  /\ worker = [s \in Sessions |-> "none"]
  /\ inbox = [s \in Sessions |-> {}]
  /\ log = [s \in Sessions |-> "none"]
  /\ aged = {}
  /\ hand = [w \in Writers |-> Idle]
  /\ sweep = NoSweep
  /\ stale = {}
  /\ woken = {} /\ epoch = 0 /\ forgotten = {}
-----------------------------------------------------------------------------
(* Creation.                                                               *)

LiveSessionOf(agent) == {s \in Sessions : AgentOf[s] = agent /\ Live(s)}

(* triggerSession and the scheduler for a root session, spawnChildSession  *)
(* for a child: the parent is read non-terminal, an orchestrator with a    *)
(* live session gets that session back instead of a new one.               *)
FindOrCreate(s) ==
  /\ status[s] = "unborn" /\ s \notin creating
  /\ ParentOf[s] # None => Live(ParentOf[s])
  /\ IsOrchestrator(s) => LiveSessionOf(AgentOf[s]) = {}
  /\ creating' = creating \cup {s}
  /\ UNCHANGED <<rowVars, podVars, hand, sweep, stale, log, envVars, woken>>

(* resumeSession: the original is terminal, and nothing looks for a live   *)
(* session of the agent before the INSERT.                                 *)
Resume(s) ==
  /\ "resume" \in Requests
  /\ status[s] = "unborn" /\ s \notin creating /\ ParentOf[s] = None
  /\ \E original \in Sessions :
       AgentOf[original] = AgentOf[s] /\ status[original] \in Terminal
  /\ creating' = creating \cup {s}
  /\ UNCHANGED <<rowVars, podVars, hand, sweep, stale, log, envVars, woken>>

(* The INSERT: refused by the singleton trigger when the orchestrator has  *)
(* a live session, and by the foreign key when the parent row is gone.     *)
InsertableByParent(s) == ParentOf[s] # None => Exists(ParentOf[s])   \* mutant: no trigger
InsertableByTrigger(s) ==                                            \* mutant: no foreign key
  IsOrchestrator(s) => LiveSessionOf(AgentOf[s]) = {}
Insertable(s) ==
  /\ IsOrchestrator(s) => LiveSessionOf(AgentOf[s]) = {}
  /\ ParentOf[s] # None => Exists(ParentOf[s])

Insert(s) ==
  /\ s \in creating
  /\ creating' = creating \ {s}
  /\ status' = IF Insertable(s) THEN [status EXCEPT ![s] = "pending"] ELSE status
  /\ UNCHANGED <<stamped, why, podVars, hand, sweep, stale, log, envVars, woken>>

(* deleteSessions: one row at a time, whatever its status; the children    *)
(* spawned by it go with it (ON DELETE CASCADE).  The Job is left alone.   *)
Descendants(s) ==
  {d \in Sessions : \A D \in SUBSET Sessions :
     (s \in D /\ \A c \in Sessions : ParentOf[c] \in D => c \in D) => d \in D}

DeleteSession(s) ==
  /\ "delete" \in Requests
  /\ Exists(s)
  /\ LET gone == {d \in Descendants(s) : Exists(d)} IN
       /\ status' = [d \in Sessions |-> IF d \in gone THEN "deleted" ELSE status[d]]
       /\ log' = [d \in Sessions |-> IF d \in gone THEN "none" ELSE log[d]]
  /\ UNCHANGED <<stamped, why, podVars, apiVars, envVars, woken>>
-----------------------------------------------------------------------------
(* The job watcher: a tick launches pending rows one after the other, then *)
(* sweeps the running ones.                                                *)

WatcherFree == Begins("watcher") /\ sweep.rows = {}

LaunchableLive(s) == Live(s)   \* mutant: running rows without a Job are launched again
Launchable(s) == status[s] = "pending"

LaunchSession(s) ==
  /\ WatcherFree
  /\ Launchable(s)
  /\ hand' = [hand EXCEPT !["watcher"] = ToLaunch(s)]
  /\ UNCHANGED <<rowVars, podVars, creating, sweep, stale, log, envVars, woken>>

(* The agent or its workspace is gone, a token cannot be minted, the PVC   *)
(* or the Job is refused: the row is failed, perhaps with the Job created  *)
(* and only the answer lost.  An unexpected exception before the Job is    *)
(* created leaves the row pending for the next tick.                       *)
LaunchFails ==
  /\ "k8s" \in Faults
  /\ hand["watcher"].step = "launch"
  /\ LET s == hand["watcher"].s IN
       \/ /\ hand' = [hand EXCEPT !["watcher"] = ToWrite(s, "failed", "launch", "none")]
          /\ job' = job \/ job' = [job EXCEPT ![s] = IF @ = "none" THEN "active" ELSE @]
       \/ hand' = [hand EXCEPT !["watcher"] = Idle] /\ job' = job
  /\ UNCHANGED <<rowVars, worker, inbox, creating, sweep, stale, log, envVars, woken>>

(* createNamespacedJob; 409 (the Job is already there) counts as created.  *)
CreateJob ==
  /\ hand["watcher"].step = "launch"
  /\ LET s == hand["watcher"].s IN
       /\ job' = IF job[s] = "none" THEN [job EXCEPT ![s] = "active"] ELSE job
       /\ hand' = [hand EXCEPT !["watcher"] = ToWrite(s, "running", "none", "none")]
  /\ UNCHANGED <<rowVars, worker, inbox, creating, sweep, stale, log, envVars, woken>>

(* reconcileRunning: SELECT the running rows, list the Jobs.               *)
SweepList ==
  /\ WatcherFree
  /\ \E s \in Sessions : status[s] = "running"
  /\ sweep' = Sweep({s \in Sessions : status[s] = "running"}, job)
  /\ UNCHANGED <<rowVars, podVars, creating, hand, stale, log, envVars, woken>>

(* The terminal event decides if there is one, the listed Job otherwise.   *)
VerdictOnFailure(s) ==   \* mutant: only a Job that says so has failed
  CASE log[s] # "none" -> StatusOf(log[s])
    [] log[s] = "none" /\ sweep.jobs[s] \in {"none", "succeeded"} -> "complete"
    [] log[s] = "none" /\ sweep.jobs[s] = "failed" -> "failed"
    [] OTHER -> "none"
Verdict(s) ==
  CASE log[s] # "none" -> StatusOf(log[s])
    [] log[s] = "none" /\ sweep.jobs[s] = "succeeded" -> "complete"
    [] log[s] = "none" /\ sweep.jobs[s] \in {"none", "failed"} -> "failed"
    [] OTHER -> "none"

(* One row of the sweep, up to markTerminal's re-read of the row.          *)
SweepRow(s) ==
  /\ Begins("watcher") /\ s \in sweep.rows
  /\ sweep' = Sweep(sweep.rows \ {s}, sweep.jobs)
  /\ hand' = IF Verdict(s) # "none" /\ Live(s)
               THEN [hand EXCEPT !["watcher"] = Ended(s, Verdict(s))]
               ELSE hand
  /\ UNCHANGED <<rowVars, podVars, creating, stale, log, envVars, woken>>

(* A SELECT of the sweep throws: the rows left wait for the next tick.     *)
SweepFails ==
  /\ "db" \in Faults
  /\ Begins("watcher") /\ sweep.rows # {}
  /\ sweep' = NoSweep
  /\ UNCHANGED <<rowVars, podVars, creating, hand, stale, log, envVars, woken>>
-----------------------------------------------------------------------------
(* The event subscriber: one event at a time; persist it, then flip the    *)
(* row if the status just read allows it.  NATS keeps the order of one     *)
(* publisher, so session.started is taken before the terminal event.       *)

AfterEvent(s, e) ==
  CASE e = "started" /\ status[s] = "pending" -> ToWrite(s, "running", "none", "none")
    [] e \in Reports /\ Live(s) -> Ended(s, StatusOf(e))
    [] OTHER -> Idle

Ingest(s, e) ==
  /\ Begins("subscriber")
  /\ e \in inbox[s] /\ (e # "started" => "started" \notin inbox[s])
  /\ inbox' = [inbox EXCEPT ![s] = @ \ {e}]
  /\ log' = IF e \in Reports /\ Exists(s) THEN [log EXCEPT ![s] = e] ELSE log
  /\ hand' = [hand EXCEPT !["subscriber"] = AfterEvent(s, e)]
  /\ UNCHANGED <<rowVars, job, worker, creating, sweep, stale, envVars, woken>>
-----------------------------------------------------------------------------
(* The session reconciler: list the non-terminal rows past the grace       *)
(* window, then probe their Jobs one by one.  The row is not read again.   *)

ReconcilerList ==
  /\ Begins("reconciler") /\ stale = {}
  /\ \E s \in aged : Live(s)
  /\ stale' = {s \in aged : Live(s)}
  /\ UNCHANGED <<rowVars, podVars, creating, hand, sweep, log, envVars, woken>>

RunningVanished(s) == status[s] = "running" /\ job[s] = "none"   \* mutant
Vanished(s) == job[s] = "none"

ReconcilerProbe(s) ==
  /\ Begins("reconciler") /\ s \in stale
  /\ stale' = stale \ {s}
  /\ hand' = IF Vanished(s)
               THEN [hand EXCEPT !["reconciler"] = Ended(s, "failed")]
               ELSE hand
  /\ UNCHANGED <<rowVars, podVars, creating, sweep, log, envVars, woken>>

(* The API server does not answer: the row is left for the next tick.      *)
ReconcilerProbeFails(s) ==
  /\ "k8s" \in Faults
  /\ Begins("reconciler") /\ s \in stale
  /\ stale' = stale \ {s}
  /\ UNCHANGED <<rowVars, podVars, creating, hand, sweep, log, envVars, woken>>
-----------------------------------------------------------------------------
(* The three cancels: refuse a terminal row, write `complete`, delete the  *)
(* Job only if the row was running when it was read.                       *)

CancelBlindly(w, s, reason) ==   \* mutant: a terminal row is not refused
  /\ Begins(w) /\ Exists(s)
  /\ hand' = [hand EXCEPT ![w] = ToWrite(s, "complete", reason, "kill")]
  /\ UNCHANGED <<rowVars, podVars, creating, sweep, stale, log, envVars, woken>>
Cancel(w, s, reason) ==
  /\ Begins(w)
  /\ Live(s)
  /\ hand' = [hand EXCEPT ![w] =
       ToWrite(s, "complete", reason, IF status[s] = "running" THEN "kill" ELSE "none")]
  /\ UNCHANGED <<rowVars, podVars, creating, sweep, stale, log, envVars, woken>>

UserCancel(s)   == Cancel("user", s, "cancelled")
ParentCancel(s) ==
  ParentOf[s] # None /\ worker[ParentOf[s]] = "up" /\ Cancel("parent", s, "cancelled")
ReapSilent(s)   == s \in aged /\ ~IsOrchestrator(s) /\ Cancel("reaper", s, "reaped")
-----------------------------------------------------------------------------
(* What every writer does with what it holds.                              *)

(* updateStatus: UPDATE ... WHERE id, with no condition on the status that *)
(* was read; completed_at and error_message stay when the patch has none.  *)
Stamps(will) == will \in Terminal

Updates(h) ==
  /\ Exists(h.s)
  /\ status' = [status EXCEPT ![h.s] = h.will]
  /\ stamped' = [stamped EXCEPT ![h.s] = @ \/ Stamps(h.will)]
  /\ why' = IF h.will \in Terminal THEN [why EXCEPT ![h.s] = h.why] ELSE why

(* A handler that throws skips its rest, and the rest of its sweep.        *)
DropsSweep(w) ==
  /\ sweep' = IF w = "watcher" THEN NoSweep ELSE sweep
  /\ stale' = IF w = "reconciler" THEN {} ELSE stale

OnwardAnyway(h) ==   \* mutant: the error of a missing row is swallowed
  IF h.after = "none" THEN Idle ELSE [h EXCEPT !.step = h.after]
Onward(h) ==
  IF h.after # "none" /\ Exists(h.s) THEN [h EXCEPT !.step = h.after] ELSE Idle

(* updateStatus throws when the row is gone.                               *)
Write(w) ==
  /\ hand[w].step = "write"
  /\ LET h == hand[w] IN
       /\ hand' = [hand EXCEPT ![w] = Onward(h)]
       /\ \/ Updates(h) /\ UNCHANGED <<sweep, stale>>
          \/ ~Exists(h.s) /\ DropsSweep(w) /\ UNCHANGED rowVars
  /\ UNCHANGED <<podVars, creating, log, envVars, woken>>

(* The launch of a session got to its UPDATE, and the row still says       *)
(* pending: whoever cuts the watcher short now leaves a row that will be   *)
(* launched again, once the Job it may have is gone.                       *)
CutShort ==
  {s \in Sessions :
     hand["watcher"].s = s /\ hand["watcher"].step = "write" /\ status[s] = "pending"}

(* The database refuses the UPDATE: nothing is written, updateStatus throws. *)
WriteRefused(w) ==
  /\ "db" \in Faults
  /\ hand[w].step = "write"
  /\ hand' = [hand EXCEPT ![w] = Idle]
  /\ DropsSweep(w)
  /\ forgotten' = IF w = "watcher" THEN forgotten \cup CutShort ELSE forgotten
  /\ UNCHANGED <<rowVars, podVars, creating, log, aged, epoch, woken>>

(* The UPDATE commits and its answer is lost: updateStatus throws as well, *)
(* so nobody is woken and no Job taken down.                               *)
WriteUnanswered(w) ==
  /\ "answer" \in Faults
  /\ hand[w].step = "write"
  /\ Updates(hand[w])
  /\ hand' = [hand EXCEPT ![w] = Idle]
  /\ DropsSweep(w)
  /\ UNCHANGED <<podVars, creating, log, envVars, woken>>

(* publishStateChangeWake: only to a live orchestrator parent; a publish   *)
(* that fails is logged and forgotten.                                     *)
Wakeable(s) == ParentOf[s] # None /\ Live(ParentOf[s]) /\ IsOrchestrator(ParentOf[s])

Wake(w) ==
  /\ hand[w].step = "wake"
  /\ hand' = [hand EXCEPT ![w] = Idle]
  /\ \/ woken' = IF Wakeable(hand[w].s) THEN woken \cup {<<hand[w].s, hand[w].will>>} ELSE woken
     \/ "wake" \in Faults /\ woken' = woken
  /\ UNCHANGED <<rowVars, podVars, creating, sweep, stale, log, envVars>>

(* terminateForSession: foreground delete; an error is logged and swallowed. *)
Kill(w) ==
  /\ hand[w].step = "kill"
  /\ hand' = [hand EXCEPT ![w] = Idle]
  /\ \/ job' = [job EXCEPT ![hand[w].s] = IF @ = "none" THEN "none" ELSE "terminating"]
     \/ "k8s" \in Faults /\ job' = job
  /\ UNCHANGED <<rowVars, worker, inbox, creating, sweep, stale, log, envVars, woken>>
-----------------------------------------------------------------------------
(* The cluster and the agent's pod (external).                             *)

WorkerStarts(s) ==
  /\ job[s] = "active" /\ worker[s] = "none"
  /\ worker' = [worker EXCEPT ![s] = "up"]
  /\ inbox' = [inbox EXCEPT ![s] = @ \cup {"started"}]
  /\ UNCHANGED <<rowVars, job, apiVars, log, envVars, woken>>

(* The one terminal event of a run; SIGTERM of a deleted Job sends it too. *)
WorkerReports(s, report) ==
  /\ job[s] \in {"active", "terminating"} /\ worker[s] = "up"
  /\ worker' = [worker EXCEPT ![s] = report]
  /\ inbox' = [inbox EXCEPT ![s] = @ \cup {report}]
  /\ UNCHANGED <<rowVars, job, apiVars, log, envVars, woken>>

(* Exit 0 needs a completed run; a crash, exit 1 or the deadline fail it.  *)
JobEnds(s, result) ==
  /\ job[s] = "active"
  /\ result = "succeeded" => worker[s] = "completed"
  /\ job' = [job EXCEPT ![s] = result]
  /\ worker' = [worker EXCEPT ![s] = IF @ \in Reports THEN @ ELSE "dead"]
  /\ UNCHANGED <<rowVars, inbox, apiVars, log, envVars, woken>>

(* The TTL of a finished Job, or the end of a foreground deletion.         *)
JobGone(s) ==
  /\ job[s] \in {"succeeded", "failed", "terminating"}
  /\ job' = [job EXCEPT ![s] = "none"]
  /\ worker' = [worker EXCEPT ![s] = IF @ \in Reports THEN @ ELSE "dead"]
  /\ UNCHANGED <<rowVars, inbox, apiVars, log, envVars, woken>>

(* A Job deleted behind the platform's back, pod and all.                  *)
JobLost(s) ==
  /\ "node" \in Faults
  /\ job[s] = "active"
  /\ job' = [job EXCEPT ![s] = "none"]
  /\ worker' = [worker EXCEPT ![s] = IF @ \in Reports THEN @ ELSE "dead"]
  /\ UNCHANGED <<rowVars, inbox, apiVars, log, envVars, woken>>

(* Core NATS delivers to whoever is subscribed at that moment.             *)
LoseEvent(s, e) ==
  /\ "nats" \in Faults
  /\ e \in inbox[s]
  /\ inbox' = [inbox EXCEPT ![s] = @ \ {e}]
  /\ UNCHANGED <<rowVars, job, worker, apiVars, log, envVars, woken>>

GraceElapses(s) ==
  /\ Exists(s) /\ s \notin aged
  /\ aged' = aged \cup {s}
  /\ UNCHANGED <<rowVars, podVars, apiVars, log, epoch, forgotten, woken>>

(* An api restart forgets every handler in flight.                         *)
Crash ==
  /\ "crash" \in Faults
  /\ creating' = {} /\ hand' = [w \in Writers |-> Idle]
  /\ sweep' = NoSweep /\ stale' = {}
  /\ epoch' = 1 - epoch
  /\ forgotten' = forgotten \cup CutShort
  /\ UNCHANGED <<rowVars, podVars, log, aged, woken>>
-----------------------------------------------------------------------------
Next ==
  \/ \E s \in Sessions :
       \/ FindOrCreate(s) \/ Resume(s) \/ Insert(s) \/ DeleteSession(s)
       \/ LaunchSession(s) \/ SweepRow(s) \/ ReconcilerProbe(s) \/ ReconcilerProbeFails(s)
       \/ UserCancel(s) \/ ParentCancel(s) \/ ReapSilent(s)
       \/ WorkerStarts(s) \/ JobGone(s) \/ JobLost(s) \/ GraceElapses(s)
       \/ \E e \in Events : Ingest(s, e) \/ LoseEvent(s, e)
       \/ \E report \in Reports : WorkerReports(s, report)
       \/ \E result \in {"succeeded", "failed"} : JobEnds(s, result)
  \/ LaunchFails \/ CreateJob \/ SweepList \/ SweepFails \/ ReconcilerList \/ Crash
  \/ \E w \in Writers :
       Write(w) \/ WriteRefused(w) \/ WriteUnanswered(w) \/ Wake(w) \/ Kill(w)

Spec == Init /\ [][Next]_vars

(* Fairness.  Rows are repaired by the reconciler, a loop of the api       *)
(* process that never stops picking up work: its turn ends before the next *)
(* begins, so a candidate is available again and again rather than without *)
(* interruption, hence strong fairness.  A handler that has begun runs to  *)
(* its end.  What fails does not fail for ever: not the reads of the       *)
(* reconciler, and not every UPDATE of a row the loops keep coming back    *)
(* to.  The cluster ends a worker's Job (its deadline; an orchestrator's   *)
(* Job has none) and forgets a finished Job (its TTL); time passes.        *)
(* Nothing is assumed of the watcher's and the subscriber's next turns, of *)
(* users, of the reaper or of failures, and the api restarts finitely often. *)
Loops == {"watcher", "subscriber", "reconciler"}

SessionFairness(s) ==
  /\ SF_vars(ReconcilerProbe(s))
  /\ SF_vars(\E w \in Loops : hand[w].s = s /\ Write(w))
  /\ WF_vars(JobGone(s)) /\ WF_vars(GraceElapses(s))

LoopFairness ==
  /\ SF_vars(ReconcilerList) /\ WF_vars(CreateJob)
  /\ \A w \in Actors : WF_vars(Write(w) \/ Wake(w) \/ Kill(w))
  /\ <>[][epoch' = epoch]_vars

DeadlineFairness ==
  \A s \in WorkerSessions : WF_vars(\E result \in {"succeeded", "failed"} : JobEnds(s, result))

FairSpec == Spec /\ (\A s \in Sessions : SessionFairness(s)) /\ LoopFairness /\ DeadlineFairness
-----------------------------------------------------------------------------
(* Properties.                                                             *)

(* Every variable keeps its type.                                          *)
TypeOK ==
  /\ status \in [Sessions -> Status]
  /\ stamped \in [Sessions -> BOOLEAN]
  /\ why \in [Sessions -> Reasons]
  /\ creating \subseteq Sessions
  /\ job \in [Sessions -> JobState]
  /\ worker \in [Sessions -> {"none", "up", "dead"} \cup Reports]
  /\ inbox \in [Sessions -> SUBSET Events]
  /\ log \in [Sessions -> {"none"} \cup Reports]
  /\ aged \subseteq Sessions
  /\ hand \in [Writers -> Hands]
  /\ sweep \in [rows : SUBSET Sessions, jobs : [Sessions -> JobState]]
  /\ stale \subseteq Sessions
  /\ woken \subseteq Sessions \X Terminal
  /\ epoch \in 0 .. 1
  /\ forgotten \subseteq Sessions

(* Somebody read the row and may still write to it.  A row the reconciler  *)
(* has only listed counts: it is not read again before it is written.      *)
InFlight(s) ==
  \/ s \in stale
  \/ \E w \in Writers : hand[w].s = s /\ hand[w].step \in {"launch", "write"}

Settled(s) == status[s] \in Terminal /\ ~InFlight(s)

(* The lifecycle implements SessionOutcome: a terminal row that no handler *)
(* has in flight keeps its status for ever, whatever handlers start later, *)
(* because each of them refuses a row it reads terminal.                   *)
Phase(s) ==
  IF status[s] \in {"unborn", "deleted"} THEN status[s]
  ELSE IF Settled(s) THEN status[s] ELSE "open"

Outcome == INSTANCE SessionOutcome WITH phase <- [s \in Sessions |-> Phase(s)]

ImplementsOutcome == Outcome!Spec

(* A row that reached a terminal status has completed_at, and a pending    *)
(* row has never been terminal: no writer sends a row back to the queue.   *)
StampedWhenTerminal ==
  \A s \in Sessions :
    /\ status[s] \in Terminal => stamped[s]
    /\ status[s] = "pending" => ~stamped[s]

(* A child's row never outlives its parent's: a parent deleted between the *)
(* spawn's read and its INSERT takes the child with it or refuses it.      *)
ChildHasParent ==
  \A s \in Sessions : Exists(s) /\ ParentOf[s] # None => Exists(ParentOf[s])

(* Row and pod agree on what both can tell, however late the writer: a     *)
(* running row has had its Job, a row that says the run completed by       *)
(* itself had an agent that reported so, and the platform takes a Job down *)
(* only after its row was terminal.                                        *)
RowMatchesPod ==
  \A s \in Sessions :
    /\ status[s] = "running" => job[s] # "none" \/ worker[s] # "none"
    /\ status[s] = "complete" /\ why[s] = "ended" => worker[s] = "completed"
    /\ job[s] = "terminating" => stamped[s]

(* A parent is never told of an end that did not happen: a state_change    *)
(* wake names a child whose row has been terminal, and a wake that says    *)
(* complete names a child whose agent reported so.                         *)
WakeIsTrue ==
  \A wake \in woken :
    stamped[wake[1]] /\ (wake[2] = "complete" => worker[wake[1]] = "completed")

(* No end is kept from a parent: as long as the api does not restart, no   *)
(* publish fails and no UPDATE loses its answer, the outcome in a child's  *)
(* row that neither a cancel, the reaper nor a failed launch wrote has     *)
(* reached the orchestrator that lives, or a handler is about to publish   *)
(* it.                                                                     *)
EndIsTold ==
  {"wake", "answer", "crash"} \cap Faults = {} =>
    \A s \in Sessions :
      status[s] \in Terminal /\ why[s] = "ended" /\ Wakeable(s) /\ ~stamped[ParentOf[s]] =>
        \/ <<s, status[s]>> \in woken
        \/ \E w \in Writers :
             hand[w].step = "wake" /\ hand[w].s = s /\ hand[w].will = status[s]

(* What a parent knows of its children is what happened, and all of it.    *)
WakesMatchEnds == WakeIsTrue /\ EndIsTold

(* What the singleton trigger is worth: it only sees INSERTs, so a row     *)
(* brought back to life by a late UPDATE escapes it, but two sessions of   *)
(* one orchestrator that never ended are never live together.              *)
OneFreshSession ==
  \A s, t \in Sessions :
    (/\ AgentOf[s] = AgentOf[t] /\ IsOrchestrator(s)
     /\ Live(s) /\ ~stamped[s] /\ Live(t) /\ ~stamped[t]) => s = t

(* A Job is created only for a session whose agent has not run yet: the    *)
(* work of a session is done once, although launching retries, rows are    *)
(* written blindly and the api restarts.  The one way around it is a       *)
(* launch cut short between createNamespacedJob and the row, by a restart  *)
(* or by an UPDATE that throws: the row stays pending with a Job, and the  *)
(* session is launched again when the Job's TTL has removed it.            *)
RunsOnce ==
  [][\A s \in Sessions \ forgotten :
       job[s] = "none" /\ job'[s] = "active" => worker[s] = "none"]_vars

(* No row hangs: whatever events and Jobs are lost, every worker session   *)
(* that was created ends settled or deleted.                               *)
SessionsSettle ==
  \A s \in WorkerSessions : Live(s) ~> (Settled(s) \/ status[s] = "deleted")

(* A child whose run ended reaches its parent: a state_change wake goes    *)
(* out even if the pod's last event is lost, unless the parent is over or  *)
(* somebody cancelled the child first.                                     *)
ChildEndReachesParent ==
  \A s \in Sessions :
    (ParentOf[s] # None /\ worker[s] \in Reports \cup {"dead"} /\ status[s] # "unborn")
      ~> \/ \E outcome \in Terminal : <<s, outcome>> \in woken
         \/ ~Wakeable(s) \/ why[s] \in {"cancelled", "reaped"} \/ ~Exists(s)
=============================================================================
