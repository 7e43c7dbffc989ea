# A verification project for x1agent

x1agent runs AI agents as Kubernetes Jobs. An *agent* is a definition: a
harness, a schedule, a kind (`worker` or `orchestrator`), a list of agents it
may spawn. A *session* is one run of an agent: a row of the `sessions` table, a
Job whose pod runs the agent, and the events that pod publishes on NATS. The api
process owns the rows; everything that happens to a session happens by one of
the api's loops or handlers reading a row, awaiting something (Kubernetes, NATS,
Postgres) and writing the row back.

That is where the system is hard. No loop holds a lock, no UPDATE is
conditional, nothing elects a leader among api replicas, NATS core delivers to
whoever is subscribed at that moment, and the whole of the api's memory goes
away on a restart. This directory models those parts in TLA+, checks them with
TLC on small instances, and proves the main safety properties with TLAPS for
every value of the parameters.

Contents

1. The system and what makes each part correct
2. The modules
3. The runs: what each one asks and shows
4. Bounds and fairness
5. The proofs
6. Where the code and its documentation disagree
7. What is abstracted, what is left out
8. Plan

## 1. The system and what makes each part correct

Paths are under `src/`; `api` is `packages/api/src`, `sessions` is
`packages/domains/sessions/src`.

| Component | State | Operations | Hard because | Correct when | Here |
|---|---|---|---|---|---|
| Session rows (`sessions`, `deploy/migrations`) | `status`, `completed_at`, `error_message`, `parent_session_id`, the event log | trigger, spawn, resume, schedule, cancel, cancel child, delete, update status | six writers, no condition on the old status; find-or-create is a read and an INSERT | a settled outcome is final; an orchestrator has one live session; a child has a parent | `SessionLifecycle` |
| Job watcher (`api/k8s/job-watcher.ts`) | none but the rows it is in the middle of | launch pending rows, sweep running ones | long awaits between read and write; a Job created and the answer lost; a list of Jobs older than the row | no row hangs; the work of a session is done once | `SessionLifecycle` |
| Event subscriber (`api/nats/subscriber.ts`) | none | persist events, flip to running or to a terminal status, wake the parent | events lost while the api is away, late events, races with the sweeps | a lost event delays, never prevents, the end of a session | `SessionLifecycle` |
| Session reconciler (`sessions/application/reconcile-session-status.ts`) | the list it probes | list old non-terminal rows, probe their Jobs, fail those without one | the list is stale while it is walked; a throw ends the walk | rows without a Job end; a row is never failed that somebody has settled | `SessionLifecycle` |
| Silent-worker reaper (`api/orchestration/silent-worker-reaper.ts`) | in-memory hints | end a worker silent for too long | races with the worker's own end | as for cancel; a silent worker ends in time, after its parent was told | `SessionLifecycle`, `OrchestratorTimers` |
| Session scheduler (`sessions/application/schedule-due-sessions.ts`) | `agents.last_scheduler_tick_at`, the scheduled rows | compute the due slot, create a session or inject a heartbeat, record the slot | several replicas, stale snapshots, restarts between two writes, slots missed during an outage | no slot of an orchestrator is passed over; a worker runs once per slot; catch-up is bounded | `Scheduler` |
| Wake publisher (`api/orchestration/wake-publisher.ts`) | none | publish `state_change`, `heartbeat`, `message`, `checkup`, `watchdog` wakes | published after the UPDATE, best effort | an end is told, and only an end that happened | in each module that publishes |
| Periodic scheduler (`api/orchestration/periodic-scheduler.ts`) | a timer, the tick in flight | start, run, jitter, stop | the first run may overlap a tick; stop has to drain | ticks of one replica do not overlap | as a loop in `Scheduler` |
| Watchdog, checkup timer, quiet hints (`api/orchestration`) | in-memory ladders, hints and cadences | tell a parent of a silent child, let it look at its children | rows read once and acted on later; memory lost by a restart; sweeps that outlast their interval | a silence is reported in time and no oftener than the ladder says; a parent gets to look at every cadence | `OrchestratorTimers` |
| Session event stream (`packages/agent-claude/src/run.ts`, `packages/sidecar/src`, `sessions/application/append-session-event.ts`) | the agent's event buffer; the sidecar's counter; `session_events`; the JetStream archive and its duplicate window | emit, POST, attach, number, publish, archive, insert, shut down, wind down | an agent that speaks before it is heard; one counter and many publishers; at-most-once delivery; containers that restart one by one | an event has one number and a number one event; output keeps its order; an end is announced once, before the exit and after the start | `EventStream`, `AgentReports` |
| Sidecar input channel (`packages/sidecar/src/channel.rs`) | a JetStream consumer | deliver wakes and messages to the agent | redelivery while a delivery is in hand, lost acks, expiry, an agent not ready yet, a container that dies between post and ack | nothing is put away unread unless stale; nothing is handed over twice without a reason; nothing stays pending while both containers work | `InputDelivery`, `Mailbox` |
| Agent runtime (`packages/agent-claude`, `packages/agent-runtime`) | turn, input queue, idle timer | run turns, report one terminal event | several callers of one shutdown | one terminal event | its output and shutdown in `EventStream` |
| Image catalog and builder (`packages/domains/image-catalog`, `api/image-catalog/builder.ts`, `api/admin-mcp/oci-image-control.ts`) | `agent_images`, `agent_image_oci_operations`, messages on `x1.image.build` | create, edit, rebuild, delete, register, retry; claim, build, validate | a queue that forgets; builds of one row that overlap; a result written by id; a validation that stalls | a row in flight has somebody who takes it further; one build per mark; a chosen image stays usable | `ImageBuilds` |
| Uploads (`packages/domains/uploads`, the hourly sweep of `api/index.ts`) | `uploads`, objects in block storage | init, transfer, complete, delete, sweep | row and object are tied only by the order of steps with awaits between; requests, transfers and sweeps overlap; a sweep takes 200 rows and may be cut short | what is ready was checked; bytes go in time; a row does not go before its bytes | `Uploads` |
| Permission grants, shares, OAuth and MCP proxies, workspaces, auth, web app, providers, deployment | | | | | not modelled, see section 7 |

How they interact: the scheduler, a user (HTTP) and an orchestrator (MCP spawn)
INSERT rows; the watcher turns pending rows into Jobs; the pod of a Job
publishes events; the subscriber turns events into status; the watcher's sweep
and the reconciler repair rows whose events were lost; every end of a child
publishes a wake to a live orchestrator parent; the sidecar of that parent
delivers the wake as the agent's next input. Beside that, three timers watch the
children of a live orchestrator, and an agent's pod is started from the image its
agent pins. The files a user attaches have their own rows, their own sweep and no
connection with sessions.

## 2. The modules

### SessionLifecycle

The sessions table and the six actors that write to it.

| Variable | In the code |
|---|---|
| `status`, `stamped`, `why` | `sessions.status`, `completed_at IS NOT NULL`, who wrote `error_message` |
| `creating` | handlers of trigger, spawn, resume and the scheduler between their find and the INSERT |
| `job`, `worker`, `inbox` | the Job, the agent process in its pod, events published and not ingested |
| `log` | the terminal event in `session_events` |
| `aged` | rows whose `triggered_at` is past the reconciler's grace window |
| `hand` | for each writer, what it holds between the read and the last call of its handler: the row, the status it will write, and whether a wake or a Job deletion follows |
| `sweep`, `stale` | the local variables of `reconcileRunning` (rows left, Jobs as listed) and of the reconciler (candidates left) |
| `woken` | `state_change` wakes published |
| `epoch` | changes with every api restart, for the fairness condition that they are finitely many |
| `forgotten` | history: sessions whose launch was cut short, by a restart or a throw, with the row still `pending` |

A handler is two or three actions because the code awaits inside it. The first
action reads the row and decides (`LaunchSession`, `SweepRow`, `Ingest`,
`ReconcilerProbe`, `Cancel`), with the guard the code has at that point; it
leaves the decision in `hand`. `Write` is `PostgresSessionRepository.updateStatus`,
the same unconditional UPDATE for all of them, including the throw when the row
is gone and what that throw does to the sweep or the list it escapes from. `WriteRefused` is the
UPDATE the database refuses, `WriteUnanswered` the one that commits and loses its answer: either
throws too, and what the handler had still to do is not done. `SweepFails` is a SELECT that
throws in the middle of a sweep.
`Wake` and `Kill` are what follows the UPDATE. `CreateJob` and `LaunchFails` are
the two ways a launch goes. `Crash` empties every local variable at once.

`SessionOutcome` is the abstract specification: a session is created once, is
open while anybody may still write to its row, gets one outcome and keeps it
until the row is deleted. The refinement (`Phase`) maps a terminal row that
somebody still has in flight to `open`: that is the strongest reading of "a
terminal row is immutable" this code supports, and section 6 shows how
the plain reading fails.

`MCSessionLifecycle` gives the instances: one worker session; an orchestrator
session already running with the worker it is about to spawn (`FamilySpec`); two
sessions of one orchestrator and a worker (`Kin...`).

### Scheduler and Timetable

`scheduleDueSessions` on any number of replicas.

| Variable | In the code |
|---|---|
| `now` | the clock |
| `tick` | `agents.last_scheduler_tick_at`, `createdAt` while it is NULL; of orchestrators only, since nothing here reads a worker's |
| `since` | when the schedule was last edited (history, for the property) |
| `runs` | `triggered_at` of the rows with `triggered_by = 'scheduler'` |
| `live` | the orchestrator has a pending or running session |
| `fired`, `burst` | history: starts per slot, slots of a worker started for the first time since the clock moved |
| `unrecorded` | history: the slots of an orchestrator whose last start was not recorded |
| `hand` | a replica's tick: the agents left, its snapshot of the clock and of `tick`, the slot it is working on |

`StartTick` is `now()` and `listScheduled`; `Consider` is the loop body up to its
first await (anchor, due slot, missed slot); `FindLive`, `Inject`, `Create` and
`Record` are the awaits after it; `Taken` is the pair of constraints that raise
23505. Each await may throw, which counts an error and goes on to the next agent:
`ConsiderFails`, `FindFails`, `InjectFails` before anything was done, `RecordFails` when the
slot was started and the UPDATE of the tick throws, or is not reached since the publish or
the INSERT lost its answer. `TimePasses` may happen between any two of them, which is a stalled
replica or an outage. Which slots a cron expression has is the constant
`NextDue`, with the assumption that it is the next of a fixed set of slots.

`Timetable` is what a schedule promises its user: slots are started as they come, in order,
without a gap and once. What the user did is the only excuse: a schedule that is set anew
counts from there (`Restate`), and a slot whose start is forgotten (`Forget`) may be started again,
once each time (`Again`). `Scheduler` implements it twice. `Runs` reads it off the workers,
for any number of replicas: a slot is `gone` while it has started and has no row. `Wakes` reads
it off the orchestrators, with a slot `gone` while its start is `unrecorded`; that needs a single
replica, since an inject leaves no row for another replica to collide with.

`MCScheduler` gives the schedule its slots, and makes the replicas of `cron_worker` a symmetry
set: they run the same code on the same tables, and both properties of the run are safety.

### EventStream

The pod of one session, the two NATS subjects and the api's INSERT.

| Variable | In the code |
|---|---|
| `agent`, `life`, `buffer` | the agent process, how often its container has started, `eventBuffer` in `run.ts` |
| `sidecar`, `starts`, `next` | the sidecar process, its starts, `AppState.sequence` |
| `conn`, `wire` | the agent whose SSE stream `agent_stream_consumer` reads, and what is written to it and not read |
| `calls`, `told` | `publish_event` calls that have drawn their number, and those that have sent the core message |
| `rows`, `archive`, `window` | `session_events`, messages stored on the archive subject, message ids in the duplicate window |
| `dropped`, `made`, `failures`, `lost` | history, for the properties and the bounds |

`Emit` is `emitToStream` (and the prompt pushed before the first await);
`PostStarted`, `PostTool` and `Shutdown` are the three kinds of POST, which
`handle_event` turns into a `publish_event` beside the stream's own. `PublishCore`
and `PublishArchive` are the rest of `publish_event`: the core message with the api's
INSERT, then the archive; `Unheard` and `ArchiveFails` are the ways each can be lost. `Attach` is the
`/stream` handler's replay. `StreamEnds` and `SidecarExit` are the wind-down with
exit code 0, `NeverReady` the task that gave up. `AgentRestart`, `SidecarRestart`
and `PodReplaced` are what `restartPolicy` and `backoffLimit` do. `lost` records
events lost to a fault that has a name, so that `OutputArchived` can say that
nothing is lost without one.

`AgentReports` is what the api may rely on of all this, as an abstract specification: in
one life an agent says that it has started and then how it ended, each at most once; what it
said is on its way until the api takes it, once, or it is lost; and an end is not taken while
the start is on its way. `EventStream` implements it (`Word`, `ReportsIn`), with a report
on its way while its `publish_event` call has not sent the core message. `SessionLifecycle`
takes the same for granted: its `WorkerStarts` is `Start`, `WorkerReports` is `End`, `Ingest`
begins with `Take`, `LoseEvent` is `Lose`, in the single life that its Job has. What keeps the order
is that the agent waits for the answer to `session.started`, which the sidecar gives after
the publish, sent or failed, before it takes its first turn.

### OrchestratorTimers

The watchdog, the reaper and the checkup timer over the children of one parent.

| Variable | In the code |
|---|---|
| `enabled` | which of the three timers the environment leaves on |
| `now`, `up`, `due` | the clock in minutes, the age of the process, the timers that fire this minute |
| `parent`, `status`, `born`, `last` | the rows: the parent is open, each child's status, `triggered_at`, `COALESCE(MAX(timestamp), triggered_at)` |
| `quiet` | `QuietHintStore` |
| `memory`, `glanced` | the watchdog's `state` map, the checkup timer's `lastFiredAt` |
| `hand` | of each timer's sweep: when it began, the rows it read, the child it is about to act on |
| `told`, `warned`, `hushed`, `hindered` | history, for the properties |

`Fire` is the call of `tick` and its query; a tick that finds `ticking` set is
dropped. `Weigh` and `Condemn` are the loop bodies up to their first call with an
effect, on the row as it was read; `Wake` and `Reap` are that call, and `Kept` is the
collection of stale entries at the end of a watchdog's sweep. The rest of the
handlers' awaits only read. `Heeds` is an event of the child being persisted. The
checkup's sweep over one parent is one action, since it looks at nothing that
changes between its awaits.

### ImageBuilds

One row of `agent_images` with its queue, its builder and its validations.

| Variable | In the code |
|---|---|
| `row` | `source_kind`, `dockerfile_source`, `build_status`, `built_ref` |
| `pin` | an agent's `image_id`, and whether the image was selectable when it was set |
| `call` | requests between the read and the write, and between the write and the publish |
| `queue`, `builds` | messages on `x1.image.build`, `handleBuild` calls that have claimed |
| `op`, `hands` | the latest `agent_image_oci_operations` row, the validations that took one |
| `marks`, `claimed`, `lost`, `crossed`, `crashes` | history and bounds |

`Edit`, `Rebuild` and `AskToDelete` are the reads with their early returns, `Save`
and `Delete` the writes, `Enqueue` the publish. `Receive` is the conditional UPDATE
that claims; `Succeed`, `Fail` and `Abandon` are the ways a build ends, the last
being an error that `handleBuild` does not catch. `Take`, `Accept`, `Reject` and
`LeaveOpen` are `processNext`.

### InputDelivery and Mailbox

The way of an input from its publisher to the agent of one session.

| Variable | In the code |
|---|---|
| `path` | `USE_JETSTREAM_PUBLISH` and `USE_JETSTREAM_CONSUME`, which the chart sets alike |
| `published`, `known` | copies sent, message ids in the stream's duplicate window |
| `phase`, `tries` | of each copy at the consumer: ready, delivered and unacknowledged, acknowledged, given up; its deliveries |
| `buffer`, `hand`, `sidecar` | the batch the client pulled, the message the loop is at and what is next for it, the subscriber's state |
| `agent`, `read` | the agent answers; how often each copy reached it |
| `leaving` | the agent's event stream has closed under the sidecar, whose other task is about to exit |
| `expired`, `excuses`, `crashes` | `expires_at` has passed; history and bounds |

`Publish` is `publishInputEnvelope` and `publish_with_dedup`, with what the broker or
the subscription makes of it. `Begin`, `Post`, `PostFails`, `PostUnanswered`, `Ack` and
`Nak` are the loop of `input_subscriber_jetstream`, and of
`input_subscriber_core` when nothing is acknowledged. `AckWait` is the broker's
redelivery, which `Overdue` allows while the message is in the sidecar's hands,
since the ack wait runs from the pull. `GivesUp` is the return after sixty attempts, or with an
error of the broker. When the agent dies, its stream closes (`StreamMayClose`, if the sidecar had
attached), and two seconds later the sidecar exits with 0 (`SidecarExits`), from which only another
pod brings it back (`PodReplaced`), whereas one that crashed is restarted (`SidecarStarts`).

`Mailbox` is what the channel promises, whatever carries it: a letter that was
taken in is put away only when it was read or has gone stale, it is read a
bounded number of times, and a decision about it is final. `InputDelivery` implements
it with `Box`, which reads the phase of a copy at the broker.

### Uploads

The files that users upload: rows, objects, and what takes both back.

| Variable | In the code |
|---|---|
| `backend` | `local` for the adapter that writes files through the api, `s3` for the one that signs URLs |
| `now`, `due` | the clock, in intervals of the sweep; the sweeps that this interval or a start has brought |
| `status`, `expires` | `uploads.status`, `uploads.expires_at` |
| `object` | what storage has: nothing, a file cut short, the declared bytes, bytes of the right size that are something else |
| `put` | the transfer under way for an upload |
| `call` | a `completeUpload` between its awaits |
| `sweep` | a `runUploadsCleanup`: its phase, the `now` it took at its start, the objects it has still to delete |
| `owed`, `excuse`, `crossed`, `hindered` | history: when bytes were to go; when they were last left for a reason; files transferred while they were checked; when a sweep last failed or was missing |

`InitUpload` is the INSERT; `BeginPut` the checks of `PUT /:id/raw`, or of S3, which
knows the signature and not the row; `Truncate` and `EndPut` are `writeFile`, which
empties the file before it fills it. `Complete`, `Stat`, `Sniff`, `Discard`, `Refuse` and
`MarkReady` are the awaits of `completeUpload`: only the last is a conditional UPDATE.
`ReapExpired`, `ListForDeletion`, `Erase`, `EraseFails` and `HardDelete` are the three
phases of the sweep. `Restart` cuts both short wherever they are, and a start brings
a sweep.

### The proofs

A module `X_proofs` beside `X` for each of the seven that describe code, and
`OrchestratorDeadlines_proofs` for the promises of `OrchestratorTimers` that have a
deadline; see section 5.

## 3. The runs

Passing runs:

| Run | Instance | Properties | Shows |
|---|---|---|---|
| `solo` | one worker session; watcher, subscriber, reconciler, reaper, user, all in flight at once; resume, delete; restarts, lost events, refused calls, lost Jobs | `TypeOK`, `RowMatchesPod`, `ImplementsOutcome`, `RunsOnce` | A terminal row nobody has in flight keeps its status. However late a writer, a running row has had its Job, a row says its run completed only if the agent reported so, and a Job is taken down after its row. Whatever restarts or throws, retried launches do the work of a session once, unless the launch was cut short between the Job and the row. |
| `settles` | one worker session without the reaper, at most two writers in flight, fair | `SessionsSettle` | A worker session ends, whatever events, Jobs, UPDATEs and answers are lost |
| `family` | two sessions of an orchestrator, a child of one; reconciler, user, the orchestrator's own cancels; resume, delete; UPDATEs refused | `ChildHasParent`, `WakesMatchEnds`, `OneFreshSession` | The trigger closes the find-or-create race for sessions that never ended; the cascade and the foreign key leave no orphan; a row deleted under a handler stops its wake; what a parent is told is what happened and, short of a restart, a failed publish or a lost answer, all that its children's own runs came to |
| `wakes` | an orchestrator that stays up and its worker, lost events, refused UPDATEs, fair | `ChildEndReachesParent` | A lost terminal event does not lose the wake: a sweep ends the child and publishes it |
| `cron_orchestrator` | two replicas, a schedule with gaps; restarts, failing publishes and queries, deleted rows, edited schedules | `NoSlotSkipped`, `NeverEarly` | Whatever the replicas do to each other, a recorded tick means every slot before it started something, and nothing is started or recorded before its time |
| `cron_worker` | one worker, two replicas that restart, failing queries, deleted runs | `NoStampede`, `WorkersKeepTime` | The unique index is enough for workers: whatever collides, and whichever row a user deletes under a tick, runs keep to the timetable; an outage is not replayed slot by slot |
| `cron_single` | an orchestrator, one replica; restarts, failing publishes and queries, edits, deletions, fair | `OrchestratorsKeepTime`, `OrchestratorServed` | What a single-replica deployment gives: the timetable, a slot started again only when its record was lost, and every slot in the end unless its own row blocks it |
| `pod` | an orchestrator's pod, two output events, one restart or lost message, every fault, fair | `TypeOK`, `NumbersNameEvents`, `OutputInOrder`, `OneTerminalEvent`, `EndIsAnnounced`, `OutputArchived`, `ImplementsReports` | While the sidecar lives, its numbers identify the events of two tasks and of every POST, and sort the output; an end is announced once and before the exit; nothing the agent says is lost without a fault; the api hears a start and an end once per life, and in this order |
| `timers` | a parent and one worker child; hints, failing publishes and queries, slow sweeps, restarts; three sets of enabled timers | `LadderClimbed`, `ReportedInTime`, `WarnedBeforeReaped`, `ReapedInTime`, `GlancedInTime` | However sweeps, activity, hints and restarts interleave: a silence is reported within a minute of its rung, never oftener than the ladder says, before the worker is ended, and the worker is ended in time |
| `images` | two requests at once, two Dockerfiles or a reference, three marks; lost messages, a restart, stalled validations, errors nobody catches, fair | `NothingStranded`, `ClaimedOnce`, `FreshUnlessCrossed`, `PinnedWorks`, `Settles` | A row in flight has somebody who takes it on unless something was lost; the claim is taken once per mark; a reference is fresh unless builds crossed; a chosen image stays usable; validations survive everything |
| `inputs` | two inputs, one that expires, two copies, two deliveries, one crash, both paths, every fault, fair | `OnceUnlessExcused`, `NothingAbandoned`, `ImplementsMailbox`, `Answered` | Nothing is acknowledged unread unless stale; an input is handed over again only after an ack wait, the end of the duplicate window or a crash; none is given up before its last delivery; while the sidecar listens and the agent answers its posts, nothing stays pending for ever |
| `uploads` | two uploads with a batch of one, either backend; a request, a transfer and a sweep at once; refusing storage, failing queries, restarts, hours without a sweep | `ReadyIsChecked`, `ReclaimedInTime`, `NoOrphan` | What is ready was checked unless bytes arrived meanwhile; bytes go within an interval of their time, and a row not before its bytes, unless for a reason the model names |

TLC finds no error in any of them. Where the code falls short of a sentence of the
documentation, the property states what does hold and section 6 quotes the sentence.

`CHECK_DEADLOCK FALSE` everywhere: a system whose sessions are over and whose
clock is at its horizon may stop.

Each property has a mutant in `PROJECT.json`: a definition of the model changed
the way a plausible bug would change the code (a dropped early return, a missing
index, a wake forgotten), under which the same run refutes it. The mutated forms
are the definitions marked `mutant` beside the originals.

## 4. Bounds and fairness

Bounds of `SessionLifecycle`. `Actors`, `Requests`, `Faults` select what
happens; `MaxBusy` limits how many writers are inside a handler at once. `solo`
has all five writers of a root session and no limit (`MaxBusy = 5`): every
interleaving of every handler with every other on one row. Rows interact only
through the singleton trigger, the parent link, and the watcher's and the
reconciler's walks over several rows; `family` and `wakes` have two and three
rows for those. `settles` and `wakes` limit `MaxBusy` to 2, because a liveness
check costs more; three handlers add no way for a row to hang that two do not
have, since each handler, once begun, ends by itself. In `family` no Jobs are
created (the watcher is not among the actors; `KinSpec` starts either with no row
at all or with the orchestrator's pod up), so that three rows can be
explored: its properties are about rows and about ends written by the
reconciler, by users and by the orchestrator. `FamilyInit` starts after the orchestrator's own launch, which `solo` covers, and
`FamilyNext` keeps its pod up: once the orchestrator is over nothing is promised
about wakes.

Bounds of `Scheduler`. The clock runs to `Horizon`: 3 to 6 slots, since a slot is
missed when two more have passed, so three are enough to miss one and catch up,
and five to tell a bounded catch-up from a replayed backlog with two stalled
replicas. Starts of a slot are counted to `MaxFired`, 2 where a second start is what
the property forbids. `EveryHour` has a slot at every time, the densest schedule; `EveryOther`, in
`cron_orchestrator`, has one every other time and runs to 6, so that a slot, a time and a
recorded tick are three different things; the proofs cover every schedule. Two replicas:
a property of this loop breaks by one replica overtaking another. `cron_single` runs to 3: its
orchestrator has no missed slots, and three are a slot, the next, and one to come.

Bounds of `EventStream`. `MaxOutput = 2`: two events are what an order, a gap or a
collision needs, beside `session.started` and the terminal one. `BufferCap = 1`
(1000 in the code) makes two events overflow it. `MaxFaults = 1` counts restarts and
lost NATS messages together; crashes themselves are not counted, so both
containers may crash, but none crashes once the bound is reached. One restart is enough to reach a second life; what a third
would meet is what the second meets. `OnFailure = TRUE` includes the behaviours of a
worker's pod, which are those without a restart.

Bounds of `OrchestratorTimers`. One child: children share only the walk over the rows
and the parent's checkup, and the proofs cover any number. The ladder is 1, 2, 4 minutes
(3, 5, 10, 15, 20 in the code), the reaper's threshold 2 (30) and its interval 2,
the cadence 2 (15), hints of 0 and 2 minutes, and the clock runs to 6: enough to
climb two rungs, to reap at the reaper's second tick, to glance twice, and for a restart or
a hint to fall anywhere between. `Deployments` lets the checkup timer run alone, since it
shares no state with the other two, and the watchdog without the reaper, which
would end the child before the ladder is climbed. "Slow" lets a sweep outlast any number of minutes.

Bounds of `ImageBuilds`. Three marks: the creation, and two more that may cross its
build and each other. Two requests at once, two sources, one restart or unwritten
verdict. `Fail` stands for every way a build ends badly.

Bounds of `InputDelivery`. `MaxCopies = 2` is one input twice (a retry) or two inputs
that share the sidecar's buffer; `MaxDeliver = 2` (5 in the code) is a redelivery and its
limit; one crash at any point, of either container or of the pod. The exit of the
sidecar and the pod that replaces it are not counted: they follow a crash of the agent.

Bounds of `Uploads`. Two uploads and `Batch = 1` (200 in the code): one can be in the way
of the other, in either phase. One request, one transfer at a time and one sweep, each of
which overlaps with the other two; the chart runs one api (`values.yaml`,
`api.replicas`), and the proofs cover any number. A file lives one interval (24) and a
dead row one more (2160), and the clock runs to 4, so that a row is made, expires, is
crowded out and goes, with an interval to spare for a missing sweep. The two uploads are
interchangeable, and no property chooses one, so the run uses symmetry.

Fairness of `SessionLifecycle`. What repairs a row in the end is the reconciler, and only of it is
a next turn assumed. It is a loop that never stops; between two turns the
candidate is not available (the loop is busy), so a row that waits gets its turn under strong
fairness: `ReconcilerList`, `ReconcilerProbe`. The watcher and the subscriber need not launch,
sweep or ingest anything. Inside a handler that has begun, weak fairness: awaits return. An UPDATE may
throw any number of times, but not every time a loop comes back to the same row (strong
fairness of the `Write` of one row by some loop): a database that never takes it
leaves the row as it is. The cluster
removes finished Jobs (`ttlSecondsAfterFinished`) and ends a worker's Job
(`activeDeadlineSeconds`; an orchestrator has none, and gets no such assumption).
Restarts are finite in number. Nothing is assumed of users, of the reaper, of the
pod (which may never report) or of faults (which may happen for ever, restarts
excepted). `Write`, `Wake` and `Kill` of one writer share one condition: a writer
is in one of them at a time.

Fairness of `Scheduler`. Each replica keeps starting ticks
(`PeriodicScheduler` re-arms its timer when a tick ends) and goes on with a tick
it began. The lookup, the publish, the INSERT and the record of one agent may each throw any
number of times, but not every time they are tried (`Succeeds`). Users start sessions
finitely often: otherwise one could start and end
exactly between the tick's find and its INSERT every time. Restarts are finite.

Fairness of `EventStream`. A process that runs goes on: the sidecar connects,
attaches, reads, publishes and winds down; the agent finishes its start and, once
it shuts down, exits; the kubelet restarts what it restarts. Nothing says that an agent
has output, calls shutdown, or that anything fails.

`OrchestratorTimers` states no fairness: its promises have a clock, so they are
invariants. Time passes only when the timers due have fired and, unless something
is slow, their sweeps are done; every property counts a slow sweep from when it ended.
`Uploads` has none for the same reason: time passes only when the sweep of the interval is
over, or the interval is remembered as `hindered`.

Fairness of `ImageBuilds`. A request that began goes on, a message that is there is
received, a Job ends or the wait for it does (30 minutes), the validator's
one-second tick goes on and its `fetch` has a timeout. Nothing is assumed of
administrators or of faults; what a fault lost is excepted by name (`lost`).

Fairness of `InputDelivery`. One condition for the whole channel: as long as the
broker or the sidecar's loop can go on with something, something is done. It holds for a
broker that delivers and redelivers and for a loop that runs. It does not include the start of a container,
since a sidecar that exited with 0 is not restarted, nor the answer to a POST, which has no timeout;
`Answered` excepts both.

## 5. The proofs

From the named assumption of each module (`SessionsAssumption`, `SchedulerAssumption`,
`EventStreamAssumption`, `TimersAssumption`, `ImagesAssumption`, `InputsAssumption`,
`UploadsAssumption`) alone: any number of sessions, agents, replicas and slots, any spawn
relation, any buffer, ladder, number of events, inputs, deliveries, files and restarts, any
batch and lifetime, any subset of actors and faults.

`SessionLifecycle_proofs`. The inductive invariant is

    IInv == TypeOK /\ HandsReady /\ FreshRows
              /\ StampedWhenTerminal /\ OneFreshSession /\ WakeOfStamped

`HandsReady` says what a handler in flight knows: about to write, it holds a
status some code path computed; about to wake, it holds a row already stamped.
`FreshRows` says that a row that is not inserted yet has no history. Without the
first a late write could write anything; without the second an INSERT could
revive a stamped row. The steps are sorted into three groups (`HandSteps`, which
only fill a hand; `QuietSteps`, which touch neither rows nor hands; `RowSteps`)
and each lemma treats a group by its effect. From `Spec => []IInv` follow
`TypeCorrect`, `TerminalStamped` and `FreshSingleton`. A second invariant, on top of it,
is about what the writers believe of the pods:

    GInv == HandsGrounded /\ EvidenceTrue /\ RowMatchesPod /\ WakesEarned

`EvidenceTrue` says that what the code infers a status from (events in the inbox, the
stored terminal event, a list of Jobs that may be old) tells what the agent did, and
`HandsGrounded` that a handler about to write or to wake holds a status that such evidence
supported when it read it. It still does when it writes, although the row, the Job
and the pod may be others by then, because an agent's report is its last word and a stamp
stays (`PastStays`). From it `RowsMatchPods` and `WakesAreTrue`.

- `EndsAreTold`: a step that ends a child either is a write by a handler that goes on to
  wake (`EndsByWrite`), or leaves the end where it was: in a hand that loses it only by
  publishing (`TellingStays`), or published. The parent must be the same as before: one
  that lives and never ended did so already when the child's row was there
  (`ParentLivedBefore`). With `WakesAreTrue` it gives `ParentsKnow`.
- `LifecycleImplementsOutcome`: the refinement. It rests on two lemmas: a step
  changes a row only as `RowMove` allows, and nobody picks up a session whose row
  reads terminal (`SettledUntouched`).
- `ChildrenHaveParents`: by the foreign key at the INSERT and because
  `Descendants` is closed under the parent relation.
- `WorkDoneOnce`: `RunsOnce` from `Untouched`: a session that has not been
  launched, or is being launched, has had neither Job nor worker, unless it is `forgotten`.
  Every step preserves it: one that ends the watcher's launch before the row tells of
  it, a restart or an UPDATE that throws, names the session.

`Scheduler_proofs`.

    SInv == TypeOK /\ EditsPast /\ NoSlotSkipped /\ HandsKnow

`HandsKnow` is the knowledge of a replica inside a tick: every slot up to the
tick it read has been served, so the slot it works on is the only one between
there and what it will record, and when it is about to record, that slot has
been started. It is stable under everything the other replicas do, because starts are never
taken back. From it `SchedulerTypes` and `OrchestratorsNeverSkipped`. `NothingEarly` needs
of a hand only `HandDue`: its clock is past, and the slot it serves is one of the schedule's that its
clock had reached, whatever the anchor it was computed from.

Two refinements map every step to one of `Timetable` or to none. `OrchestratorsPunctual`
assumes one replica and has the invariant

    AloneInv(r) == SInv /\ EarlyInv /\ (\A a \in Orchestrators: Wary(r, a))

`Wary` says where the slots that have started lie. Between two turns they are at or before the tick, except
that the next one after it may have started and be `unrecorded` (`Within`); the one the replica is about to
record is in its hand. Of the slot that is fired, which is the one
in the replica's hand, it follows that it was not fired, or is unrecorded, `HandsKnow`
says that no slot before it was left out, `HandDue` that it has come. A restart or a
throw at the record moves the slot from the hand to `unrecorded` (`RecordLost`), and the
record or the next start takes it out again.
`WorkersPunctual` assumes nothing and has

    KeepInv == EarlyInv /\ EditsPast /\ WakesAreOrchestrators
                 /\ RowsBegun /\ BegunInOrder /\ HandsInOrder

A row is there only for a slot that began (`RowsBegun`), the slots that began are an initial
segment of the schedule (`BegunInOrder`), and a replica about to insert holds a slot with no
predecessor that has not begun (`HandsInOrder`), since its anchor was a row when it read it.
All three survive a deletion, which takes the anchor back to a slot that began, and other
replicas, since what began stays so. So the INSERT either is refused, or is of the next slot, or of
one whose row is gone. That workers have no gap is also the other face of what section 6
says of them: a worker that has missed slots is not moved past them.

`NoStampedes` is an argument about a budget,

    BurstBounded == \A a \in Workers: burst[a] + Cardinality(Stalled(a)) <=
                      Cardinality(Replicas) + Cardinality(Begun(a) \cap Current(a))

`Stalled(a)` are the replicas whose tick began before the clock last moved and which may
still start `a`; `Current(a)` are the slots a tick that reads the clock now does not skip, two at
most (`CurrentIsTwo`). A start by a stalled replica ends its stall, and any other one
adds a current slot to those that have begun (`BoundMoves`); `burst` counts the first start of a
slot, so that a run put back after a user deleted it is not taken for a stampede. It also needs
that a replica takes an agent once in a tick (`TurnsTaken`) and that what a tick of now is about
to start is current (`DueHeld`).

`EventStream_proofs`.

    EInv == TypeOK /\ starts >= 1 /\ OutputWaits /\ PublishedMade
              /\ CounterAhead /\ WireAhead /\ PublishedInOrder /\ NumbersNameEvents
              /\ OneTerminalEvent /\ WindowStored /\ EndKnown /\ EndSettled

The properties speak of what was published; what is about to be published has to
be known first. `OutputWaits` says that buffer and wire are in the order of
emission, `WireAhead` that what is on the wire comes after all output that was
published (which is why the replay must be taken before anything is read),
`PublishedMade` that an agent's notices carry a life and a stage it has reached,
`CounterAhead` that the next number is new. `PublishedStep` reduces the twenty
actions to three effects on the published messages: nothing new, a restart, or
one new message from the wire or a POST. `EndKnown` follows the terminal event from
the POST to the archive. From `Spec => []EInv` follow `NumbersIdentify`,
`OutputOrdered`, `EndsOnce` and `EndAnnounced`. `OutputNeverVanishes` follows one output from
place to place: the buffer is where it waits until the sidecar attaches and the wire from then
on, and no step moves an output out of both without handing it to a publisher or naming the fault
that took it. It needs to know that in the first pod the sidecar reads the agent that runs
and leaves only after it (`PodSteady`).

`PodReports` is the refinement of `AgentReports`, step by step. A report that is taken must not be
said again, nor be on its way twice: `ReportsKnown` says that a report on its way is the
only one of its kind and life, that a start is on its way only while its agent waits for the answer
or has crashed waiting, and so never together with the end of the same life.

`OrchestratorTimers_proofs`.

    TInv == TypeOK /\ Clocked /\ HandsRead /\ SeenPast /\ WakeReached
              /\ UnreadUntold /\ WakesCounted /\ LadderClimbed

`LadderClimbed` bounds what a parent was told by the rungs that the silence has passed.
The count lives in the watchdog's memory, which may be of an older silence than the
child's: `HandsRead` says that a sweep's rows are no newer than the table,
`SeenPast` that the memory is no newer than either, `UnreadUntold` that a silence no sweep has
read has not been told, and `WakesCounted` that otherwise memory and telling agree;
`WakeReached` is what a sweep about to publish has compared. `StepCases` reduces the
actions to those that touch the watchdog. `RungPassed` turns the comparison with one
threshold into a cardinality. From `Spec => []TInv` follow `TimerTypes` and `LadderIsClimbed`.

`OrchestratorDeadlines_proofs`, on top of these.

    BInv == TInv /\ HandTimed /\ OneAtATime /\ RowsKnown /\ HintsHeld
    WInv == BInv /\ SeenRead /\ RungSpent /\ Watching

A deadline is an invariant with some slack in it. `Covered(c, limit, slack)` says that the
child's limit, the end of its hint or the last thing that hindered a sweep is not further back than
the slack, and `Done(t, c)` that this minute's sweep of `t` is done with `c`. A child is
covered without slack once its sweep is done with it and with one minute of slack before (the reaper
fires every second minute: `Left`). The clock moves only when all sweeps are over, or
blames a slow one (`MinuteCosts`), no other step costs a covered child anything
(`StepKeeps`, `StaysCovered`), and a sweep gets done with a child only by beginning without it,
by sparing it for a reason, or by acting on it (`DoneBy`). What the sweep spared it for
is true now and not only when the rows were read, because a sweep belongs to its minute
(`HandTimed`) and a row that has changed since was heard from in it (`RowsKnown`).
For the watchdog there is a third reason to spare a child, an attempt that is already on a
higher rung; `RungSpent` says that the parent was then told of this very silence. From
`BInv` with `Glancing` and with `Reaping` follow `CheckupsOnTime` and
`SilentWorkersReaped`, from `WInv` `SilenceReported` and `NoneReapedUnwarned`, the last
because the reaper's threshold lies beyond the first rung.

`ImageBuilds_proofs`. The invariant adds to the properties that a mark that has not
been claimed has no claim counted (`PendingUnclaimed`), that an image of one kind has only
that kind's helpers (`KindKept`), that a succeeded row has a reference
(`SucceededBuilt`), and that a build which nothing crossed holds the saved source
(`BuildsCurrent`). From it `ImageTypes`, `BuildsClaimedOnce`,
`NobodyStranded`, `PinnedAgentsWork`, `BuildsAreFresh`.

`InputDelivery_proofs`.

    IInv == TypeOK /\ Counted /\ Numbered /\ Untouched /\ MayDeliver /\ AckedReason

`Counted` is the heart: a copy has been read no more often than it was delivered, less the
deliveries that still lie in the buffer or in hand before their post. It is a statement
about the number of places of a copy in a sequence, so the proof rests on lemmas
on counting under `Append` and `Tail`. `AckedReason` says that what is about to be
acknowledged was read or is stale. `ChannelIsMailbox` then maps every step to one of
`Mailbox` or to none.

`HandedOverOnce` counts an input over all its copies. `Accounted` adds, to what it was handed
over, all that may still be handed over without a further excuse: its deliveries in the buffer (`Held`),
the one in hand unless it is only to be acknowledged (`Open`), its copies that are ready
(`Due`) and a first publication that will get through (`New`); the sum stays
within one more than its excuses. Every step moves one of these on to the next or loses
it, and the three that create one (the end of the duplicate window, the end of an
ack wait, a post whose answer never came) are the excuses. `InputsNotAbandoned` has one part for
each path: what the stream let go of had its last delivery (`LetGo`), and what the core path
took in is where the sidecar can find it (`Kept`).

`Uploads_proofs`.

    IInv == TypeOK /\ Rooted /\ Doomed /\ Seen /\ ReadyAlone /\ PutsFresh
              /\ (\A s: Vouched(s)) /\ LiveOwed /\ (\A s: Served(s)) /\ ReclaimedInTime

What a request has seen and not yet acted on is `Seen`: about to discard or to mark, it
knows what its upload looks like, unless the upload is crossed. `ReadyAlone` says that
nobody is about to discard a ready file and no transfer is on its way to it. `Vouched`
is what `NoOrphan` needs of a sweep between its phases: an object whose row is old enough to
go, and which the sweep has not on its list, was left after that age or came later.
`Served` is the same for `ReclaimedInTime`, at the time of the sweep: what this sweep has passed is
excused or was not due. Most steps do neither good nor harm to these two, and
the lemmas called `Framed` and `Steady` reduce them to what they do to one upload, seen
from a sweep that does not take the step; a sweep's own steps and the clock's are treated apart.
From `Spec => []IInv` follow `UploadTypes` (which no run repeats), `UploadsChecked`,
`UploadsReclaimed` and `UploadsNotOrphaned`.

Some theorems state what no run repeats: `TerminalStamped`, `WakesAreTrue` and `EndsAreTold`
are parts of, or follow from, something a run does check;
`OutputNeverVanishes` is what `OutputArchived` rests on; and the type invariants of `Scheduler`,
`OrchestratorTimers`, `ImageBuilds`, `InputDelivery` and `Uploads`, which the runs give up for properties with more to say.

Out of the prover's reach, and checked by TLC only: the liveness properties
(`SessionsSettle`, `ChildEndReachesParent`, `OrchestratorServed`, `OutputArchived`,
`Settles`, `Answered`). TLAPS reasons about neither fairness nor ENABLED. What they
rest on is proved where it is safety: `EndsAreTold` and `OutputNeverVanishes` say that what is to
arrive is always somewhere from where it can go on, `OrchestratorsNeverSkipped` that a tick
recorded is a tick served, `InputsNotAbandoned` and `ChannelIsMailbox` that an input is put away or given up only
for cause, `NobodyStranded` that a row in flight has somebody who takes it further. That they do
go on is what TLC checks, under the fairness of section 4.

## 6. Where the code and its documentation disagree

Seen while modelling. None has a run of its own: the model shows each when the sentence is
stated as a property.

- `schedule-due-sessions.ts:81`: "Skip those slots and advance
  the anchor to `now`." What is advanced is `last_scheduler_tick_at`, and a worker's anchor
  is its last scheduled row: after an outage of more than two slots the worker is skipped
  at every tick.
- `docs/.../architecture/sessions.md:30`: "Once it reaches a terminal
  state ... the row is immutable." `launchSession` reads `pending` and ends with
  an unconditional UPDATE to `running`; a cancel in between is undone.
- `append-session-event.ts:13`: `null` means that "the row was already
  persisted (duplicate delivery)". The counter is in the sidecar's memory
  (`main.rs:177`); after a restart new events collide with the rows of the first life on
  `UNIQUE (session_id, seq)` and are dropped as duplicates, until the counter passes
  the highest stored number. `reference/protocol.md:23` knows that the counter
  "resets to 0 if the sidecar restarts mid-session"; `008_session_events.sql:8`
  says it is "monotonically increasing per session". The archive's message id
  (`archive.<session>.<seq>`) repeats too, and within the stream's duplicate window the
  broker drops the message.
- `orchestration.md:148`: when an orchestrator's pod dies, "`restartPolicy:
  OnFailure` brings it back." When only the agent container dies, the sidecar sees its
  stream close and exits with 0 (`stream.rs:84`), which `OnFailure` does not restart:
  the agent that comes back has nobody to read it or take its POSTs.
- `cancel-session.ts:47`: "reconciler picks up the straggler on next tick." A cancel
  that read `pending` deletes no Job, and both sweeps look only at live rows; the
  Job runs to its deadline, an orchestrator's for ever.
- `sessions.md:69`: the scheduler "swallows it and moves on". A restart between the
  INSERT and `recordSchedulerTick`, an error of the latter, or an INSERT that commits and loses
  its answer (`schedule-due-sessions.ts:159` catches both, and counts an error) leaves an orchestrator's own row in the way of
  every later tick, once the session is over: one replica without any restart is enough. `OrchestratorServed`
  excepts it (`Blocked`). After an inject, the same error brings a second heartbeat for the slot at the next
  tick (`unrecorded`).
- A launch is retried because its row still says `pending` (`job-watcher.ts:247`). An UPDATE that throws after
  `createNamespacedJob` (`job-watcher.ts:631`, caught at 257), or a restart there, leaves such a row with a
  Job. The next tick meets a 409 and writes `running`, or the pod's own events do; but when none of these
  succeeds before the Job has ended and its TTL of 300 s has removed it, the session is launched again and its work is done
  twice. `RunsOnce` excepts these sessions (`forgotten`) and no others.
- An agent that ends before its sidecar attaches takes its buffer with it, and the
  sidecar, whose task then returns, stays and keeps the Job active until its deadline,
  an orchestrator's for ever (`stream.rs:20`).
- `shutdown(false)` exits with 1: under `OnFailure` an orchestrator that has announced
  `session.failed` is started again.
- `reconcile-session-status.ts:75`: the reconciler and the watcher "both use
  `UPDATE ... WHERE status='running'` semantics and converge". `updateStatus` has
  no such condition; the reconciler writes `failed` over the watcher's `complete`.
- `018_orchestrator_singleton.sql:3`: "at most one non-terminal session ... at any
  moment". The trigger is BEFORE INSERT; a late UPDATE to `running` escapes it.
  `OneFreshSession` is what it does give.
- `orchestration.md:178`: a `state_change` wake for every child status
  "transitioning to `complete` or `failed`". The silent-worker reaper publishes
  none.
- `job-watcher.ts:642`: "we append a synthetic `session.failed` event". Nothing
  does.
- `sessions.md:73`: the scheduler is "safe to run from multiple API replicas because
  the unique index is the lock". A heartbeat inserts no row and is injected
  twice; and a slow replica that records an older slot over a newer one leaves
  the newer slot's row in the way of an orchestrator, as after a restart.
- `schedule-due-sessions.ts:86`: "one wake catches the agent up regardless of how
  many slots passed". The slot is recorded, not the clock, so an orchestrator
  replays each missed slot, one per tick.
- Deleting the row of a worker's last run moves its anchor back, and the slot runs again.
- `wake-publisher.ts:149`: "child only transitions into each terminal state once".
  It may be written by two writers; the broker's deduplication on the message id
  makes the second publish harmless within its window.
- `orchestration.md:192` gives the watchdog's ladder as 5, 10, 20, 40, 60 minutes;
  `activity-watchdog.ts:58` has 3, 5, 10, 15, 20.
- `wake-publisher.ts:162`: the backoff keeps a stuck child from generating "wake spam". Past the
  last rung (20 minutes) the threshold no longer grows, and every sweep publishes, once
  a minute. And `activity-watchdog.ts:27`: a restart costs at worst "one extra wake"; the
  ladder starts at the first rung with the silence already past all of them, so that
  each of the following sweeps publishes. The same happens when a long hint expires.
  `LadderClimbed` therefore speaks of silences below the last rung and counts from a restart.
- `checkup-timer.ts:43`: "Minimum time between checkups per orchestrator." An
  orchestrator without a child at one sweep is forgotten, and its next child brings a
  checkup at once.
- `index.ts:1148`: the reaper is "the hard termination after that", the wake to the parent.
  When a hint longer than the reaper's threshold expires, both fire and the child may be ended
  first; `WarnedBeforeReaped` excepts it. The reaper also ends a child that was heard from
  after the sweep read its rows.
- `image-catalog/builder.ts:32`: "at-least-once delivery with crash recovery". The queue is core NATS:
  a lost message, a restart during a build, or an error that `handleBuild` does not catch leaves
  the row `pending` or `building` for good, and `requestRebuild` then finds it "already in
  flight" (`image-catalog-service.ts:153`). Only a change of the Dockerfile gets it going.
- `image-status.ts:8`: "succeeded — last build pushed; `built_ref` is fresh". An edit during a build
  starts a second one; whichever ends last writes its reference, and the first to end
  says `succeeded` before the second has.
- `image-catalog-service.ts:168`: a deletion refuses while an agent pins the image, but reads the
  pins before it deletes: a pin in between is set to NULL by the foreign key and the agent
  runs on the default image.
- `control-plane.ts:1821` says that "an OCI image cannot be changed into a Dockerfile build"; the REST routes do not
  look at `source_kind`, and the builder builds such a row.
- `channel.rs:162`: a message that fails "naks five times and goes to dead-letter". There is no dead
  letter: it stays in the stream, delivered to nobody.
- `values.yaml:138`: with JetStream "messages survive sidecar/pod restart". An input is
  acknowledged when it is in the agent's memory; if the agent's container dies before the turn,
  it is gone. And the sidecar pulls ahead of what it posts, one message at a time and
  without a timeout: a slow agent gets the rest of the batch twice without any crash.
- `051_uploads.sql:20`: of an expired upload, the "storage object is deleted on the same sweep", and of
  a deleted one (`image-uploads.md:48`) "on the next cleanup tick". Both phases take the 200 rows
  that expire first (`postgres-upload-repository.ts:117`), and a row stays listed, its object long
  gone, until it is 90 days old: with more than 200 dead rows the newer ones wait.
- `image-uploads.md:46`: for an attached upload the "TTL rolls forward". Nothing calls
  `markAttached`, so that a file in use expires after a day.
- `complete-upload.ts:46`: the checks are of what storage has at that moment. A `PUT` that
  began while the row was pending, and with S3 any `PUT` within the URL's quarter of an hour,
  writes over what was checked; `ReadyIsChecked` excepts it (`crossed`).
- `complete-upload.ts:38`: a file that fails the checks is to be marked "expired". It is marked deleted.
- `run-cleanup.test.ts:81`: "second tick on the same state is a no-op". It deletes the
  objects of all dead rows again, and counts them, each tick for 90 days (a row stays listed),
  so that the expectation of `objectsDeleted` being 0 does not follow from the code.
- A sweep hard-deletes an old row although storage has just refused to delete its object, and
  nothing else knows the object (`run-cleanup.ts:71`); `NoOrphan` excepts it.
- `channel.rs:169`: a sidecar whose agent is not ready within a minute stops listening for the rest of its
  life; so does one that the broker refuses the stream or the consumer (`channel.rs:461`), since the task ends with the error.
- `values.yaml:138` once more: of the inputs that are pending when the agent's container dies, none is delivered until there is another pod.
  The sidecar exits with 0 two seconds after the agent's stream has closed (`stream.rs:71`), and
  neither `OnFailure` nor `Never` restarts it (`pod-spec.ts:501`). And a POST to an agent that
  takes it and never answers holds back all that follow (`channel.rs:353` sets no timeout). `Answered` excepts both.

## 7. What is abstracted, what is left out

Abstracted, and why it is sound for the properties stated:

- Reads that the code makes back to back, with nothing of another actor's to
  see between them, are one action: the SELECT and the list of Jobs in a sweep;
  the persist and the re-read in the subscriber; the clock and `listScheduled`.
- Events of one session arrive in order, started before terminal. Errors
  of the database are modelled where a status is read or written; that an event fails to be appended
  is left out (the subscriber logs it and goes on).
- `resumed_from` is not tracked: it has no effect on status.
- A Job is one attempt; restarts of a container inside it are the Job being
  active.
- The LIMITs of the launcher's query (20) and of the sweep's (50) are left out.
  They matter only with more rows than that, and then a window full of
  long-lived orchestrators can keep others out; listed as a hazard.
- Token counts, summaries, usage, shares: columns no transition reads.
- In `EventStream`, the row is written with the core publish: one connection and one
  loop of the api keep the order, and no property reads the table in between. What
  an agent wrote to its socket before it exits by itself is read (it waits 500 ms);
  what it wrote before a crash may not be. Transient events and share-comment
  filtering are left out, and so is the archive when JetStream publishing is off.
- In `OrchestratorTimers`, a minute is the unit and a sweep takes less than one unless
  something is slow; a wake says nothing but that it was sent, and whether the sidecar delivers
  it is `InputDelivery`'s. A parent that is not an orchestrator is never woken and is left out.
- In `ImageBuilds`, the objects of a build are left out (each build has a name of its
  own), and so are presets, which no request may change.
- In `InputDelivery`, both flags of the path are one, a staging message counts as a post
  (the sidecar applies it itself and acknowledges alike), and the backoff between deliveries has no length. The broker removes a consumer that nobody
  has asked for an hour (`inactive_threshold`), and a sidecar that comes later makes a new one, which
  begins with all that the stream still keeps, acknowledged or not: left out, so that what is said of crashes is
  said of sidecars that are back within the hour.
- In `Uploads`, the unit of time is one interval of the sweep, about an hour with its jitter, and a
  transfer ends within the interval of its start (the URL lives a quarter of an
  hour). A deletion's read and its UPDATE are one action, as are the S3 adapter's calls for one
  object. Reading a file, the rate limit and the storage key change nothing that is modelled.
- In `Scheduler`, an `@every` schedule, whose slots move with the anchor, is
  covered only when it has a slot at every time; pausing an agent is left out.

Not modelled:

- the periodic scheduler's start and stop, the launch queue's limits, the shared-branch
  reaper, the idempotency of admin operations: candidates, section 8;
- permission grants, the agent runtime's turns and its input queue: candidates after that;
- shares and comments, workspaces, auth, invitations: record keeping
  without concurrency of its own;
- OAuth and MCP proxies, providers, charts, the web app: adapters, input and
  output, rendering.

## 8. Plan

Done: `SessionOutcome`, `SessionLifecycle`, `Timetable`, `Scheduler`, `EventStream`, `AgentReports`, `OrchestratorTimers`,
`ImageBuilds`, `Mailbox`, `InputDelivery`, `Uploads`, their instances and their proofs.

Next, in this order:

1. The launch queue with its LIMITs: starvation.
2. `InputDelivery` composed with the agent's turns and its input queue in memory, where an
   acknowledged input may still be lost; and with `SessionLifecycle`'s `woken`.
3. `PeriodicScheduler`: overlap of the first run, stop and drain.
4. The shared-branch reaper, the operation store of the admin MCP, permission grants.

Every safety property that a run checks is also proved. Two theorems assume more than the named
assumptions on the constants: `OrchestratorsPunctual` what `cron_single` makes true, one
replica, and `NoStampedes` that the replicas are finitely many.
