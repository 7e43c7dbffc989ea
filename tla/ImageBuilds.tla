------------------------------ MODULE ImageBuilds ------------------------------
(***************************************************************************)
(* One image of a workspace's catalog, from the row that an administrator  *)
(* creates, edits, rebuilds and deletes, through the build queue, to the   *)
(* builder that claims it, runs a Kaniko Job and writes the result; and    *)
(* the other kind of image, whose reference is only validated, by a queue  *)
(* of operations kept in the database.                                     *)
(*                                                                         *)
(* A request reads the row, decides, writes and publishes, with awaits in  *)
(* between, so that requests and builds overlap; a build writes its result *)
(* without looking at the row again.  The queue is core NATS: a message    *)
(* that nobody is there to take is gone.  The requests, the builder and    *)
(* the validator live in the api's one process and die with it.            *)
(*                                                                         *)
(* Left out: presets, the names and descriptions, the ConfigMap and Job    *)
(* objects of a build (every build has its own and cleans up after it), a  *)
(* second replica of the api (the chart runs one).                         *)
(***************************************************************************)
EXTENDS Naturals, FiniteSets

CONSTANTS
  Dockerfiles, \* the sources an administrator may save
  Reference,   \* the OCI reference of an image that is only validated
  Blank,       \* '': no Dockerfile, or nothing built yet
  Callers,     \* requests under way at once
  MaxMarks,    \* bound: how often the row is set to 'pending'
  MaxCrashes,  \* bound: how often the process dies or a verdict is not written
  Faults       \* which of "crash", "drop", "stall", "throw" may happen

ASSUME ImagesAssumption ==
  /\ Blank \notin Dockerfiles /\ Reference \notin Dockerfiles \cup {Blank}
  /\ MaxMarks \in Nat /\ MaxCrashes \in Nat
  /\ Faults \subseteq {"crash", "drop", "stall", "throw"}

VARIABLES
  row,     \* the agent_images row
  pin,     \* agents.image_id: "none", "chosen" while selectable, or "forced"
  call,    \* what each request is in the middle of
  queue,   \* messages on x1.image.build for this image
  builds,  \* the builds the builder is in the middle of
  op,      \* the latest row of agent_image_oci_operations
  hands,   \* the operations that validations in progress took
  marks,   \* how often the row was set to 'pending'
  claimed, \* how often the builder claimed it since the last mark
  lost,    \* what was to lead to a build was lost since the last mark
  crossed, \* the row was marked, since a build began alone, while one went on
  crashes

requests == <<call, pin>>
history  == <<marks, claimed, lost, crossed>>
vars == <<row, requests, queue, builds, op, hands, history, crashes>>

NoRow  == [kind |-> "none", source |-> Blank, status |-> "none", ref |-> Blank]
Exists == row.kind # "none"
Resting == [step |-> "none"]
Closed  == [id |-> 0, status |-> "none"]
Active  == op.status \in {"pending", "processing"}   \* the partial unique index

Init ==
  /\ row = NoRow /\ pin = "none"
  /\ call = [c \in Callers |-> Resting]
  /\ queue = 0 /\ builds = {} /\ op = Closed /\ hands = {}
  /\ marks = 0 /\ claimed = 0 /\ lost = FALSE /\ crossed = FALSE /\ crashes = 0
-----------------------------------------------------------------------------
(* Requests.                                                               *)

Saved(r, s) == [r EXCEPT !.source = s]
Begun(r) == [r EXCEPT !.status = "building"]

Does(c, what) == call' = [call EXCEPT ![c] = what]

(* The row is set to 'pending'.                                            *)
Marked(r) ==
  /\ marks < MaxMarks /\ marks' = marks + 1
  /\ row' = [r EXCEPT !.status = "pending"]
  /\ claimed' = 0 /\ lost' = FALSE
  /\ crossed' = (crossed \/ builds # {})

Create(c, s) ==
  /\ call[c] = Resting /\ marks = 0
  /\ Marked([kind |-> "workspace_build", source |-> s, status |-> "none", ref |-> Blank])
  /\ Does(c, [step |-> "enqueue"])
  /\ UNCHANGED <<pin, queue, builds, op, hands, crashes>>

(* The row and its first operation are inserted in one transaction.        *)
Register ==
  /\ marks = 0
  /\ Marked([kind |-> "external_oci", source |-> Blank, status |-> "none", ref |-> Blank])
  /\ op' = [id |-> 1, status |-> "pending"]
  /\ UNCHANGED <<requests, queue, builds, hands, crashes>>

(* update and requestRebuild read the row and may find nothing to do.      *)
Edit(c, s) ==
  /\ call[c] = Resting /\ Exists /\ row.source # s
  /\ Does(c, [step |-> "write", source |-> s])
  /\ UNCHANGED <<row, pin, queue, builds, op, hands, history, crashes>>

InFlight(status) == status \in {"pending", "building"}
Rebuild(c) ==
  /\ call[c] = Resting /\ Exists /\ ~InFlight(row.status)
  /\ Does(c, [step |-> "mark"])
  /\ UNCHANGED <<row, pin, queue, builds, op, hands, history, crashes>>

(* The repository's update, on a row that may have changed since.          *)
WriteOnly(c) ==   \* mutant: the build under way is taken to be of what is saved
  IF call[c].step = "write" /\ InFlight(row.status)
    THEN row' = Saved(row, call[c].source) /\ UNCHANGED history
    ELSE Marked(IF call[c].step = "write" THEN Saved(row, call[c].source) ELSE row)
Write(c) ==
  Marked(IF call[c].step = "write" THEN Saved(row, call[c].source) ELSE row)
Save(c) ==
  /\ call[c].step \in {"write", "mark"}
  /\ IF Exists
       THEN Write(c) /\ Does(c, [step |-> "enqueue"])
       ELSE Does(c, Resting) /\ UNCHANGED <<row, history>>
  /\ UNCHANGED <<pin, queue, builds, op, hands, crashes>>

(* NATS: a message that does not arrive was lost on the way or met no      *)
(* subscription.                                                           *)
Enqueue(c) ==
  /\ call[c].step = "enqueue"
  /\ \/ queue' = queue + 1 /\ UNCHANGED lost
     \/ "drop" \in Faults /\ lost' = TRUE /\ UNCHANGED queue
  /\ Does(c, Resting)
  /\ UNCHANGED <<row, pin, builds, op, hands, marks, claimed, crossed, crashes>>

(* delete refuses while an agent pins the image, then deletes: a pin made  *)
(* in between is set to null by the foreign key.                           *)
AskToDelete(c) ==
  /\ call[c] = Resting /\ Exists /\ pin = "none"
  /\ Does(c, [step |-> "delete"])
  /\ UNCHANGED <<row, pin, queue, builds, op, hands, history, crashes>>

Delete(c) ==
  /\ call[c].step = "delete"
  /\ row' = NoRow /\ pin' = "none" /\ op' = Closed
  /\ Does(c, Resting)
  /\ UNCHANGED <<queue, builds, hands, history, crashes>>

(* The retry of an image that is only validated: one transaction.  The     *)
(* operation is not inserted while another is active.                      *)
OnlyOnce(o) == IF o.status # "none" THEN o ELSE [id |-> 1, status |-> "pending"]   \* mutant
Requeued(o) == IF Active THEN o ELSE [id |-> o.id + 1, status |-> "pending"]
Retry ==
  /\ row.kind = "external_oci" /\ ~InFlight(row.status)
  /\ Marked(row)
  /\ op' = Requeued(op)
  /\ UNCHANGED <<requests, queue, builds, hands, crashes>>

(* An agent is saved with this image: the api asks no more than that it    *)
(* exists, the web app offers it when its status is selectable.            *)
Selectable(status) == status = "succeeded"
Pin ==
  /\ Exists /\ pin = "none"
  /\ pin' = IF Selectable(row.status) THEN "chosen" ELSE "forced"
  /\ UNCHANGED <<row, call, queue, builds, op, hands, history, crashes>>

Unpin ==
  /\ pin # "none" /\ pin' = "none"
  /\ UNCHANGED <<row, call, queue, builds, op, hands, history, crashes>>
-----------------------------------------------------------------------------
(* The builder.                                                            *)

(* handleBuild: whoever takes the row from 'pending' to 'building' goes on.*)
Reclaimable(status) == InFlight(status)   \* mutant
Claimable(status) == status = "pending"
Receive ==
  /\ queue > 0 /\ queue' = queue - 1
  /\ IF Claimable(row.status)
       THEN /\ row' = Begun(row)
            /\ builds' = builds \cup {[n |-> marks, source |-> row.source]}
            /\ claimed' = claimed + 1
            /\ crossed' = (crossed /\ builds # {})
       ELSE UNCHANGED <<row, builds, claimed, crossed>>
  /\ UNCHANGED <<requests, op, hands, marks, lost, crashes>>

(* The results, written by id: to no effect once the row is gone.          *)
Result(r, s) == [r EXCEPT !.status = "succeeded", !.ref = s]
FailureWiped(r) == [r EXCEPT !.status = "failed", !.ref = Blank]   \* mutant
Failure(r) == [r EXCEPT !.status = "failed"]

Succeed(b) ==
  /\ b \in builds /\ b.source # Blank
  /\ builds' = builds \ {b}
  /\ row' = IF Exists THEN Result(row, b.source) ELSE row
  /\ UNCHANGED <<requests, queue, op, hands, history, crashes>>

(* The Job cannot be created, fails, outlasts the wait or tells no digest. *)
Fail(b) ==
  /\ b \in builds
  /\ builds' = builds \ {b}
  /\ row' = IF Exists THEN Failure(row) ELSE row
  /\ UNCHANGED <<requests, queue, op, hands, history, crashes>>

(* An error that handleBuild does not catch: of the database, of replacing *)
(* a ConfigMap, of reading the Job's log or message.                       *)
Abandon(b) ==
  /\ "throw" \in Faults /\ b \in builds
  /\ builds' = builds \ {b} /\ lost' = TRUE
  /\ UNCHANGED <<row, requests, queue, op, hands, marks, claimed, crossed, crashes>>
-----------------------------------------------------------------------------
(* The validator.                                                          *)

(* processNext: the oldest operation that is pending, or that has been     *)
(* processing for five minutes: its validation died, or it stalls.         *)
OnlyPending == op.status = "pending"   \* mutant
Takeable == \/ op.status = "pending"
            \/ op.status = "processing" /\ (hands = {} \/ "stall" \in Faults)
Take ==
  /\ Takeable
  /\ op' = [op EXCEPT !.status = "processing"]
  /\ row' = Begun(row)
  /\ hands' = hands \cup {op.id}
  /\ UNCHANGED <<requests, queue, builds, history, crashes>>

Judge(id, verdict) ==
  /\ id \in hands
  /\ \/ hands' = hands \ {id}
     \/ "stall" \in Faults /\ UNCHANGED hands   \* another one that took it goes on
  /\ IF Exists
       THEN row' = verdict /\ op' = IF id = op.id THEN [op EXCEPT !.status = "done"] ELSE op
       ELSE UNCHANGED <<row, op>>
  /\ UNCHANGED <<requests, queue, builds, history, crashes>>
Accept(id) == Judge(id, Result(row, Reference))
Reject(id) == Judge(id, Failure(row))

(* The verdict cannot be written: the operation stays 'processing'.        *)
LeaveOpen(id) ==
  /\ "throw" \in Faults /\ crashes < MaxCrashes /\ crashes' = crashes + 1
  /\ id \in hands /\ hands' = hands \ {id}
  /\ UNCHANGED <<row, requests, queue, builds, op, history>>
-----------------------------------------------------------------------------
(* The process dies with its requests, its subscription's messages, its    *)
(* builds and its validations.                                             *)
Crash ==
  /\ "crash" \in Faults /\ crashes < MaxCrashes /\ crashes' = crashes + 1
  /\ call' = [c \in Callers |-> Resting]
  /\ queue' = 0 /\ builds' = {} /\ hands' = {}
  /\ lost' = (lost \/ queue > 0 \/ builds # {} \/ \E c \in Callers : call[c].step = "enqueue")
  /\ UNCHANGED <<row, pin, op, marks, claimed, crossed>>

Next ==
  \/ \E c \in Callers :
       \/ Rebuild(c) \/ Save(c) \/ Enqueue(c) \/ AskToDelete(c) \/ Delete(c)
       \/ \E s \in Dockerfiles : Create(c, s) \/ Edit(c, s)
  \/ Register \/ Retry \/ Pin \/ Unpin
  \/ Receive \/ \E b \in builds : Succeed(b) \/ Fail(b) \/ Abandon(b)
  \/ Take \/ \E id \in hands : Accept(id) \/ Reject(id) \/ LeaveOpen(id)
  \/ Crash

(* Requests that began go on, messages are received, a Job ends or its     *)
(* wait does, and the validator is called every second.                    *)
Fairness ==
  /\ \A c \in Callers : WF_vars(Save(c) \/ Enqueue(c) \/ Delete(c))
  /\ WF_vars(Receive) /\ WF_vars(Take)
  /\ WF_vars(\E b \in builds : Succeed(b) \/ Fail(b))
  /\ WF_vars(\E id \in hands : hands' = hands \ {id} /\ (Accept(id) \/ Reject(id)))

Spec == Init /\ [][Next]_vars /\ Fairness
-----------------------------------------------------------------------------
(* Properties.                                                             *)

(* Every variable keeps its type.                                          *)
Statuses == {"pending", "building", "succeeded", "failed"}
Calls ==
  [step : {"none", "mark", "enqueue", "delete"}] \cup [step : {"write"}, source : Dockerfiles]
Rows ==
  [kind : {"workspace_build", "external_oci"}, source : Dockerfiles \cup {Blank},
   status : Statuses, ref : Dockerfiles \cup {Reference, Blank}]
TypeOK ==
  /\ row \in {NoRow} \cup Rows
  /\ pin \in {"none", "chosen", "forced"}
  /\ call \in [Callers -> Calls]
  /\ queue \in Nat
  /\ builds \subseteq [n : Nat, source : Dockerfiles \cup {Blank}]
  /\ op \in [id : Nat, status : {"none", "pending", "processing", "done"}]
  /\ hands \subseteq Nat
  /\ marks \in 0 .. MaxMarks /\ claimed \in Nat
  /\ lost \in BOOLEAN /\ crossed \in BOOLEAN /\ crashes \in 0 .. MaxCrashes

(* "The pending -> building transition is the at-most-once gate": however  *)
(* many messages there are, the builder does not begin twice on what was   *)
(* marked once.                                                            *)
ClaimedOnce == claimed <= 1

(* A row that is waiting, or being worked on, always has somebody who will *)
(* take it further, as long as nothing was lost: a message, a request      *)
(* about to send one, an operation or a build.  An operation survives a    *)
(* crash, so that nothing of a validation is ever lost.                    *)
Underway ==
  /\ row.status = "pending" =>
       queue > 0 \/ Active \/ \E c \in Callers : call[c].step = "enqueue"
  /\ row.status = "building" => builds # {} \/ op.status = "processing"
NothingStranded == ~lost => Underway

(* "succeeded: last build pushed; built_ref is fresh" of an image built    *)
(* from its Dockerfile, unless that Dockerfile was saved, or a rebuild     *)
(* asked for, while a build of it was going on.                            *)
FreshUnlessCrossed ==
  row.kind = "workspace_build" /\ row.status = "succeeded" /\ ~crossed => row.ref = row.source

(* "an agent already pinned to the prior digest keeps working": an agent   *)
(* that chose the image while it was selectable never finds it empty,      *)
(* through rebuilds, failures, overlapping builds and crashes.             *)
PinnedWorks == pin = "chosen" => Exists /\ row.ref # Blank

(* What was marked is built or found wanting in the end, or lost.          *)
Settles == (InFlight(row.status) /\ ~lost) ~> (~InFlight(row.status) \/ lost)
=============================================================================
