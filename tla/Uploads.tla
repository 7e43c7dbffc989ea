-------------------------------- MODULE Uploads --------------------------------
(***************************************************************************)
(* The files that users attach to messages: the rows of the uploads table, *)
(* the objects in block storage, and the hourly sweep that takes both      *)
(* back.                                                                   *)
(*                                                                         *)
(* A row promises an object and is written before it; the bytes come by a  *)
(* request of the browser's (to the api for the local disk, to S3          *)
(* otherwise); /complete looks at them and makes the row ready.  Nothing   *)
(* ties row and object together but the order of these steps, with awaits  *)
(* in between: completes, transfers, a deletion by the user and the sweep  *)
(* overlap, and a restart ends any of them half-way.  The unit of time is  *)
(* an hour.                                                                *)
(*                                                                         *)
(* Left out: reads of the bytes and who may have them, the rate limit, the *)
(* 'attached' status (markAttached is never called).                       *)
(***************************************************************************)
EXTENDS Naturals, FiniteSets

CONSTANTS
  Uploads,  \* upload ids
  Callers,  \* /complete requests under way at once
  Sweepers, \* api processes, each with its hourly sweep
  Backends, \* of "local" and "s3", those a deployment may choose
  Ttl,      \* UPLOAD_PENDING_TTL_HOURS
  Keep,     \* hardDeleteAfterDays, in hours
  Batch,    \* batchSize: rows that one phase of a sweep takes
  MaxPuts,  \* bound: transfers under way at once
  Horizon,  \* bound: the clock stops here, and nothing begins that would expire later
  Faults    \* which of "restart", "storage", "db", "off" may happen

ASSUME UploadsAssumption ==
  /\ IsFiniteSet(Uploads) /\ Sweepers # {} /\ Backends \subseteq {"local", "s3"}
  /\ Ttl \in Nat \ {0} /\ Keep \in Nat \ {0} /\ Batch \in Nat \ {0}
  /\ MaxPuts \in Nat /\ Horizon \in Nat
  /\ Faults \subseteq {"restart", "storage", "db", "off"}

Times == Nat

VARIABLES
  backend,
  now,      \* the clock
  due,      \* the sweeps that this hour, or a start, has brought
  status,   \* uploads.status; "none" before the INSERT, "gone" after the DELETE
  expires,  \* uploads.expires_at
  object,   \* what block storage has: nothing, too few bytes, the right or other bytes
  put,      \* the transfer under way for each upload, if any
  call,     \* the /complete requests: what each has read of its upload
  sweep,    \* the sweeps: the phase, its clock, the objects still to delete
  owed,     \* history: when the bytes are to go, by expiry or by a deletion
  excuse,   \* history: when the bytes were last left for a reason that has a name
  crossed,  \* history: the uploads with a transfer beside a /complete, or to S3 after it
  hindered  \* history: when sweeps last failed, were late or switched off

rows    == <<status, expires, owed>>
clock   == <<backend, now>>
history == <<excuse, crossed, hindered>>
vars == <<clock, due, rows, object, put, call, sweep, history>>

Idle == [step |-> "none"]
Live == {u \in Uploads : status[u] \in {"pending", "ready"}}
Dead == {u \in Uploads : status[u] \in {"expired", "deleted"}}

Init ==
  /\ backend \in Backends /\ now = 1 /\ due = Sweepers
  /\ status = [u \in Uploads |-> "none"] /\ expires = [u \in Uploads |-> 0]
  /\ object = [u \in Uploads |-> "none"] /\ put = [u \in Uploads |-> "none"]
  /\ call = [c \in Callers |-> Idle] /\ sweep = [s \in Sweepers |-> Idle]
  /\ owed = [u \in Uploads |-> 0] /\ excuse = [u \in Uploads |-> 0]
  /\ crossed = {} /\ hindered = 0
-----------------------------------------------------------------------------
(* The browser: init, the transfer, a deletion.                            *)

InitUpload(u) ==
  /\ status[u] = "none" /\ now + Ttl < Horizon
  /\ status' = [status EXCEPT ![u] = "pending"]
  /\ expires' = [expires EXCEPT ![u] = now + Ttl]
  /\ owed' = [owed EXCEPT ![u] = now + Ttl]
  /\ UNCHANGED <<clock, due, object, put, call, sweep, history>>

Inside(u) == \E c \in Callers : call[c] # Idle /\ call[c].upload = u

(* The URL is good for a quarter of an hour.  PUT /:id/raw looks at the    *)
(* row; S3 looks at its signature only.                                    *)
Open(u) == status[u] = "pending" \/ (backend = "s3" /\ status[u] # "none")
Fresh(u) == now + Ttl = expires[u]
BeginPut(u) ==
  /\ Open(u) /\ Fresh(u) /\ put[u] = "none"
  /\ Cardinality({v \in Uploads : put[v] # "none"}) < MaxPuts
  /\ put' = [put EXCEPT ![u] = "sent"]
  /\ crossed' = IF Inside(u) \/ (backend = "s3" /\ status[u] = "ready")
                  THEN crossed \cup {u} ELSE crossed
  /\ UNCHANGED <<clock, due, rows, object, call, sweep, excuse, hindered>>

(* Bytes that come when their row is dead wait for a sweep to find them.   *)
Stored(u, bytes) ==
  /\ object' = [object EXCEPT ![u] = bytes]
  /\ excuse' = [excuse EXCEPT ![u] = IF u \in Live THEN @ ELSE now]

(* writeFile: the file is truncated first; S3 shows whole objects.         *)
Truncate(u) ==
  /\ backend = "local" /\ put[u] = "sent"
  /\ put' = [put EXCEPT ![u] = "writing"]
  /\ Stored(u, "short")
  /\ UNCHANGED <<clock, due, rows, call, sweep, crossed, hindered>>

EndPut(u) ==
  /\ put[u] = IF backend = "local" THEN "writing" ELSE "sent"
  /\ put' = [put EXCEPT ![u] = "none"]
  /\ \E bytes \in {"good", "other"} : Stored(u, bytes)
  /\ UNCHANGED <<clock, due, rows, call, sweep, crossed, hindered>>

AbandonPut(u) ==
  /\ put[u] # "none"
  /\ put' = [put EXCEPT ![u] = "none"]
  /\ UNCHANGED <<clock, due, rows, object, call, sweep, history>>

(* markDeleted has no condition; bytes are owed from the first death on.   *)
MarkDeleted(u) ==
  /\ status' = [status EXCEPT ![u] = IF @ = "gone" THEN @ ELSE "deleted"]
  /\ owed' = [owed EXCEPT ![u] =
                IF u \in Live /\ now < @ THEN now ELSE @]
  /\ UNCHANGED expires

Delete(u) ==
  /\ status[u] \notin {"none", "gone"}
  /\ MarkDeleted(u)
  /\ UNCHANGED <<clock, due, object, put, call, sweep, history>>
-----------------------------------------------------------------------------
(* POST /:id/complete.                                                     *)

At(c, step) == call[c].step = step
Now(c, step) == call' = [call EXCEPT ![c].step = step]
Over(c) == call' = [call EXCEPT ![c] = Idle]

Complete(c, u) ==
  /\ At(c, "none") /\ status[u] = "pending" /\ now <= expires[u]
  /\ call' = [call EXCEPT ![c] = [step |-> "stat", upload |-> u]]
  /\ crossed' = IF put[u] # "none" THEN crossed \cup {u} ELSE crossed
  /\ UNCHANGED <<clock, due, rows, object, put, sweep, excuse, hindered>>

(* statObject: no object ends the request, a wrong size the upload.        *)
Sized(u) ==
  CASE object[u] = "none"  -> "none"
    [] object[u] = "short" -> "discard"
    [] OTHER               -> "sniff"
Stat(c) ==
  /\ At(c, "stat")
  /\ LET next == Sized(call[c].upload) IN IF next = "none" THEN Over(c) ELSE Now(c, next)
  /\ UNCHANGED <<clock, due, rows, object, put, sweep, history>>

(* readHead and sniffImageMime.  An object that is gone meanwhile throws;  *)
(* one that is being overwritten may look like anything.                   *)
Sniffed(u) ==
  CASE object[u] = "good"  -> {"ready"}
    [] object[u] = "other" -> {"discard"}
    [] object[u] = "short" -> {"ready", "discard"}
    [] OTHER               -> {"none"}
Sniff(c) ==
  /\ At(c, "sniff")
  /\ \E next \in Sniffed(call[c].upload) : IF next = "none" THEN Over(c) ELSE Now(c, next)
  /\ UNCHANGED <<clock, due, rows, object, put, sweep, history>>

Discard(c) ==
  /\ At(c, "discard")
  /\ object' = [object EXCEPT ![call[c].upload] = "none"]
  /\ Now(c, "delete")
  /\ UNCHANGED <<clock, due, rows, put, sweep, history>>

Refuse(c) ==
  /\ At(c, "delete")
  /\ MarkDeleted(call[c].upload)
  /\ Over(c)
  /\ UNCHANGED <<clock, due, object, put, sweep, history>>

(* UPDATE ... WHERE status = 'pending': whoever was faster is not undone.  *)
Overwritten(u) == IF status[u] = "gone" THEN "gone" ELSE "ready"   \* mutant
Readied(u) == IF status[u] = "pending" THEN "ready" ELSE status[u]
MarkReady(c) ==
  /\ At(c, "ready")
  /\ status' = [status EXCEPT ![call[c].upload] = Readied(call[c].upload)]
  /\ Over(c)
  /\ UNCHANGED <<clock, due, expires, owed, object, put, sweep, history>>

CompleteFails(c) ==
  /\ Faults \cap {"storage", "db"} # {} /\ call[c] # Idle
  /\ Over(c)
  /\ UNCHANGED <<clock, due, rows, object, put, sweep, history>>
-----------------------------------------------------------------------------
(* runUploadsCleanup.                                                      *)

(* ORDER BY expires_at LIMIT n.                                            *)
Oldest(some) ==
  {part \in SUBSET some :
     /\ Cardinality(part) = IF Cardinality(some) < Batch THEN Cardinality(some) ELSE Batch
     /\ \A u \in part, v \in some \ part : expires[u] <= expires[v]}
Left(some) ==
  excuse' = [u \in Uploads |-> IF u \in some /\ object[u] # "none" THEN now ELSE excuse[u]]
Sweeping(s, phase) == sweep[s].step = phase

(* Phase A.                                                                *)
Expired(at) == {u \in Live : expires[u] < at}
ReapExpired(s) ==
  /\ s \in due /\ Sweeping(s, "none")
  /\ due' = due \ {s}
  /\ \E part \in Oldest(Expired(now)) :
       /\ status' = [u \in Uploads |-> IF u \in part THEN "expired" ELSE status[u]]
       /\ Left(Expired(now) \ part)
  /\ sweep' = [sweep EXCEPT ![s] = [step |-> "list", at |-> now, todo |-> {}]]
  /\ UNCHANGED <<clock, expires, owed, object, put, call, crossed, hindered>>

(* Phase B: the rows stay listed until they are gone, so that the oldest   *)
(* ones are deleted again and again and may leave no room for the others.  *)
Forgotten == {u \in Dead : status[u] = "expired"}   \* mutant
Listed == Dead
ListForDeletion(s) ==
  /\ Sweeping(s, "list")
  /\ \E part \in Oldest(Listed) :
       /\ sweep' = [sweep EXCEPT ![s].step = "erase", ![s].todo = part]
       /\ Left(Listed \ part)
  /\ UNCHANGED <<clock, due, rows, object, put, call, crossed, hindered>>

Erase(s, u) ==
  /\ Sweeping(s, "erase") /\ u \in sweep[s].todo
  /\ object' = [object EXCEPT ![u] = "none"]
  /\ excuse' = [excuse EXCEPT ![u] = 0]
  /\ sweep' = [sweep EXCEPT ![s].todo = @ \ {u}]
  /\ UNCHANGED <<clock, due, rows, put, call, crossed, hindered>>

EraseFails(s, u) ==
  /\ "storage" \in Faults
  /\ Sweeping(s, "erase") /\ u \in sweep[s].todo
  /\ sweep' = [sweep EXCEPT ![s].todo = @ \ {u}]
  /\ Left({u})
  /\ UNCHANGED <<clock, due, rows, object, put, call, crossed, hindered>>

(* Phase C.                                                                *)
Old(at) == {u \in Dead : expires[u] + Keep < at}
Everything(s) == TRUE   \* mutant
Cleaned(s) == sweep[s].todo = {}
HardDelete(s) ==
  /\ Sweeping(s, "erase") /\ Cleaned(s)
  /\ status' = [u \in Uploads |-> IF u \in Old(sweep[s].at) THEN "gone" ELSE status[u]]
  /\ excuse' = [u \in Uploads |-> IF u \in Old(sweep[s].at) THEN 0 ELSE excuse[u]]
  /\ sweep' = [sweep EXCEPT ![s] = Idle]
  /\ UNCHANGED <<clock, due, expires, owed, object, put, call, crossed, hindered>>

SweepFails(s) ==
  /\ "db" \in Faults /\ sweep[s] # Idle
  /\ hindered' = now
  /\ sweep' = [sweep EXCEPT ![s] = Idle]
  /\ UNCHANGED <<clock, due, rows, object, put, call, excuse, crossed>>
-----------------------------------------------------------------------------
(* The clock and the processes.                                            *)

Busy == due # {} \/ \E s \in Sweepers : sweep[s] # Idle

(* A transfer outlasts its URL by less than an hour.                       *)
TimePasses ==
  /\ now < Horizon /\ \E u \in Uploads : status[u] \notin {"none", "gone"}
  /\ Busy => "off" \in Faults
  /\ \A u \in Uploads : put[u] # "none" => Fresh(u)
  /\ now' = now + 1
  /\ due' = Sweepers
  /\ hindered' = IF Busy THEN now' ELSE hindered
  /\ UNCHANGED <<backend, rows, object, put, call, sweep, excuse, crossed>>

(* What the processes had under way is gone; a start brings a sweep.  A    *)
(* transfer to S3 does not go through them.                                *)
Restart ==
  /\ "restart" \in Faults
  /\ call' = [c \in Callers |-> Idle] /\ sweep' = [s \in Sweepers |-> Idle]
  /\ put' = IF backend = "local" THEN [u \in Uploads |-> "none"] ELSE put
  /\ due' = Sweepers
  /\ UNCHANGED <<clock, rows, object, history>>

Next ==
  \/ \E u \in Uploads :
       \/ InitUpload(u) \/ BeginPut(u) \/ Truncate(u) \/ EndPut(u) \/ AbandonPut(u) \/ Delete(u)
  \/ \E c \in Callers :
       \/ \E u \in Uploads : Complete(c, u)
       \/ Stat(c) \/ Sniff(c) \/ Discard(c) \/ Refuse(c) \/ MarkReady(c) \/ CompleteFails(c)
  \/ \E s \in Sweepers :
       \/ ReapExpired(s) \/ ListForDeletion(s) \/ HardDelete(s) \/ SweepFails(s)
       \/ \E u \in Uploads : Erase(s, u) \/ EraseFails(s, u)
  \/ TimePasses \/ Restart

Spec == Init /\ [][Next]_vars
-----------------------------------------------------------------------------
(* Properties.                                                             *)

(* Every variable keeps its type.                                          *)
Steps == {"stat", "sniff", "discard", "delete", "ready"}
Statuses == {"none", "pending", "ready", "expired", "deleted", "gone"}
TypeOK ==
  /\ backend \in Backends /\ now \in Times /\ due \subseteq Sweepers
  /\ status \in [Uploads -> Statuses]
  /\ expires \in [Uploads -> Times] /\ owed \in [Uploads -> Times]
  /\ object \in [Uploads -> {"none", "short", "good", "other"}]
  /\ put \in [Uploads -> {"none", "sent", "writing"}]
  /\ call \in [Callers -> {Idle} \cup [step : Steps, upload : Uploads]]
  /\ sweep \in [Sweepers ->
       {Idle} \cup [step : {"list", "erase"}, at : Times, todo : SUBSET Uploads]]
  /\ excuse \in [Uploads -> Times] /\ crossed \subseteq Uploads /\ hindered \in Times

(* A file that is ready is there, whole, and what /complete saw of it,     *)
(* however transfers, completes, deletions, sweeps and restarts overlap,   *)
(* unless bytes were on their way while /complete looked or, with S3, were *)
(* sent later with the same URL, which nothing there stops.                *)
ReadyIsChecked ==
  \A u \in Uploads \ crossed : status[u] = "ready" => object[u] = "good"

Longest(a, b) == IF a > b THEN a ELSE b

(* While there is a row, no bytes are left more than an hour past their    *)
(* expiry or deletion, unless storage refused, they came late, older files *)
(* were in the way, or sweeps did not run.                                 *)
ReclaimedInTime ==
  \A u \in Uploads : object[u] # "none" /\ status[u] # "gone" =>
    now <= 1 + Longest(Longest(owed[u], excuse[u]), hindered)

(* The row is the only way to the bytes: it is not deleted before them,    *)
(* however long sweeps did not run, wherever they failed and whatever      *)
(* other processes sweep, unless storage refused or older files were in    *)
(* the way when the row was already old enough.                            *)
NoOrphan ==
  [][\A u \in Uploads :
       status[u] # "gone" /\ status'[u] = "gone" /\ object[u] # "none" =>
         excuse[u] > expires[u] + Keep]_vars
=============================================================================
