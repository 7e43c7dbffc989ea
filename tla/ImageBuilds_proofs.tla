-------------------------- MODULE ImageBuilds_proofs --------------------------
(***************************************************************************)
(* Proofs about ImageBuilds, for any number of requests, Dockerfiles,      *)
(* marks and restarts, and any set of faults.                              *)
(***************************************************************************)
EXTENDS ImageBuilds, TLAPS

(* Before the row is first marked there is nothing else.                   *)
FirstMark == marks = 0 => row = NoRow /\ op = Closed /\ builds = {} /\ hands = {}

(* Operations and validations are about the kind of image that has them.   *)
Validated == row.kind = "external_oci"
KindKept  == /\ op.status # "none" => Validated
             /\ Exists /\ hands # {} => Validated

PendingUnclaimed == row.status = "pending" => claimed = 0
SucceededBuilt   == row.status = "succeeded" => row.ref # Blank

(* Builds that nothing crossed are of the Dockerfile as it is.             *)
BuildsCurrent ==
  row.kind = "workspace_build" /\ ~crossed => \A b \in builds : b.source = row.source

BInv ==
  /\ TypeOK /\ FirstMark /\ KindKept
  /\ ClaimedOnce /\ PendingUnclaimed
  /\ NothingStranded
  /\ SucceededBuilt /\ PinnedWorks
  /\ BuildsCurrent /\ FreshUnlessCrossed
-----------------------------------------------------------------------------
(* A row is there, or there is none.                                       *)
LEMMA RowFields ==
  ASSUME TypeOK
  PROVE  /\ Exists <=> row \in Rows
         /\ ~Exists => row = NoRow
         /\ row.status \in Statuses => Exists
  BY DEF TypeOK, Exists, NoRow, Rows, Statuses

(* What the edits of a row change, and what they leave alone.              *)
LEMMA RowEdits ==
  ASSUME NEW r \in Rows
  PROVE  /\ Begun(r) \in Rows /\ Begun(r).status = "building" /\ Begun(r).kind = r.kind
         /\ Begun(r).source = r.source /\ Begun(r).ref = r.ref
         /\ Failure(r) \in Rows /\ Failure(r).status = "failed" /\ Failure(r).kind = r.kind
         /\ Failure(r).source = r.source /\ Failure(r).ref = r.ref
  BY DEF Begun, Failure, Rows, Statuses

LEMMA RowResult ==
  ASSUME NEW r \in Rows, NEW s \in Dockerfiles \cup {Reference}
  PROVE  /\ Result(r, s) \in Rows /\ Result(r, s).status = "succeeded"
         /\ Result(r, s).kind = r.kind /\ Result(r, s).source = r.source
         /\ Result(r, s).ref = s
  BY DEF Result, Rows, Statuses

LEMMA RowSaved ==
  ASSUME NEW r \in Rows, NEW s \in Dockerfiles
  PROVE  /\ Saved(r, s) \in Rows /\ Saved(r, s).kind = r.kind
         /\ Saved(r, s).source = s /\ Saved(r, s).ref = r.ref
  BY DEF Saved, Rows

(* Marking gives a row that is pending and starts a new count.             *)
LEMMA MarkedRow ==
  ASSUME TypeOK, NEW r \in Rows, Marked(r)
  PROVE  /\ row' \in Rows /\ row'.status = "pending"
         /\ row'.kind = r.kind /\ row'.source = r.source /\ row'.ref = r.ref
         /\ marks' = marks + 1 /\ marks' \in 0 .. MaxMarks
         /\ claimed' = 0 /\ lost' = FALSE /\ crossed' \in BOOLEAN
  BY ImagesAssumption DEF Marked, Rows, TypeOK, Statuses

(* What a request may be in the middle of.                                 *)
LEMMA CallTypes ==
  /\ \A step \in {"none", "mark", "enqueue", "delete"} : [step |-> step] \in Calls
  /\ Resting \in Calls
  /\ \A s \in Dockerfiles : [step |-> "write", source |-> s] \in Calls
  BY DEF Calls, Resting

LEMMA DoesType ==
  ASSUME TypeOK, NEW c \in Callers, NEW what \in Calls, Does(c, what)
  PROVE  call' \in [Callers -> Calls]
  BY DEF Does, TypeOK

(* Every step keeps the types.                                             *)
LEMMA TypeStep == TypeOK /\ FirstMark /\ KindKept /\ [Next]_vars => TypeOK'
<1> SUFFICES ASSUME TypeOK, FirstMark, KindKept, [Next]_vars PROVE TypeOK' OBVIOUS
<1> USE ImagesAssumption DEF requests, history
<1>1. ASSUME NEW c \in Callers, NEW s \in Dockerfiles, Create(c, s) PROVE TypeOK'
  <2> DEFINE r == [kind |-> "workspace_build", source |-> s, status |-> "none", ref |-> Blank]
  <2>1. row' = [r EXCEPT !.status = "pending"] BY <1>1 DEF Create, Marked
  <2>2. row' \in Rows BY <2>1 DEF Rows, Statuses
  <2>3. call' \in [Callers -> Calls] BY <1>1, CallTypes, DoesType DEF Create
  <2>4. crossed' \in BOOLEAN BY <1>1 DEF Create, Marked
  <2>5. marks' \in 0 .. MaxMarks /\ claimed' = 0 /\ lost' = FALSE
    BY <1>1 DEF Create, Marked, TypeOK
  <2> QED BY <1>1, <2>2, <2>3, <2>4, <2>5 DEF Create, TypeOK
<1>2. CASE Register
  <2> DEFINE r == [kind |-> "external_oci", source |-> Blank, status |-> "none", ref |-> Blank]
  <2>1. row' = [r EXCEPT !.status = "pending"] BY <1>2 DEF Register, Marked
  <2>2. row' \in Rows BY <2>1 DEF Rows, Statuses
  <2>3. crossed' \in BOOLEAN BY <1>2 DEF Register, Marked
  <2>4. op' \in [id : Nat, status : {"none", "pending", "processing", "done"}] BY <1>2 DEF Register
  <2>5. marks' \in 0 .. MaxMarks /\ claimed' = 0 /\ lost' = FALSE
    BY <1>2 DEF Register, Marked, TypeOK
  <2> QED BY <1>2, <2>2, <2>3, <2>4, <2>5 DEF Register, TypeOK
<1>3. ASSUME NEW c \in Callers, NEW s \in Dockerfiles, Edit(c, s) PROVE TypeOK'
  BY <1>3, CallTypes, DoesType DEF Edit, TypeOK
<1>4. ASSUME NEW c \in Callers, Rebuild(c) PROVE TypeOK'
  BY <1>4, CallTypes, DoesType DEF Rebuild, TypeOK
<1>5. ASSUME NEW c \in Callers, Save(c) PROVE TypeOK'
  <2>0. call' \in [Callers -> Calls] BY <1>5, CallTypes, DoesType DEF Save
  <2>1. CASE Exists
    <3>0. call[c].step = "write" => call[c].source \in Dockerfiles
      BY DEF TypeOK, Calls
    <3>1. call[c].step = "write" => Saved(row, call[c].source) \in Rows
      BY <2>1, <3>0, RowFields, RowSaved
    <3>2. row' \in Rows /\ marks' \in 0 .. MaxMarks /\ claimed' = 0 /\ lost' = FALSE /\ crossed' \in BOOLEAN
      BY <1>5, <2>1, <3>1, RowFields, MarkedRow DEF Save, Write
    <3> QED BY <1>5, <2>0, <2>1, <3>2 DEF Save, TypeOK
  <2>2. CASE ~Exists
    BY <1>5, <2>0, <2>2 DEF Save, TypeOK
  <2> QED BY <2>1, <2>2
<1>6. ASSUME NEW c \in Callers, Enqueue(c) PROVE TypeOK'
  <2>1. call' \in [Callers -> Calls] BY <1>6, CallTypes, DoesType DEF Enqueue
  <2>2. lost' \in BOOLEAN BY <1>6 DEF Enqueue, TypeOK
  <2> QED BY <1>6, <2>1, <2>2 DEF Enqueue, TypeOK
<1>7. ASSUME NEW c \in Callers, AskToDelete(c) \/ Delete(c) PROVE TypeOK'
  <2>1. call' \in [Callers -> Calls] BY <1>7, CallTypes, DoesType DEF AskToDelete, Delete
  <2>2. Closed \in [id : Nat, status : {"none", "pending", "processing", "done"}] BY DEF Closed
  <2> QED BY <1>7, <2>1, <2>2 DEF AskToDelete, Delete, TypeOK
<1>8. CASE Retry
  <2>1. row' \in Rows /\ marks' \in 0 .. MaxMarks /\ claimed' = 0 /\ lost' = FALSE /\ crossed' \in BOOLEAN
    BY <1>8, RowFields, MarkedRow DEF Retry, Exists
  <2>2. Requeued(op) \in [id : Nat, status : {"none", "pending", "processing", "done"}]
    BY DEF Requeued, TypeOK
  <2> QED BY <1>8, <2>1, <2>2 DEF Retry, TypeOK
<1>9. CASE Pin \/ Unpin
  BY <1>9 DEF Pin, Unpin, TypeOK
<1>10. CASE Receive
  <2>1. CASE Claimable(row.status)
    <3>1. row \in Rows BY <2>1, RowFields DEF Claimable, Statuses
    <3>3. row' \in Rows BY <1>10, <2>1, <3>1, RowEdits DEF Receive
    <3>4. crossed' \in BOOLEAN BY <1>10, <2>1 DEF Receive
    <3>5. [n |-> marks, source |-> row.source] \in [n : Nat, source : Dockerfiles \cup {Blank}]
      BY <3>1 DEF Rows, TypeOK
    <3> QED BY <1>10, <2>1, <3>3, <3>4, <3>5 DEF Receive, TypeOK
  <2>2. CASE ~Claimable(row.status)
    BY <1>10, <2>2 DEF Receive, TypeOK
  <2> QED BY <2>1, <2>2
<1>11. ASSUME NEW b \in builds, Succeed(b) \/ Fail(b) \/ Abandon(b) PROVE TypeOK'
  <2>1. row \in Rows /\ b.source # Blank => Result(row, b.source) \in Rows
    BY RowResult DEF TypeOK
  <2>2. row \in Rows => Failure(row) \in Rows BY RowEdits
  <2> QED BY <1>11, <2>1, <2>2, RowFields DEF Succeed, Fail, Abandon, TypeOK
<1>12. CASE Take
  <2>1. row \in Rows
    BY <1>12, RowFields DEF Take, Takeable, KindKept, Validated, Exists
  <2>2. row' \in Rows BY <1>12, <2>1, RowEdits DEF Take
  <2> QED BY <1>12, <2>2 DEF Take, TypeOK
<1>13. ASSUME NEW id \in hands, Accept(id) \/ Reject(id) \/ LeaveOpen(id) PROVE TypeOK'
  <2>1. row \in Rows => Result(row, Reference) \in Rows BY RowResult
  <2>2. row \in Rows => Failure(row) \in Rows BY RowEdits
  <2>3. row' \in {NoRow} \cup Rows
    BY <1>13, <2>1, <2>2, RowFields DEF Accept, Reject, LeaveOpen, Judge
  <2>4. op' \in [id : Nat, status : {"none", "pending", "processing", "done"}]
    BY <1>13 DEF Accept, Reject, LeaveOpen, Judge, TypeOK
  <2> QED BY <1>13, <2>3, <2>4 DEF Accept, Reject, LeaveOpen, Judge, TypeOK
<1>14. CASE Crash
  BY <1>14, CallTypes DEF Crash, TypeOK
<1>15. CASE UNCHANGED vars
  BY <1>15 DEF vars, TypeOK
<1> QED
  BY <1>1, <1>2, <1>3, <1>4, <1>5, <1>6, <1>7, <1>8, <1>9, <1>10, <1>11, <1>12, <1>13,
     <1>14, <1>15 DEF Next
-----------------------------------------------------------------------------
(* Steps by their effect.  Marking: the row, or a new one, becomes pending *)
(* and somebody is there for it.                                           *)
Asked == Active \/ \E c \in Callers : call[c].step = "enqueue"
Marking ==
  /\ row' \in Rows /\ row'.status = "pending" /\ Asked'
  /\ \/ marks = 0 /\ (op' = op \/ row'.kind = "external_oci")
     \/ row'.kind = row.kind /\ row'.ref = row.ref /\ (op' = op \/ Validated)
  /\ marks' = marks + 1 /\ claimed' = 0 /\ lost' = FALSE
  /\ crossed' = (crossed \/ builds # {})
  /\ UNCHANGED <<pin, builds, hands>>

(* Quiet: a request goes on, or an agent is pinned or unpinned.            *)
Quiet ==
  /\ UNCHANGED <<row, queue, builds, op, hands, history>>
  /\ pin' = "chosen" => pin = "chosen" \/ row.status = "succeeded"
  /\ \A c \in Callers : call[c].step = "enqueue" => call'[c].step = "enqueue"

LEMMA CreateMarks ==
  ASSUME TypeOK, NEW c \in Callers, NEW s \in Dockerfiles, Create(c, s)
  PROVE  Marking
<1> DEFINE r == [kind |-> "workspace_build", source |-> s, status |-> "none", ref |-> Blank]
<1>1. row' = [r EXCEPT !.status = "pending"] BY DEF Create, Marked
<1>2. row' \in Rows /\ row'.status = "pending" BY <1>1 DEF Rows, Statuses
<1>3. call'[c].step = "enqueue" BY DEF Create, Does, TypeOK
<1> QED BY <1>2, <1>3 DEF Create, Marked, Marking, Asked

LEMMA RegisterMarks == TypeOK /\ Register => Marking
<1> SUFFICES ASSUME TypeOK, Register PROVE Marking OBVIOUS
<1> DEFINE r == [kind |-> "external_oci", source |-> Blank, status |-> "none", ref |-> Blank]
<1>1. row' = [r EXCEPT !.status = "pending"] BY DEF Register, Marked
<1>2. row' \in Rows /\ row'.status = "pending" /\ row'.kind = "external_oci"
  BY <1>1 DEF Rows, Statuses
<1>3. Active' BY DEF Register, Active
<1> QED BY <1>2, <1>3 DEF Register, Marked, Marking, Asked, requests

LEMMA SaveMarks ==
  ASSUME TypeOK, NEW c \in Callers, Save(c), Exists
  PROVE  Marking
<1>1. row \in Rows BY RowFields
<1>2. call[c].step = "write" => call[c].source \in Dockerfiles BY DEF TypeOK, Calls
<1>3. PICK r \in Rows : Marked(r) /\ r.kind = row.kind /\ r.ref = row.ref
  BY <1>1, <1>2, RowSaved DEF Save, Write
<1>4. call'[c].step = "enqueue" BY DEF Save, Does, TypeOK
<1> QED BY <1>3, <1>4, MarkedRow DEF Save, Marked, Marking, Asked

LEMMA RetryMarks == TypeOK /\ Retry => Marking
<1> SUFFICES ASSUME TypeOK, Retry PROVE Marking OBVIOUS
<1>1. row \in Rows BY RowFields DEF Retry, Exists
<1>2. Active' BY DEF Retry, Requeued, Active
<1> QED BY <1>1, <1>2, MarkedRow DEF Retry, Marked, Marking, Asked, Validated, requests

LEMMA QuietSteps ==
  ASSUME TypeOK,
         \/ \E c \in Callers : Rebuild(c) \/ AskToDelete(c) \/ (Save(c) /\ ~Exists)
         \/ \E c \in Callers, s \in Dockerfiles : Edit(c, s)
         \/ Pin \/ Unpin \/ UNCHANGED vars
  PROVE  Quiet
<1> USE DEF requests, history
<1>1. ASSUME NEW c \in Callers, Rebuild(c) \/ AskToDelete(c) PROVE Quiet
  BY <1>1 DEF Rebuild, AskToDelete, Does, Resting, Quiet, TypeOK
<1>2. ASSUME NEW c \in Callers, Save(c), ~Exists PROVE Quiet
  BY <1>2 DEF Save, Does, Quiet, TypeOK
<1>3. ASSUME NEW c \in Callers, NEW s \in Dockerfiles, Edit(c, s) PROVE Quiet
  BY <1>3 DEF Edit, Does, Resting, Quiet, TypeOK
<1>4. CASE Pin \/ Unpin
  BY <1>4 DEF Pin, Unpin, Selectable, Quiet
<1>5. CASE UNCHANGED vars
  BY <1>5 DEF vars, Quiet
<1> QED BY <1>1, <1>2, <1>3, <1>4, <1>5

LEMMA StepCases ==
  ASSUME TypeOK, [Next]_vars
  PROVE  \/ Marking \/ Quiet
         \/ \E c \in Callers : Enqueue(c) \/ Delete(c)
         \/ Receive \/ \E b \in builds : Succeed(b) \/ Fail(b) \/ Abandon(b)
         \/ Take \/ \E id \in hands : Accept(id) \/ Reject(id) \/ LeaveOpen(id)
         \/ Crash
  BY CreateMarks, RegisterMarks, SaveMarks, RetryMarks, QuietSteps DEF Next
-----------------------------------------------------------------------------
(* Each part of the invariant                                              *)

LEMMA FirstStep ==
  ASSUME TypeOK, FirstMark, KindKept, [Next]_vars
  PROVE  FirstMark'
<1> USE ImagesAssumption DEF requests, history
<1>1. CASE Marking
  BY <1>1 DEF Marking, FirstMark, TypeOK
<1>2. CASE Quiet
  BY <1>2 DEF Quiet, FirstMark
<1>3. ASSUME NEW c \in Callers, Enqueue(c) PROVE FirstMark'
  BY <1>3 DEF Enqueue, FirstMark
<1>4. ASSUME NEW c \in Callers, Delete(c) PROVE FirstMark'
  BY <1>4 DEF Delete, FirstMark
<1>5. CASE Receive
  BY <1>5 DEF Receive, Claimable, FirstMark, NoRow
<1>6. ASSUME NEW b \in builds, Succeed(b) \/ Fail(b) \/ Abandon(b) PROVE FirstMark'
  BY <1>6 DEF Succeed, Fail, Abandon, FirstMark
<1>7. CASE Take
  BY <1>7 DEF Take, Takeable, FirstMark, Closed
<1>8. ASSUME NEW id \in hands, Accept(id) \/ Reject(id) \/ LeaveOpen(id)
      PROVE  FirstMark'
  BY <1>8 DEF Accept, Reject, LeaveOpen, Judge, FirstMark
<1>9. CASE Crash
  BY <1>9 DEF Crash, FirstMark
<1> QED BY StepCases, <1>1, <1>2, <1>3, <1>4, <1>5, <1>6, <1>7, <1>8, <1>9

LEMMA KindStep ==
  ASSUME TypeOK, FirstMark, KindKept, [Next]_vars
  PROVE  KindKept'
<1> USE ImagesAssumption DEF requests, history
<1>1. CASE Marking
  BY <1>1, RowFields DEF Marking, KindKept, FirstMark, Validated, Closed, Exists, Rows
<1>2. CASE Quiet
  BY <1>2 DEF Quiet, KindKept, Validated, Exists
<1>3. ASSUME NEW c \in Callers, Enqueue(c) PROVE KindKept'
  BY <1>3 DEF Enqueue, KindKept, Validated, Exists
<1>4. ASSUME NEW c \in Callers, Delete(c) PROVE KindKept'
  BY <1>4 DEF Delete, KindKept, Validated, Exists, NoRow, Closed
<1>5. CASE Receive
  BY <1>5, RowFields, RowEdits DEF Receive, Claimable, KindKept, Validated, Exists, Statuses
<1>6. ASSUME NEW b \in builds, Succeed(b) \/ Fail(b) \/ Abandon(b) PROVE KindKept'
  BY <1>6, RowFields, RowEdits, RowResult DEF Succeed, Fail, Abandon, KindKept, Validated, Exists,
     TypeOK
<1>7. CASE Take
  BY <1>7, RowFields, RowEdits DEF Take, Takeable, KindKept, Validated, Exists
<1>8. ASSUME NEW id \in hands, Accept(id) \/ Reject(id) \/ LeaveOpen(id)
      PROVE  KindKept'
  BY <1>8, RowFields, RowEdits, RowResult DEF Accept, Reject, LeaveOpen, Judge, KindKept, Validated,
     Exists, TypeOK
<1>9. CASE Crash
  BY <1>9 DEF Crash, KindKept, Validated, Exists
<1> QED BY StepCases, <1>1, <1>2, <1>3, <1>4, <1>5, <1>6, <1>7, <1>8, <1>9

LEMMA ClaimStep ==
  ASSUME TypeOK, KindKept, ClaimedOnce, PendingUnclaimed, [Next]_vars
  PROVE  (ClaimedOnce /\ PendingUnclaimed)'
<1> USE ImagesAssumption DEF requests, history
<1>1. CASE Marking
  BY <1>1 DEF Marking, ClaimedOnce, PendingUnclaimed
<1>2. CASE Quiet
  BY <1>2 DEF Quiet, ClaimedOnce, PendingUnclaimed
<1>3. ASSUME NEW c \in Callers, Enqueue(c) PROVE (ClaimedOnce /\ PendingUnclaimed)'
  BY <1>3 DEF Enqueue, ClaimedOnce, PendingUnclaimed
<1>4. ASSUME NEW c \in Callers, Delete(c) PROVE (ClaimedOnce /\ PendingUnclaimed)'
  BY <1>4 DEF Delete, ClaimedOnce, PendingUnclaimed, NoRow
<1>5. CASE Receive
  BY <1>5, RowFields, RowEdits DEF Receive, Claimable, ClaimedOnce, PendingUnclaimed, Statuses
<1>6. ASSUME NEW b \in builds, Succeed(b) \/ Fail(b) \/ Abandon(b)
      PROVE  (ClaimedOnce /\ PendingUnclaimed)'
  BY <1>6, RowFields, RowEdits, RowResult DEF Succeed, Fail, Abandon, ClaimedOnce, PendingUnclaimed,
     TypeOK
<1>7. CASE Take
  BY <1>7, RowFields, RowEdits DEF Take, Takeable, ClaimedOnce, PendingUnclaimed, KindKept,
     Validated, Exists
<1>8. ASSUME NEW id \in hands, Accept(id) \/ Reject(id) \/ LeaveOpen(id)
      PROVE  (ClaimedOnce /\
   PendingUnclaimed)'
  BY <1>8, RowFields, RowEdits, RowResult DEF Accept, Reject, LeaveOpen, Judge, ClaimedOnce,
     PendingUnclaimed
<1>9. CASE Crash
  BY <1>9 DEF Crash, ClaimedOnce, PendingUnclaimed
<1> QED BY StepCases, <1>1, <1>2, <1>3, <1>4, <1>5, <1>6, <1>7, <1>8, <1>9

LEMMA StrandedStep ==
  ASSUME TypeOK, KindKept, NothingStranded, [Next]_vars
  PROVE  NothingStranded'
<1> USE ImagesAssumption DEF requests, history
<1>1. CASE Marking
  BY <1>1 DEF Marking, Asked, NothingStranded, Underway
<1>2. CASE Quiet
  BY <1>2 DEF Quiet, NothingStranded, Underway, Active
<1>3. ASSUME NEW c \in Callers, Enqueue(c) PROVE NothingStranded'
  BY <1>3 DEF Enqueue, Does, NothingStranded, Underway, Active, TypeOK
<1>4. ASSUME NEW c \in Callers, Delete(c) PROVE NothingStranded'
  BY <1>4 DEF Delete, NothingStranded, Underway, NoRow
<1>5. CASE Receive
  BY <1>5, RowFields, RowEdits DEF Receive, Claimable, NothingStranded, Underway, Statuses,
     Active
<1>6. ASSUME NEW b \in builds, Succeed(b) \/ Fail(b) \/ Abandon(b) PROVE NothingStranded'
  BY <1>6, RowFields, RowEdits, RowResult DEF Succeed, Fail, Abandon, NothingStranded, Underway,
     Active, NoRow, TypeOK
<1>7. CASE Take
  BY <1>7, RowFields, RowEdits DEF Take, Takeable, NothingStranded, Underway, KindKept,
     Validated, Exists, TypeOK
<1>8. ASSUME NEW id \in hands, Accept(id) \/ Reject(id) \/ LeaveOpen(id)
      PROVE  NothingStranded'
  <2>1. CASE Accept(id) \/ Reject(id)
    BY <2>1, RowFields, RowEdits, RowResult DEF Accept, Reject, Judge, NothingStranded,
       Underway, NoRow
  <2>2. CASE LeaveOpen(id)
    BY <2>2 DEF LeaveOpen, NothingStranded, Underway, Active
  <2> QED BY <1>8, <2>1, <2>2
<1>9. CASE Crash
  BY <1>9 DEF Crash, NothingStranded, Underway, Active, TypeOK
<1> QED BY StepCases, <1>1, <1>2, <1>3, <1>4, <1>5, <1>6, <1>7, <1>8, <1>9

LEMMA PinStep ==
  ASSUME TypeOK, FirstMark, KindKept, SucceededBuilt, PinnedWorks, [Next]_vars
  PROVE  (SucceededBuilt /\ PinnedWorks)'
<1> USE ImagesAssumption DEF requests, history
<1>1. CASE Marking
  BY <1>1 DEF Marking, SucceededBuilt, PinnedWorks, FirstMark, Exists, NoRow, Rows
<1>2. CASE Quiet
  BY <1>2, RowFields DEF Quiet, SucceededBuilt, PinnedWorks, Exists, Statuses
<1>3. ASSUME NEW c \in Callers, Enqueue(c) PROVE (SucceededBuilt /\ PinnedWorks)'
  BY <1>3 DEF Enqueue, SucceededBuilt, PinnedWorks, Exists
<1>4. ASSUME NEW c \in Callers, Delete(c) PROVE (SucceededBuilt /\ PinnedWorks)'
  BY <1>4 DEF Delete, SucceededBuilt, PinnedWorks, NoRow
<1>5. CASE Receive
  BY <1>5, RowFields, RowEdits DEF Receive, Claimable, SucceededBuilt, PinnedWorks, Exists,
     Statuses
<1>6. ASSUME NEW b \in builds, Succeed(b) \/ Fail(b) \/ Abandon(b)
      PROVE  (SucceededBuilt /\ PinnedWorks)'
  <2>1. CASE Succeed(b) \/ Fail(b)
    BY <2>1, RowFields, RowEdits, RowResult DEF Succeed, Fail, SucceededBuilt, PinnedWorks,
       Exists, TypeOK
  <2>2. CASE Abandon(b)
    BY <2>2 DEF Abandon, SucceededBuilt, PinnedWorks, Exists
  <2> QED BY <1>6, <2>1, <2>2
<1>7. CASE Take
  BY <1>7, RowFields, RowEdits DEF Take, Takeable, SucceededBuilt, PinnedWorks, KindKept,
     Validated, Exists
<1>8. ASSUME NEW id \in hands, Accept(id) \/ Reject(id) \/ LeaveOpen(id)
      PROVE  (SucceededBuilt /\ PinnedWorks)'
  BY <1>8, RowFields, RowEdits, RowResult DEF Accept, Reject, LeaveOpen, Judge, SucceededBuilt,
     PinnedWorks, Exists
<1>9. CASE Crash
  BY <1>9 DEF Crash, SucceededBuilt, PinnedWorks, Exists
<1> QED BY StepCases, <1>1, <1>2, <1>3, <1>4, <1>5, <1>6, <1>7, <1>8, <1>9

LEMMA FreshStep ==
  ASSUME TypeOK, FirstMark, KindKept, BuildsCurrent, FreshUnlessCrossed, [Next]_vars
  PROVE  (BuildsCurrent /\ FreshUnlessCrossed)'
<1> USE ImagesAssumption DEF requests, history
<1>1. CASE Marking
  BY <1>1 DEF Marking, BuildsCurrent, FreshUnlessCrossed
<1>2. CASE Quiet
  BY <1>2 DEF Quiet, BuildsCurrent, FreshUnlessCrossed
<1>3. ASSUME NEW c \in Callers, Enqueue(c) PROVE (BuildsCurrent /\ FreshUnlessCrossed)'
  BY <1>3 DEF Enqueue, BuildsCurrent, FreshUnlessCrossed
<1>4. ASSUME NEW c \in Callers, Delete(c) PROVE (BuildsCurrent /\ FreshUnlessCrossed)'
  BY <1>4 DEF Delete, BuildsCurrent, FreshUnlessCrossed, NoRow
<1>5. CASE Receive
  <2>1. CASE Claimable(row.status)
    <3>1. row \in Rows /\ row' = Begun(row) BY <1>5, <2>1, RowFields DEF Receive, Claimable,
       Statuses
    <3>2. row'.source = row.source /\ row'.kind = row.kind /\ row'.status = "building"
      BY <3>1, RowEdits
    <3>3. \A b \in builds' : b \in builds \/ b.source = row.source
      BY <1>5, <2>1 DEF Receive
    <3>4. ~crossed' => ~crossed \/ builds = {}
      BY <1>5, <2>1 DEF Receive
    <3> QED BY <3>2, <3>3, <3>4 DEF BuildsCurrent, FreshUnlessCrossed
  <2>2. CASE ~Claimable(row.status)
    BY <1>5, <2>2 DEF Receive, BuildsCurrent, FreshUnlessCrossed
  <2> QED BY <2>1, <2>2
<1>6. ASSUME NEW b \in builds, Succeed(b) \/ Fail(b) \/ Abandon(b)
      PROVE  (BuildsCurrent /\
   FreshUnlessCrossed)'
  BY <1>6, RowFields, RowEdits, RowResult DEF Succeed, Fail, Abandon, BuildsCurrent,
     FreshUnlessCrossed, Exists, TypeOK
<1>7. CASE Take
  BY <1>7, RowFields, RowEdits DEF Take, Takeable, BuildsCurrent, FreshUnlessCrossed,
     KindKept, Validated, Exists
<1>8. ASSUME NEW id \in hands, Accept(id) \/ Reject(id) \/ LeaveOpen(id)
      PROVE  (BuildsCurrent /\
   FreshUnlessCrossed)'
  BY <1>8, RowFields, RowEdits, RowResult DEF Accept, Reject, LeaveOpen, Judge, BuildsCurrent,
     FreshUnlessCrossed, KindKept, Validated, Exists
<1>9. CASE Crash
  BY <1>9 DEF Crash, BuildsCurrent, FreshUnlessCrossed
<1> QED BY StepCases, <1>1, <1>2, <1>3, <1>4, <1>5, <1>6, <1>7, <1>8, <1>9

(* The invariant holds at first and is kept.                               *)
LEMMA InitInvariant == Init => BInv
<1> SUFFICES ASSUME Init PROVE BInv OBVIOUS
<1> USE ImagesAssumption DEF Init
<1>1. call \in [Callers -> Calls] BY CallTypes
<1>2. TypeOK
  <2>1. Closed \in [id : Nat, status : {"none", "pending", "processing", "done"}] BY DEF Closed
  <2>2. lost \in BOOLEAN /\ crossed \in BOOLEAN OBVIOUS
  <2>3. 0 \in 0 .. MaxMarks /\ 0 \in 0 .. MaxCrashes OBVIOUS
  <2> QED BY <1>1, <2>1, <2>2, <2>3 DEF TypeOK
<1>3. FirstMark /\ KindKept BY DEF FirstMark, KindKept, Closed, Exists, NoRow
<1>4. row.status = "none" /\ row.kind = "none" /\ pin = "none" /\ claimed = 0 BY DEF NoRow
<1>5. /\ ClaimedOnce /\ PendingUnclaimed /\ NothingStranded
      /\ SucceededBuilt /\ PinnedWorks /\ BuildsCurrent /\ FreshUnlessCrossed
  BY <1>4 DEF ClaimedOnce, PendingUnclaimed, NothingStranded, Underway, SucceededBuilt,
     PinnedWorks, BuildsCurrent, FreshUnlessCrossed
<1> QED BY <1>2, <1>3, <1>5 DEF BInv

LEMMA StepInvariant == BInv /\ [Next]_vars => BInv'
  BY TypeStep, FirstStep, KindStep, ClaimStep, StrandedStep, PinStep, FreshStep DEF BInv

(* Every variable keeps its type.                                          *)
THEOREM ImageTypes == Spec => []TypeOK
<1>1. BInv => TypeOK BY DEF BInv
<1> QED BY InitInvariant, StepInvariant, <1>1, PTL DEF Spec

(* The builder never begins twice on what was marked once, however many    *)
(* messages are sent about it.                                             *)
THEOREM BuildsClaimedOnce == Spec => []ClaimedOnce
<1>1. BInv => ClaimedOnce BY DEF BInv
<1> QED BY InitInvariant, StepInvariant, <1>1, PTL DEF Spec

(* What waits or is worked on has somebody who takes it further, until a   *)
(* message or the process is lost.                                         *)
THEOREM NobodyStranded == Spec => []NothingStranded
<1>1. BInv => NothingStranded BY DEF BInv
<1> QED BY InitInvariant, StepInvariant, <1>1, PTL DEF Spec

(* An agent that chose an image that was ready always has a reference to   *)
(* start from.                                                             *)
THEOREM PinnedAgentsWork == Spec => []PinnedWorks
<1>1. BInv => PinnedWorks BY DEF BInv
<1> QED BY InitInvariant, StepInvariant, <1>1, PTL DEF Spec

(* What reads as succeeded is the Dockerfile as it is, unless it was       *)
(* marked while a build was going on.                                      *)
THEOREM BuildsAreFresh == Spec => []FreshUnlessCrossed
<1>1. BInv => FreshUnlessCrossed BY DEF BInv
<1> QED BY InitInvariant, StepInvariant, <1>1, PTL DEF Spec
=============================================================================
