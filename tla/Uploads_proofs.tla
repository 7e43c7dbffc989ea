---------------------------- MODULE Uploads_proofs ----------------------------
(***************************************************************************)
(* Proofs about Uploads, for any number of uploads, requests and sweeping  *)
(* processes, any batch and lifetimes, and any set of faults.              *)
(***************************************************************************)
EXTENDS Uploads, TLAPS

(* Uploads that are asked about or written to have a row.                  *)
Rooted ==
  /\ \A u \in Uploads : status[u] = "none" => put[u] = "none" /\ object[u] = "none"
  /\ \A c \in Callers : call[c] # Idle => status[call[c].upload] # "none"

(* A sweep erases what is dead.                                            *)
Doomed ==
  \A s \in Sweepers : sweep[s].step = "erase" =>
    \A u \in sweep[s].todo : status[u] \in {"expired", "deleted", "gone"}

(* What a request has seen of its upload still stands.                     *)
Stands(step, u) ==
  /\ put[u] = "none"
  /\ step = "sniff" => object[u] # "short"
  /\ step \in {"discard", "delete"} => object[u] # "good"
  /\ step = "ready" /\ status[u] = "pending" => object[u] = "good"
Seen ==
  \A c \in Callers : call[c] # Idle /\ call[c].upload \notin crossed =>
    Stands(call[c].step, call[c].upload)

ReadyAlone ==
  \A u \in Uploads \ crossed : status[u] = "ready" => object[u] = "good" /\ put[u] = "none"

(* Transfers end before their upload expires.                              *)
PutsFresh == \A u \in Uploads : put[u] # "none" => now <= expires[u]

(* What a sweep will not erase, though it is old, is excused.              *)
Kept(s) ==
  {u \in Uploads : u \in Live \/ (sweep[s].step = "erase" /\ u \in Dead /\ u \notin sweep[s].todo)}
Vouched(s) ==
  sweep[s] # Idle =>
    /\ sweep[s].at <= now
    /\ \A u \in Kept(s) : expires[u] + Keep < sweep[s].at /\ object[u] # "none" =>
         excuse[u] > expires[u] + Keep

(* What this hour's sweep has passed over, though it was due, is excused.  *)
Passed(s) == IF sweep[s] = Idle THEN Live \cup Dead ELSE Kept(s)
Excused(u) == owed[u] >= now \/ excuse[u] >= now \/ hindered >= now
Served(s) ==
  s \notin due =>
    /\ sweep[s] # Idle => sweep[s].at = now
    /\ \A u \in Passed(s) : object[u] # "none" => Excused(u)

LiveOwed == \A u \in Live : owed[u] = expires[u]

IInv ==
  /\ TypeOK /\ Rooted
  /\ Doomed /\ Seen /\ ReadyAlone
  /\ PutsFresh /\ \A s \in Sweepers : Vouched(s)
  /\ LiveOwed /\ \A s \in Sweepers : Served(s)
  /\ ReclaimedInTime
-----------------------------------------------------------------------------
(* Every step keeps the types.                                             *)
LEMMA TypeStep == TypeOK /\ [Next]_vars => TypeOK'
<1> SUFFICES ASSUME TypeOK, [Next]_vars PROVE TypeOK' OBVIOUS
<1> USE UploadsAssumption DEF clock, rows, history, Times, Steps, Statuses, TypeOK, Idle
<1>1. ASSUME NEW u \in Uploads,
             InitUpload(u) \/ BeginPut(u) \/ Truncate(u) \/ EndPut(u) \/ AbandonPut(u) \/ Delete(u)
      PROVE  TypeOK'
  BY <1>1 DEF InitUpload, BeginPut, Truncate, EndPut, AbandonPut, Delete, Stored, MarkDeleted
<1>2. ASSUME NEW c \in Callers, NEW u \in Uploads, Complete(c, u) PROVE TypeOK'
  BY <1>2 DEF Complete
<1>3. ASSUME NEW c \in Callers, Stat(c) \/ Sniff(c) \/ Discard(c) PROVE TypeOK'
  <2>1. call[c] \in [step : Steps, upload : Uploads] BY <1>3 DEF Stat, Sniff, Discard, At
  <2>2. CASE Stat(c)
    <3>1. Sized(call[c].upload) \in {"none", "sniff", "discard"} BY DEF Sized
    <3> QED BY <2>1, <2>2, <3>1 DEF Stat, Now, Over
  <2>3. CASE Sniff(c)
    <3>1. Sniffed(call[c].upload) \subseteq {"none", "ready", "discard"} BY <2>1 DEF Sniffed
    <3> QED BY <2>1, <2>3, <3>1 DEF Sniff, Now, Over
  <2>4. CASE Discard(c)
    BY <2>1, <2>4 DEF Discard, Now
  <2> QED BY <1>3, <2>2, <2>3, <2>4
<1>4. ASSUME NEW c \in Callers, Refuse(c) \/ MarkReady(c) \/ CompleteFails(c) PROVE TypeOK'
  BY <1>4 DEF Refuse, MarkReady, CompleteFails, MarkDeleted, Readied, At, Over
<1>5. ASSUME NEW s \in Sweepers, ReapExpired(s) PROVE TypeOK'
  BY <1>5 DEF ReapExpired, Oldest, Expired, Live, Left, Sweeping
<1>6. ASSUME NEW s \in Sweepers, ListForDeletion(s) PROVE TypeOK'
  <2>1. sweep[s] \in [step : {"list", "erase"}, at : Times, todo : SUBSET Uploads]
    BY <1>6 DEF ListForDeletion, Sweeping
  <2>2. PICK part \in SUBSET Uploads :
          /\ sweep' = [sweep EXCEPT ![s].step = "erase", ![s].todo = part]
          /\ Left(Listed \ part)
    BY <1>6 DEF ListForDeletion, Oldest, Listed, Dead
  <2>3. sweep'[s] = [step |-> "erase", at |-> sweep[s].at, todo |-> part] BY <2>1, <2>2
  <2>4. sweep' = [sweep EXCEPT ![s] = sweep'[s]] BY <2>2
  <2>5. sweep' \in [Sweepers ->
          {Idle} \cup [step : {"list", "erase"}, at : Times, todo : SUBSET Uploads]]
    BY <2>1, <2>3, <2>4
  <2>6. excuse' \in [Uploads -> Times] BY <2>2 DEF Left
  <2> QED BY <1>6, <2>5, <2>6 DEF ListForDeletion
<1>7. ASSUME NEW s \in Sweepers, HardDelete(s) \/ SweepFails(s) PROVE TypeOK'
  BY <1>7 DEF HardDelete, SweepFails, Sweeping, Cleaned, Old
<1>8. ASSUME NEW s \in Sweepers, NEW u \in Uploads, Erase(s, u) \/ EraseFails(s, u) PROVE TypeOK'
  <2>1. sweep[s] \in [step : {"list", "erase"}, at : Times, todo : SUBSET Uploads]
    BY <1>8 DEF Erase, EraseFails, Sweeping
  <2>2. sweep' = [sweep EXCEPT ![s].todo = @ \ {u}] BY <1>8 DEF Erase, EraseFails
  <2>3. sweep' \in [Sweepers ->
          {Idle} \cup [step : {"list", "erase"}, at : Times, todo : SUBSET Uploads]]
    BY <2>1, <2>2
  <2> QED BY <1>8, <2>3 DEF Erase, EraseFails, Left
<1>9. CASE TimePasses
  BY <1>9 DEF TimePasses
<1>10. CASE Restart
  BY <1>10 DEF Restart
<1>11. CASE UNCHANGED vars
  BY <1>11 DEF vars
<1> QED BY <1>1, <1>2, <1>3, <1>4, <1>5, <1>6, <1>7, <1>8, <1>9, <1>10, <1>11 DEF Next
-----------------------------------------------------------------------------
(* What a request holds is an upload.                                      *)
LEMMA CallFields ==
  ASSUME TypeOK, NEW c \in Callers
  PROVE  /\ call[c] # Idle => call[c].upload \in Uploads /\ call[c].step \in Steps
         /\ call[c].step # "none" => call[c] # Idle
         /\ call[c] = Idle => call[c].step = "none"
  BY DEF TypeOK, Idle, Steps

(* No request begins.                                                      *)
Lasting ==
  \A c \in Callers : call'[c] # Idle => call[c] # Idle /\ call'[c].upload = call[c].upload

(* How the requests move on, the other ones staying as they are.           *)
LEMMA CallMoves ==
  ASSUME TypeOK, NEW c \in Callers, NEW step \in Steps, call[c] # Idle, Now(c, step)
  PROVE  /\ call'[c] = [step |-> step, upload |-> call[c].upload]
         /\ call'[c] # Idle
         /\ \A d \in Callers \ {c} : call'[d] = call[d]
         /\ Lasting
  BY DEF TypeOK, Idle, Steps, Now, Lasting

LEMMA CallEnds ==
  ASSUME TypeOK, NEW c \in Callers, Over(c)
  PROVE  /\ call'[c] = Idle
         /\ \A d \in Callers \ {c} : call'[d] = call[d]
         /\ Lasting
  BY DEF TypeOK, Over, Lasting

(* A deletion makes a row dead, if there is one.                           *)
LEMMA Deletion ==
  ASSUME TypeOK, NEW u \in Uploads, MarkDeleted(u)
  PROVE  /\ status'[u] \in {"deleted", "gone"}
         /\ status'[u] = "gone" <=> status[u] = "gone"
         /\ \A v \in Uploads \ {u} : status'[v] = status[v] /\ owed'[v] = owed[v]
         /\ expires' = expires
         /\ u \in Live => owed'[u] >= now \/ owed'[u] = owed[u]
         /\ u \notin Live => owed'[u] = owed[u]
  BY DEF TypeOK, MarkDeleted, Times

(* What is asked about or written to has a row.                            *)
LEMMA RootedStep == TypeOK /\ Rooted /\ [Next]_vars => Rooted'
<1> SUFFICES ASSUME TypeOK, Rooted, [Next]_vars PROVE Rooted' OBVIOUS
<1> USE DEF clock, rows, history, Rooted
<1>1. ASSUME NEW u \in Uploads, InitUpload(u) PROVE Rooted'
  BY <1>1 DEF InitUpload, TypeOK
<1>2. ASSUME NEW u \in Uploads, BeginPut(u) \/ Truncate(u) \/ EndPut(u) \/ AbandonPut(u)
      PROVE  Rooted'
  <2>1. status[u] # "none"
    BY <1>2 DEF BeginPut, Truncate, EndPut, AbandonPut, Open
  <2> QED BY <1>2, <2>1 DEF BeginPut, Truncate, EndPut, AbandonPut, Stored, TypeOK
<1>3. ASSUME NEW u \in Uploads, Delete(u) PROVE Rooted'
  BY <1>3, Deletion, CallFields DEF Delete
<1>4. ASSUME NEW c \in Callers, NEW u \in Uploads, Complete(c, u) PROVE Rooted'
  BY <1>4 DEF Complete, TypeOK
<1>5. ASSUME NEW c \in Callers, Stat(c) \/ Sniff(c) PROVE Rooted'
  <2>1. call[c] # Idle BY <1>5 DEF Stat, Sniff, At, Idle
  <2>2. \/ Over(c)
        \/ \E step \in Steps : Now(c, step)
    BY <1>5 DEF Stat, Sniff, Sized, Sniffed, Steps
  <2>3. Lasting BY <2>1, <2>2, CallMoves, CallEnds
  <2> QED BY <1>5, <2>3 DEF Stat, Sniff, Lasting
<1>6. ASSUME NEW c \in Callers, Discard(c) PROVE Rooted'
  <2>1. call[c] # Idle BY <1>6 DEF Discard, At, Idle
  <2>2. Now(c, "delete") /\ "delete" \in Steps BY <1>6 DEF Discard, Steps
  <2>3. \A u \in Uploads : object'[u] \in {"none", object[u]} BY <1>6 DEF Discard, TypeOK
  <2>4. Lasting BY <2>1, <2>2, CallMoves
  <2> QED BY <1>6, <2>3, <2>4 DEF Discard, Lasting
<1>7. ASSUME NEW c \in Callers, Refuse(c) PROVE Rooted'
  <2>1. call[c].upload \in Uploads BY <1>7, CallFields DEF Refuse, At
  <2> QED BY <1>7, <2>1, CallEnds, CallFields, Deletion DEF Refuse
<1>8. ASSUME NEW c \in Callers, MarkReady(c) \/ CompleteFails(c) PROVE Rooted'
  <2>1. \A u \in Uploads : status'[u] = "none" <=> status[u] = "none"
    BY <1>8 DEF MarkReady, CompleteFails, Readied, TypeOK
  <2> QED BY <1>8, <2>1, CallEnds, CallFields DEF MarkReady, CompleteFails
<1>9. ASSUME NEW s \in Sweepers, ReapExpired(s) PROVE Rooted'
  <2>1. \A u \in Uploads : status'[u] = "none" <=> status[u] = "none"
    BY <1>9 DEF ReapExpired, Oldest, Expired, Live, TypeOK
  <2> QED BY <1>9, <2>1, CallFields DEF ReapExpired
<1>10. ASSUME NEW s \in Sweepers, ListForDeletion(s) \/ SweepFails(s) PROVE Rooted'
  BY <1>10 DEF ListForDeletion, SweepFails
<1>11. ASSUME NEW s \in Sweepers, HardDelete(s) PROVE Rooted'
  <2>1. \A u \in Uploads : status'[u] = "none" <=> status[u] = "none"
    BY <1>11 DEF HardDelete, Old, Dead
  <2> QED BY <1>11, <2>1, CallFields DEF HardDelete
<1>12. ASSUME NEW s \in Sweepers, NEW u \in Uploads, Erase(s, u) \/ EraseFails(s, u) PROVE Rooted'
  BY <1>12 DEF Erase, EraseFails, TypeOK
<1>13. CASE TimePasses
  BY <1>13 DEF TimePasses
<1>14. CASE Restart
  BY <1>14 DEF Restart
<1>15. CASE UNCHANGED vars
  BY <1>15 DEF vars
<1> QED BY <1>1, <1>2, <1>3, <1>4, <1>5, <1>6, <1>7, <1>8, <1>9, <1>10, <1>11, <1>12,
           <1>13, <1>14, <1>15 DEF Next
-----------------------------------------------------------------------------
(* What has been listed for a sweep stays dead.                            *)
LEMMA DoomedStep == TypeOK /\ Rooted /\ Doomed /\ [Next]_vars => Doomed'
<1> SUFFICES ASSUME TypeOK, Rooted, Doomed, [Next]_vars PROVE Doomed' OBVIOUS
<1> USE DEF clock, rows, history, Doomed
<1>1. ASSUME NEW u \in Uploads,
             InitUpload(u) \/ BeginPut(u) \/ Truncate(u) \/ EndPut(u) \/ AbandonPut(u)
      PROVE  Doomed'
  <2>1. sweep' = sweep BY <1>1 DEF InitUpload, BeginPut, Truncate, EndPut, AbandonPut
  <2>2. \A v \in Uploads : status[v] # "none" => status'[v] = status[v]
    BY <1>1 DEF InitUpload, BeginPut, Truncate, EndPut, AbandonPut, TypeOK
  <2> QED BY <2>1, <2>2 DEF TypeOK, Idle
<1>2. ASSUME NEW u \in Uploads, Delete(u) PROVE Doomed'
  BY <1>2 DEF Delete, MarkDeleted, TypeOK
<1>3. ASSUME NEW c \in Callers,
             \/ \E u \in Uploads : Complete(c, u)
             \/ Stat(c) \/ Sniff(c) \/ Discard(c) \/ CompleteFails(c)
      PROVE  Doomed'
  BY <1>3 DEF Complete, Stat, Sniff, Discard, CompleteFails
<1>4. ASSUME NEW c \in Callers, Refuse(c) PROVE Doomed'
  BY <1>4 DEF Refuse, MarkDeleted, TypeOK
<1>5. ASSUME NEW c \in Callers, MarkReady(c) PROVE Doomed'
  BY <1>5 DEF MarkReady, Readied, TypeOK
<1>6. ASSUME NEW s \in Sweepers, ReapExpired(s) PROVE Doomed'
  <2>1. \A u \in Uploads : status[u] \in {"expired", "deleted", "gone"} =>
          status'[u] \in {"expired", "deleted", "gone"}
    BY <1>6 DEF ReapExpired
  <2>2. sweep'[s].step = "list" /\ \A t \in Sweepers \ {s} : sweep'[t] = sweep[t]
    BY <1>6 DEF ReapExpired, TypeOK
  <2> QED BY <2>1, <2>2 DEF TypeOK, Idle
<1>7. ASSUME NEW s \in Sweepers, ListForDeletion(s) PROVE Doomed'
  <2>1. PICK part \in SUBSET Dead :
          sweep' = [sweep EXCEPT ![s].step = "erase", ![s].todo = part]
    BY <1>7 DEF ListForDeletion, Oldest, Listed
  <2>2. sweep[s] \in [step : {"list", "erase"}, at : Times, todo : SUBSET Uploads]
    BY <1>7 DEF ListForDeletion, Sweeping, TypeOK, Idle
  <2>3. sweep'[s].todo = part BY <2>1, <2>2 DEF TypeOK
  <2>4. \A t \in Sweepers \ {s} : sweep'[t] = sweep[t] BY <2>1 DEF TypeOK
  <2> QED BY <1>7, <2>3, <2>4 DEF ListForDeletion, Dead
<1>8. ASSUME NEW s \in Sweepers, HardDelete(s) \/ SweepFails(s) PROVE Doomed'
  BY <1>8 DEF HardDelete, SweepFails, TypeOK, Idle
<1>9. ASSUME NEW s \in Sweepers, NEW u \in Uploads, Erase(s, u) \/ EraseFails(s, u) PROVE Doomed'
  <2>1. sweep[s] \in [step : {"list", "erase"}, at : Times, todo : SUBSET Uploads]
    BY <1>9 DEF Erase, EraseFails, Sweeping, TypeOK, Idle
  <2>2. sweep'[s].step = sweep[s].step /\ sweep'[s].todo = sweep[s].todo \ {u}
    BY <1>9, <2>1 DEF Erase, EraseFails, TypeOK
  <2>3. \A t \in Sweepers \ {s} : sweep'[t] = sweep[t] BY <1>9 DEF Erase, EraseFails, TypeOK
  <2> QED BY <1>9, <2>2, <2>3 DEF Erase, EraseFails
<1>10. CASE TimePasses
  BY <1>10 DEF TimePasses
<1>11. CASE Restart
  BY <1>11 DEF Restart, Idle
<1>12. CASE UNCHANGED vars
  BY <1>12 DEF vars
<1> QED BY <1>1, <1>2, <1>3, <1>4, <1>5, <1>6, <1>7, <1>8, <1>9, <1>10, <1>11, <1>12 DEF Next
-----------------------------------------------------------------------------
(* An upload that a step leaves alone, as far as a request can tell.       *)
Calm(u) ==
  put'[u] = put[u] /\ object'[u] = object[u] /\ (status'[u] = "pending" => status[u] = "pending")

LEMMA Undisturbed ==
  ASSUME TypeOK, Seen,
         \A d \in Callers : call'[d] # Idle =>
           /\ call'[d] = call[d]
           /\ call[d].upload \notin crossed' =>
                call[d].upload \notin crossed /\ Calm(call[d].upload)
  PROVE  Seen'
  BY DEF Seen, Stands, Calm

(* What a request has seen still stands after every step.                  *)
LEMMA SeenStep == TypeOK /\ Rooted /\ Doomed /\ Seen /\ [Next]_vars => Seen'
<1> SUFFICES ASSUME TypeOK, Rooted, Doomed, Seen, [Next]_vars PROVE Seen' OBVIOUS
<1> USE DEF clock, rows, history
<1>0. \A d \in Callers : call[d] # Idle => call[d].upload \in Uploads BY CallFields
<1>1. ASSUME NEW u \in Uploads, InitUpload(u) PROVE Seen'
  BY <1>0, <1>1, Undisturbed DEF InitUpload, Rooted, Calm, TypeOK
<1>2. ASSUME NEW u \in Uploads, BeginPut(u) PROVE Seen'
  BY <1>0, <1>2, Undisturbed DEF BeginPut, Inside, Calm, TypeOK
<1>3. ASSUME NEW u \in Uploads, Truncate(u) \/ EndPut(u) \/ AbandonPut(u) PROVE Seen'
  <2>1. put[u] # "none" BY <1>3 DEF Truncate, EndPut, AbandonPut
  <2>2. \A d \in Callers : call[d] # Idle /\ call[d].upload \notin crossed => call[d].upload # u
    BY <2>1 DEF Seen, Stands
  <2>3. \A v \in Uploads \ {u} : Calm(v)
    BY <1>3 DEF Truncate, EndPut, AbandonPut, Stored, Calm, TypeOK
  <2>4. call' = call /\ crossed' = crossed BY <1>3 DEF Truncate, EndPut, AbandonPut
  <2> QED BY <1>0, <2>2, <2>3, <2>4, Undisturbed
<1>4. ASSUME NEW u \in Uploads, Delete(u) PROVE Seen'
  BY <1>0, <1>4, Undisturbed DEF Delete, MarkDeleted, Calm, TypeOK
<1>5. ASSUME NEW c \in Callers, NEW u \in Uploads, Complete(c, u) PROVE Seen'
  <2>1. call'[c] = [step |-> "stat", upload |-> u] /\ \A d \in Callers \ {c} : call'[d] = call[d]
    BY <1>5 DEF Complete, TypeOK
  <2>2. u \notin crossed' => put'[u] = "none" BY <1>5 DEF Complete
  <2>3. crossed \subseteq crossed' BY <1>5 DEF Complete
  <2> QED BY <1>5, <2>1, <2>2, <2>3 DEF Complete, Seen, Stands
<1>6. ASSUME NEW c \in Callers, Stat(c) PROVE Seen'
  <2>1. call[c] # Idle BY <1>6 DEF Stat, At, Idle
  <2>2. CASE Over(c)
    BY <1>6, <2>2, CallEnds DEF Stat, Seen, Stands
  <2>3. ASSUME NEW step \in {"sniff", "discard"}, step = Sized(call[c].upload), Now(c, step)
        PROVE  Seen'
    <3>1. step \in Steps BY DEF Steps
    <3>2. /\ step = "sniff" => object[call[c].upload] # "short"
          /\ step = "discard" => object[call[c].upload] # "good"
      BY <2>3 DEF Sized
    <3>3. /\ call'[c] = [step |-> step, upload |-> call[c].upload]
         /\ \A d \in Callers \ {c} : call'[d] = call[d]
      BY <2>1, <2>3, <3>1, CallMoves
    <3> QED BY <1>6, <2>1, <3>1, <3>2, <3>3 DEF Stat, Seen, Stands
  <2> QED BY <1>6, <2>2, <2>3 DEF Stat, Sized
<1>7. ASSUME NEW c \in Callers, Sniff(c) PROVE Seen'
  <2>1. call[c] # Idle /\ call[c].upload \in Uploads BY <1>0, <1>7 DEF Sniff, At, Idle
  <2>2. CASE Over(c)
    BY <1>7, <2>2, CallEnds DEF Sniff, Seen, Stands
  <2>3. ASSUME NEW step \in Sniffed(call[c].upload), step # "none", Now(c, step) PROVE Seen'
    <3>1. step \in {"ready", "discard"} /\ step \in Steps BY <2>3 DEF Sniffed, Steps
    <3>2. object[call[c].upload] \in {"none", "short", "good", "other"} BY <2>1 DEF TypeOK
    <3>3. object[call[c].upload] # "short" =>
            /\ step = "ready" => object[call[c].upload] = "good"
            /\ step = "discard" => object[call[c].upload] # "good"
      BY <2>3, <3>2 DEF Sniffed
    <3>4. call[c].upload \notin crossed => object[call[c].upload] # "short"
      BY <1>7, <2>1 DEF Sniff, At, Seen, Stands
    <3>5. /\ call'[c] = [step |-> step, upload |-> call[c].upload]
         /\ \A d \in Callers \ {c} : call'[d] = call[d]
      BY <2>1, <2>3, <3>1, CallMoves
    <3> QED BY <1>7, <2>1, <3>1, <3>3, <3>4, <3>5 DEF Sniff, Seen, Stands
  <2> QED BY <1>7, <2>2, <2>3 DEF Sniff
<1>8. ASSUME NEW c \in Callers, Discard(c) PROVE Seen'
  <2> DEFINE v == call[c].upload
  <2>1. call[c] # Idle /\ v \in Uploads BY <1>0, <1>8 DEF Discard, At, Idle
  <2>2. /\ call'[c] = [step |-> "delete", upload |-> v]
        /\ \A d \in Callers \ {c} : call'[d] = call[d]
    BY <1>8, <2>1, CallMoves DEF Discard, Steps
  <2>3. v \notin crossed => put[v] = "none" /\ object[v] # "good"
    BY <1>8, <2>1 DEF Discard, At, Seen, Stands
  <2>4. object'[v] = "none" /\ \A u \in Uploads \ {v} : object'[u] = object[u]
    BY <1>8, <2>1 DEF Discard, TypeOK
  <2> QED BY <1>0, <1>8, <2>1, <2>2, <2>3, <2>4 DEF Discard, Seen, Stands
<1>9. ASSUME NEW c \in Callers, Refuse(c) \/ MarkReady(c) \/ CompleteFails(c) PROVE Seen'
  <2>1. \A v \in Uploads : Calm(v)
    BY <1>9 DEF Refuse, MarkDeleted, MarkReady, Readied, CompleteFails, Calm, TypeOK
  <2>2. Over(c) /\ crossed' = crossed BY <1>9 DEF Refuse, MarkReady, CompleteFails
  <2> QED BY <1>0, <2>1, <2>2, CallEnds, Undisturbed
<1>10. ASSUME NEW s \in Sweepers,
              \/ ReapExpired(s) \/ ListForDeletion(s) \/ HardDelete(s) \/ SweepFails(s)
              \/ \E u \in Uploads : EraseFails(s, u)
       PROVE  Seen'
  <2>1. \A v \in Uploads : Calm(v)
    BY <1>10 DEF ReapExpired, ListForDeletion, HardDelete, SweepFails, EraseFails, Calm, TypeOK
  <2>2. call' = call /\ crossed' = crossed
    BY <1>10 DEF ReapExpired, ListForDeletion, HardDelete, SweepFails, EraseFails
  <2> QED BY <1>0, <2>1, <2>2, Undisturbed
<1>11. ASSUME NEW s \in Sweepers, NEW u \in Uploads, Erase(s, u) PROVE Seen'
  <2>1. status[u] # "pending" BY <1>11 DEF Erase, Sweeping, Doomed
  <2>2. object'[u] = "none" /\ \A v \in Uploads \ {u} : object'[v] = object[v]
    BY <1>11 DEF Erase, TypeOK
  <2> QED BY <1>0, <1>11, <2>1, <2>2 DEF Erase, Seen, Stands
<1>12. CASE TimePasses
  BY <1>12 DEF TimePasses, Seen, Stands
<1>13. CASE Restart
  BY <1>13 DEF Restart, Seen
<1>14. CASE UNCHANGED vars
  BY <1>14 DEF vars, Seen, Stands
<1> QED BY <1>1, <1>2, <1>3, <1>4, <1>5, <1>6, <1>7, <1>8, <1>9, <1>10, <1>11, <1>12,
           <1>13, <1>14 DEF Next
-----------------------------------------------------------------------------
(* What is ready stays as it was checked.                                  *)
LEMMA ReadyStep == TypeOK /\ Rooted /\ Doomed /\ Seen /\ ReadyAlone /\ [Next]_vars => ReadyAlone'
<1> SUFFICES ASSUME TypeOK, Rooted, Doomed, Seen, ReadyAlone, [Next]_vars PROVE ReadyAlone' OBVIOUS
<1> USE DEF clock, rows, history, ReadyAlone
<1>0. \A d \in Callers : call[d] # Idle => call[d].upload \in Uploads BY CallFields
<1>1. ASSUME NEW u \in Uploads, InitUpload(u) PROVE ReadyAlone'
  BY <1>1 DEF InitUpload, TypeOK
<1>2. ASSUME NEW u \in Uploads, BeginPut(u) PROVE ReadyAlone'
  <2>1. backend \in {"local", "s3"} BY UploadsAssumption DEF TypeOK
  <2>2. u \notin crossed' => status[u] # "ready" BY <1>2, <2>1 DEF BeginPut, Open
  <2>3. \A v \in Uploads \ {u} : put'[v] = put[v] BY <1>2 DEF BeginPut, TypeOK
  <2> QED BY <1>2, <2>2, <2>3 DEF BeginPut
<1>3. ASSUME NEW u \in Uploads, Truncate(u) \/ EndPut(u) \/ AbandonPut(u) PROVE ReadyAlone'
  <2>1. u \notin crossed => status[u] # "ready" BY <1>3 DEF Truncate, EndPut, AbandonPut
  <2>2. \A v \in Uploads \ {u} : put'[v] = put[v] /\ object'[v] = object[v]
    BY <1>3 DEF Truncate, EndPut, AbandonPut, Stored, TypeOK
  <2> QED BY <1>3, <2>1, <2>2 DEF Truncate, EndPut, AbandonPut
<1>4. ASSUME NEW u \in Uploads, Delete(u) PROVE ReadyAlone'
  BY <1>4 DEF Delete, MarkDeleted, TypeOK
<1>5. ASSUME NEW c \in Callers, \E u \in Uploads : Complete(c, u) PROVE ReadyAlone'
  BY <1>5 DEF Complete
<1>6. ASSUME NEW c \in Callers, Stat(c) \/ Sniff(c) \/ CompleteFails(c) PROVE ReadyAlone'
  BY <1>6 DEF Stat, Sniff, CompleteFails
<1>7. ASSUME NEW c \in Callers, Discard(c) PROVE ReadyAlone'
  <2> DEFINE v == call[c].upload
  <2>1. call[c] # Idle /\ v \in Uploads BY <1>0, <1>7 DEF Discard, At, Idle
  <2>2. v \notin crossed => object[v] # "good" BY <1>7, <2>1 DEF Discard, At, Seen, Stands
  <2>3. \A u \in Uploads \ {v} : object'[u] = object[u] BY <1>7 DEF Discard, TypeOK
  <2> QED BY <1>7, <2>1, <2>2, <2>3 DEF Discard
<1>8. ASSUME NEW c \in Callers, Refuse(c) PROVE ReadyAlone'
  BY <1>8 DEF Refuse, MarkDeleted, TypeOK
<1>9. ASSUME NEW c \in Callers, MarkReady(c) PROVE ReadyAlone'
  <2> DEFINE v == call[c].upload
  <2>1. call[c] # Idle /\ v \in Uploads BY <1>0, <1>9 DEF MarkReady, At, Idle
  <2>2. v \notin crossed => put[v] = "none" /\ (status[v] = "pending" => object[v] = "good")
    BY <1>9, <2>1 DEF MarkReady, At, Seen, Stands
  <2>3. /\ status'[v] = "ready" => status[v] \in {"pending", "ready"}
        /\ \A u \in Uploads \ {v} : status'[u] = status[u]
    BY <1>9, <2>1 DEF MarkReady, Readied, TypeOK
  <2> QED BY <1>9, <2>1, <2>2, <2>3 DEF MarkReady
<1>10. ASSUME NEW s \in Sweepers,
              \/ ReapExpired(s) \/ ListForDeletion(s) \/ HardDelete(s) \/ SweepFails(s)
              \/ \E u \in Uploads : EraseFails(s, u)
       PROVE  ReadyAlone'
  <2>1. \A v \in Uploads : status'[v] = "ready" => status[v] = "ready"
    BY <1>10 DEF ReapExpired, ListForDeletion, HardDelete, SweepFails, EraseFails
  <2>2. object' = object /\ put' = put /\ crossed' = crossed
    BY <1>10 DEF ReapExpired, ListForDeletion, HardDelete, SweepFails, EraseFails
  <2> QED BY <2>1, <2>2
<1>11. ASSUME NEW s \in Sweepers, NEW u \in Uploads, Erase(s, u) PROVE ReadyAlone'
  <2>1. status[u] # "ready" BY <1>11 DEF Erase, Sweeping, Doomed
  <2>2. \A v \in Uploads \ {u} : object'[v] = object[v] BY <1>11 DEF Erase, TypeOK
  <2> QED BY <1>11, <2>1, <2>2 DEF Erase
<1>12. CASE TimePasses
  BY <1>12 DEF TimePasses
<1>13. CASE Restart
  BY <1>13 DEF Restart
<1>14. CASE UNCHANGED vars
  BY <1>14 DEF vars
<1> QED BY <1>1, <1>2, <1>3, <1>4, <1>5, <1>6, <1>7, <1>8, <1>9, <1>10, <1>11, <1>12,
           <1>13, <1>14 DEF Next
-----------------------------------------------------------------------------
(* Transfers end before their upload expires.                              *)
LEMMA FreshStep == TypeOK /\ Rooted /\ PutsFresh /\ [Next]_vars => PutsFresh'
<1> SUFFICES ASSUME TypeOK, Rooted, PutsFresh, [Next]_vars PROVE PutsFresh' OBVIOUS
<1> USE UploadsAssumption DEF clock, rows, history, PutsFresh
<1>1. ASSUME NEW u \in Uploads, InitUpload(u) PROVE PutsFresh'
  BY <1>1 DEF InitUpload, Rooted, TypeOK
<1>2. ASSUME NEW u \in Uploads, BeginPut(u) \/ Truncate(u) \/ EndPut(u) \/ AbandonPut(u)
      PROVE  PutsFresh'
  BY <1>2 DEF BeginPut, Fresh, Truncate, EndPut, AbandonPut, TypeOK, Times
<1>3. ASSUME NEW u \in Uploads, Delete(u) PROVE PutsFresh'
  BY <1>3 DEF Delete, MarkDeleted
<1>4. ASSUME NEW c \in Callers,
             \/ \E u \in Uploads : Complete(c, u)
             \/ Stat(c) \/ Sniff(c) \/ Discard(c) \/ Refuse(c) \/ MarkReady(c) \/ CompleteFails(c)
      PROVE  PutsFresh'
  BY <1>4 DEF Complete, Stat, Sniff, Discard, Refuse, MarkDeleted, MarkReady, CompleteFails
<1>5. ASSUME NEW s \in Sweepers,
             \/ ReapExpired(s) \/ ListForDeletion(s) \/ HardDelete(s) \/ SweepFails(s)
             \/ \E u \in Uploads : Erase(s, u) \/ EraseFails(s, u)
      PROVE  PutsFresh'
  BY <1>5 DEF ReapExpired, ListForDeletion, HardDelete, SweepFails, Erase, EraseFails
<1>6. CASE TimePasses
  BY <1>6 DEF TimePasses, Fresh, TypeOK, Times
<1>7. CASE Restart
  BY <1>7 DEF Restart
<1>8. CASE UNCHANGED vars
  BY <1>8 DEF vars
<1> QED BY <1>1, <1>2, <1>3, <1>4, <1>5, <1>6, <1>7, <1>8 DEF Next

(* A live row is owed to its expiry.                                       *)
LEMMA OwedStep == TypeOK /\ Rooted /\ LiveOwed /\ [Next]_vars => LiveOwed'
<1> SUFFICES ASSUME TypeOK, Rooted, LiveOwed, [Next]_vars PROVE LiveOwed' OBVIOUS
<1> USE DEF clock, rows, history, LiveOwed, Live
<1>1. ASSUME NEW u \in Uploads, InitUpload(u) PROVE LiveOwed'
  BY <1>1 DEF InitUpload, TypeOK
<1>2. ASSUME NEW u \in Uploads, BeginPut(u) \/ Truncate(u) \/ EndPut(u) \/ AbandonPut(u)
      PROVE  LiveOwed'
  BY <1>2 DEF BeginPut, Truncate, EndPut, AbandonPut
<1>3. ASSUME NEW u \in Uploads, MarkDeleted(u) PROVE LiveOwed'
  BY <1>3, Deletion
<1>4. ASSUME NEW u \in Uploads, Delete(u) PROVE LiveOwed'
  BY <1>3, <1>4 DEF Delete
<1>5. ASSUME NEW c \in Callers,
             \/ \E u \in Uploads : Complete(c, u)
             \/ Stat(c) \/ Sniff(c) \/ Discard(c) \/ CompleteFails(c)
      PROVE  LiveOwed'
  BY <1>5 DEF Complete, Stat, Sniff, Discard, CompleteFails
<1>6. ASSUME NEW c \in Callers, Refuse(c) PROVE LiveOwed'
  <2>1. call[c].upload \in Uploads BY <1>6, CallFields DEF Refuse, At
  <2> QED BY <1>3, <1>6, <2>1 DEF Refuse
<1>7. ASSUME NEW c \in Callers, MarkReady(c) PROVE LiveOwed'
  BY <1>7 DEF MarkReady, Readied, TypeOK
<1>8. ASSUME NEW s \in Sweepers,
             \/ ReapExpired(s) \/ ListForDeletion(s) \/ HardDelete(s) \/ SweepFails(s)
             \/ \E u \in Uploads : Erase(s, u) \/ EraseFails(s, u)
      PROVE  LiveOwed'
  <2>1. \A v \in Uploads : status'[v] \in {"pending", "ready"} => status'[v] = status[v]
    BY <1>8 DEF ReapExpired, ListForDeletion, HardDelete, SweepFails, Erase, EraseFails
  <2>2. owed' = owed /\ expires' = expires
    BY <1>8 DEF ReapExpired, ListForDeletion, HardDelete, SweepFails, Erase, EraseFails
  <2> QED BY <2>1, <2>2
<1>9. CASE TimePasses \/ Restart
  BY <1>9 DEF TimePasses, Restart
<1>10. CASE UNCHANGED vars
  BY <1>10 DEF vars
<1> QED BY <1>1, <1>2, <1>4, <1>5, <1>6, <1>7, <1>8, <1>9, <1>10 DEF Next
-----------------------------------------------------------------------------
(* What a step does to an upload, seen from a sweep that does not take it. *)
Steady(u) ==
  /\ u \in Live' => u \in Live
  /\ u \in Dead' => u \in Live \cup Dead
  /\ object[u] # "none"
  /\ expires'[u] = expires[u]
  /\ owed'[u] = owed[u] \/ owed'[u] >= now
  /\ excuse'[u] = excuse[u] \/ excuse'[u] = now
Framed(u) ==
  \/ object'[u] = "none"
  \/ u \notin Live' \cup Dead'
  \/ expires'[u] >= now /\ (owed'[u] >= now \/ excuse'[u] >= now)
  \/ Steady(u)

LEMMA VouchedFrame ==
  ASSUME TypeOK, TypeOK', NEW t \in Sweepers, Vouched(t),
         sweep'[t] = sweep[t], now' = now, \A u \in Uploads : Framed(u)
  PROVE  Vouched(t)'
<1> SUFFICES ASSUME sweep'[t] # Idle PROVE Vouched(t)' BY DEF Vouched
<1>1. sweep[t] # Idle /\ sweep[t].at <= now BY DEF Vouched
<1>2. sweep[t].at \in Nat BY <1>1 DEF TypeOK, Times
<1>3. ASSUME NEW u \in Kept(t)', expires'[u] + Keep < sweep[t].at, object'[u] # "none"
      PROVE  excuse'[u] > expires'[u] + Keep
  <2>1. u \in Uploads /\ u \in Live' \cup Dead' BY <1>3 DEF Kept, Live, Dead
  <2>2. /\ expires[u] \in Nat /\ expires'[u] \in Nat /\ excuse[u] \in Nat /\ now \in Nat
        /\ Keep \in Nat
    BY <2>1, UploadsAssumption DEF TypeOK, Times
  <2>3. Steady(u) BY <1>1, <1>2, <1>3, <2>1, <2>2 DEF Framed
  <2>4. u \in Kept(t) BY <1>3, <2>1, <2>3 DEF Kept, Steady
  <2>5. excuse[u] > expires[u] + Keep BY <1>1, <1>3, <2>3, <2>4 DEF Vouched, Steady
  <2>6. CASE excuse'[u] = excuse[u] BY <2>3, <2>5, <2>6 DEF Steady
  <2>7. CASE excuse'[u] = now BY <1>1, <1>2, <1>3, <2>2, <2>7
  <2> QED BY <2>3, <2>6, <2>7 DEF Steady
<1> QED BY <1>1, <1>3 DEF Vouched

LEMMA ServedFrame ==
  ASSUME TypeOK, TypeOK', NEW t \in Sweepers, Served(t),
         t \in due => t \in due', sweep'[t] = sweep[t], now' = now,
         hindered' = hindered \/ hindered' = now, \A u \in Uploads : Framed(u)
  PROVE  Served(t)'
<1> SUFFICES ASSUME t \notin due' PROVE Served(t)' BY DEF Served
<1>1. ASSUME NEW u \in Passed(t)', object'[u] # "none" PROVE Excused(u)'
  <2>1. u \in Uploads /\ u \in Live' \cup Dead' BY <1>1 DEF Passed, Kept, Live, Dead
  <2>2. now \in Nat BY DEF TypeOK, Times
  <2>3. CASE owed'[u] >= now \/ excuse'[u] >= now BY <2>3 DEF Excused
  <2>4. CASE Steady(u)
    <3>1. u \in Passed(t) BY <1>1, <2>1, <2>4 DEF Passed, Kept, Steady
    <3>2. Excused(u) BY <2>4, <3>1 DEF Served, Steady
    <3> QED BY <2>2, <2>4, <3>2 DEF Excused, Steady
  <2> QED BY <1>1, <2>1, <2>3, <2>4 DEF Framed
<1> QED BY <1>1 DEF Served

(* The last of three hours.                                                *)
LEMMA WithinAnHour ==
  ASSUME NEW n \in Nat, NEW a \in Nat, NEW b \in Nat, NEW c \in Nat
  PROVE  n <= 1 + Longest(Longest(a, b), c) <=> n <= 1 + a \/ n <= 1 + b \/ n <= 1 + c
  BY DEF Longest

LEMMA ReclaimedFrame ==
  ASSUME TypeOK, TypeOK', Rooted', ReclaimedInTime, now' = now,
         hindered' = hindered \/ hindered' = now, \A u \in Uploads : Framed(u)
  PROVE  ReclaimedInTime'
<1>1. ASSUME NEW u \in Uploads, object'[u] # "none", status'[u] # "gone"
      PROVE  now' <= 1 + Longest(Longest(owed'[u], excuse'[u]), hindered')
  <2>1. /\ now \in Nat /\ hindered \in Nat /\ hindered' \in Nat
        /\ owed[u] \in Nat /\ owed'[u] \in Nat /\ excuse[u] \in Nat /\ excuse'[u] \in Nat
    BY DEF TypeOK, Times
  <2>2. u \in Live' \cup Dead' BY <1>1 DEF Rooted, TypeOK, Statuses, Live, Dead
  <2>3. CASE owed'[u] >= now \/ excuse'[u] >= now
    <3>1. now <= 1 + owed'[u] \/ now <= 1 + excuse'[u] BY <2>1, <2>3
    <3> QED BY <2>1, <3>1, WithinAnHour
  <2>4. CASE Steady(u)
    <3>1. status[u] # "gone" BY <2>2, <2>4 DEF Steady, Live, Dead
    <3>2. now <= 1 + Longest(Longest(owed[u], excuse[u]), hindered)
      BY <2>4, <3>1 DEF ReclaimedInTime, Steady
    <3>3. now <= 1 + owed[u] \/ now <= 1 + excuse[u] \/ now <= 1 + hindered
      BY <2>1, <3>2, WithinAnHour
    <3>4. /\ now <= 1 + owed[u] => now <= 1 + owed'[u]
          /\ now <= 1 + excuse[u] => now <= 1 + excuse'[u]
          /\ now <= 1 + hindered => now <= 1 + hindered'
      <4>1. \A a, b \in Nat : b = a \/ b >= now => (now <= 1 + a => now <= 1 + b)
        BY <2>1
      <4>2. /\ owed'[u] = owed[u] \/ owed'[u] >= now
            /\ excuse'[u] = excuse[u] \/ excuse'[u] >= now
            /\ hindered' = hindered \/ hindered' >= now
        BY <2>1, <2>4 DEF Steady
      <4> QED BY <2>1, <4>1, <4>2
    <3> QED BY <2>1, <3>3, <3>4, WithinAnHour
  <2> QED BY <1>1, <2>2, <2>3, <2>4 DEF Framed
<1> QED BY <1>1 DEF ReclaimedInTime

(* What a step leaves alone is steady, or without bytes.                   *)
LEMMA Untouched ==
  ASSUME TypeOK, NEW u \in Uploads,
         u \in Live' => u \in Live, u \in Dead' => u \in Live \cup Dead,
         expires'[u] = expires[u], owed'[u] = owed[u] \/ owed'[u] >= now,
         excuse'[u] = excuse[u] \/ excuse'[u] = now, object'[u] \in {"none", object[u]}
  PROVE  Framed(u)
  BY DEF Framed, Steady, TypeOK

(* Every step but the clock's is framed.                                   *)
Timeless ==
  now' = now /\ (hindered' = hindered \/ hindered' = now) /\ \A u \in Uploads : Framed(u)

LEMMA FramedStep ==
  TypeOK /\ TypeOK' /\ Rooted /\ PutsFresh /\ LiveOwed /\ [Next]_vars => TimePasses \/ Timeless
<1> SUFFICES ASSUME TypeOK, TypeOK', Rooted, PutsFresh, LiveOwed, [Next]_vars
             PROVE  TimePasses \/ Timeless
  OBVIOUS
<1> USE DEF clock, rows, history, Timeless
<1>1. ASSUME NEW u \in Uploads, InitUpload(u) PROVE Timeless
  <2>1. expires'[u] >= now /\ owed'[u] >= now
    BY <1>1, UploadsAssumption DEF InitUpload, TypeOK, Times
  <2>2. \A v \in Uploads \ {u} : status'[v] = status[v] /\ expires'[v] = expires[v] /\ owed'[v] = owed[v]
    BY <1>1 DEF InitUpload, TypeOK
  <2>3. \A v \in Uploads \ {u} : Framed(v)
    BY <1>1, <2>2, Untouched DEF InitUpload, Live, Dead
  <2> QED BY <1>1, <2>1, <2>3 DEF InitUpload, Framed
<1>2. ASSUME NEW u \in Uploads, Truncate(u) \/ EndPut(u) PROVE Timeless
  <2>1. put[u] # "none" BY <1>2 DEF Truncate, EndPut
  <2>2. PICK bytes \in {"short", "good", "other"} : Stored(u, bytes) BY <1>2 DEF Truncate, EndPut
  <2>3. UNCHANGED <<now, hindered, rows>> BY <1>2 DEF Truncate, EndPut
  <2>4. now \in Nat /\ now <= expires[u] /\ (u \in Live => owed[u] = expires[u])
    BY <2>1 DEF PutsFresh, LiveOwed, TypeOK, Times
  <2>5. u \notin Live => excuse'[u] = now BY <2>2 DEF Stored, TypeOK
  <2>6. \A v \in Uploads \ {u} : object'[v] = object[v] /\ excuse'[v] = excuse[v]
    BY <2>2 DEF Stored, TypeOK
  <2>7. \A v \in Uploads \ {u} : Framed(v)
    BY <2>3, <2>6, Untouched DEF Live, Dead
  <2> QED BY <2>3, <2>4, <2>5, <2>7 DEF Framed
<1>3. ASSUME NEW u \in Uploads, BeginPut(u) \/ AbandonPut(u) PROVE Timeless
  BY <1>3, Untouched DEF BeginPut, AbandonPut, Live, Dead
<1>4. ASSUME NEW u \in Uploads, status[u] # "none", MarkDeleted(u),
             UNCHANGED <<now, hindered, object, excuse>>
      PROVE  Timeless
  <2>1. \A v \in Uploads \ {u} : Framed(v)
    BY <1>4, Deletion, Untouched DEF Live, Dead
  <2>2. u \in Live' => u \in Live BY <1>4, Deletion DEF Live
  <2>3. u \in Dead' => u \in Live \cup Dead
    BY <1>4, Deletion DEF Live, Dead, TypeOK, Statuses
  <2>4. expires'[u] = expires[u] /\ (owed'[u] = owed[u] \/ owed'[u] >= now)
    BY <1>4, Deletion
  <2>5. Framed(u) BY <1>4, <2>2, <2>3, <2>4, Untouched
  <2> QED BY <1>4, <2>1, <2>5
<1>5. ASSUME NEW u \in Uploads, Delete(u) PROVE Timeless
  BY <1>4, <1>5 DEF Delete
<1>6. ASSUME NEW c \in Callers, Refuse(c) PROVE Timeless
  <2>1. call[c].upload \in Uploads /\ status[call[c].upload] # "none"
    BY <1>6, CallFields DEF Refuse, At, Rooted
  <2> QED BY <1>4, <1>6, <2>1 DEF Refuse
<1>7. ASSUME NEW c \in Callers,
             \/ \E u \in Uploads : Complete(c, u)
             \/ Stat(c) \/ Sniff(c) \/ CompleteFails(c)
      PROVE  Timeless
  BY <1>7, Untouched DEF Complete, Stat, Sniff, CompleteFails, Live, Dead
<1>8. ASSUME NEW c \in Callers, Discard(c) PROVE Timeless
  <2>1. \A u \in Uploads : object'[u] \in {"none", object[u]} BY <1>8 DEF Discard, TypeOK
  <2> QED BY <1>8, <2>1, Untouched DEF Discard, Live, Dead
<1>9. ASSUME NEW c \in Callers, MarkReady(c) PROVE Timeless
  <2>1. \A u \in Uploads : status'[u] = status[u] \/ (status[u] = "pending" /\ status'[u] = "ready")
    BY <1>9 DEF MarkReady, Readied, TypeOK
  <2> QED BY <1>9, <2>1, Untouched DEF MarkReady, Live, Dead
<1>10. ASSUME NEW s \in Sweepers, ReapExpired(s) PROVE Timeless
  <2>1. \A u \in Uploads : \/ status'[u] = status[u]
                           \/ status[u] \in {"pending", "ready"} /\ status'[u] = "expired"
    BY <1>10 DEF ReapExpired, Oldest, Expired, Live
  <2>2. \A u \in Uploads : excuse'[u] = excuse[u] \/ excuse'[u] = now
    BY <1>10 DEF ReapExpired, Left
  <2> QED BY <1>10, <2>1, <2>2, Untouched DEF ReapExpired, Live, Dead
<1>11. ASSUME NEW s \in Sweepers, ListForDeletion(s) PROVE Timeless
  <2>1. \A u \in Uploads : excuse'[u] = excuse[u] \/ excuse'[u] = now
    BY <1>11 DEF ListForDeletion, Left
  <2> QED BY <1>11, <2>1, Untouched DEF ListForDeletion, Live, Dead
<1>12. ASSUME NEW s \in Sweepers, NEW u \in Uploads, Erase(s, u) PROVE Timeless
  <2>1. object'[u] = "none" BY <1>12 DEF Erase, TypeOK
  <2>2. \A v \in Uploads \ {u} : object'[v] = object[v] /\ excuse'[v] = excuse[v]
    BY <1>12 DEF Erase, TypeOK
  <2>3. \A v \in Uploads \ {u} : Framed(v) BY <1>12, <2>2, Untouched DEF Erase, Live, Dead
  <2> QED BY <1>12, <2>1, <2>3 DEF Erase, Framed
<1>13. ASSUME NEW s \in Sweepers, NEW u \in Uploads, EraseFails(s, u) PROVE Timeless
  <2>1. \A v \in Uploads : excuse'[v] = excuse[v] \/ excuse'[v] = now
    BY <1>13 DEF EraseFails, Left
  <2> QED BY <1>13, <2>1, Untouched DEF EraseFails, Live, Dead
<1>14. ASSUME NEW s \in Sweepers, HardDelete(s) PROVE Timeless
  <2>1. ASSUME NEW u \in Uploads PROVE Framed(u)
    <3>1. CASE u \in Old(sweep[s].at)
      <4>1. status'[u] = "gone" BY <1>14, <3>1 DEF HardDelete
      <4> QED BY <4>1 DEF Framed, Live, Dead
    <3>2. CASE u \notin Old(sweep[s].at)
      <4>1. status'[u] = status[u] /\ excuse'[u] = excuse[u] BY <1>14, <3>2 DEF HardDelete
      <4> QED BY <1>14, <4>1, Untouched DEF HardDelete, Live, Dead
    <3> QED BY <3>1, <3>2
  <2> QED BY <1>14, <2>1 DEF HardDelete
<1>15. ASSUME NEW s \in Sweepers, SweepFails(s) PROVE Timeless
  BY <1>15, Untouched DEF SweepFails, Live, Dead
<1>16. CASE Restart
  BY <1>16, Untouched DEF Restart, Live, Dead
<1>17. CASE UNCHANGED vars
  BY <1>17, Untouched DEF vars, Live, Dead
<1> QED BY <1>1, <1>2, <1>3, <1>5, <1>6, <1>7, <1>8, <1>9, <1>10, <1>11, <1>12,
           <1>13, <1>14, <1>15, <1>16, <1>17 DEF Next
-----------------------------------------------------------------------------
(* A sweep moves by its own steps, or ends with its process.               *)
Own(s) ==
  \/ ReapExpired(s) \/ ListForDeletion(s) \/ HardDelete(s) \/ SweepFails(s)
  \/ \E u \in Uploads : Erase(s, u) \/ EraseFails(s, u)

LEMMA OwnSteps ==
  ASSUME TypeOK, NEW t \in Sweepers, [Next]_vars
  PROVE  \/ Own(t) \/ Restart
         \/ sweep'[t] = sweep[t] /\ (t \in due => t \in due')
<1> USE DEF clock, rows, history
<1>1. ASSUME NEW u \in Uploads,
             InitUpload(u) \/ BeginPut(u) \/ Truncate(u) \/ EndPut(u) \/ AbandonPut(u) \/ Delete(u)
      PROVE  sweep' = sweep /\ due' = due
  BY <1>1 DEF InitUpload, BeginPut, Truncate, EndPut, AbandonPut, Delete
<1>2. ASSUME NEW c \in Callers,
             \/ \E u \in Uploads : Complete(c, u)
             \/ Stat(c) \/ Sniff(c) \/ Discard(c) \/ Refuse(c) \/ MarkReady(c) \/ CompleteFails(c)
      PROVE  sweep' = sweep /\ due' = due
  BY <1>2 DEF Complete, Stat, Sniff, Discard, Refuse, MarkReady, CompleteFails
<1>3. ASSUME NEW s \in Sweepers \ {t}, Own(s)
      PROVE  sweep'[t] = sweep[t] /\ (t \in due => t \in due')
  BY <1>3 DEF Own, ReapExpired, ListForDeletion, HardDelete, SweepFails, Erase, EraseFails, TypeOK
<1>4. CASE TimePasses
  BY <1>4 DEF TimePasses
<1>5. CASE UNCHANGED vars
  BY <1>5 DEF vars
<1> QED BY <1>1, <1>2, <1>3, <1>4, <1>5 DEF Next, Own

(* The steps of a sweep, each with what it leaves to be done.              *)
LEMMA Reaping ==
  ASSUME TypeOK, NEW s \in Sweepers, ReapExpired(s)
  PROVE  /\ sweep'[s].step = "list" /\ sweep'[s].at = now
         /\ \A u \in Live' : u \in Live /\ (expires[u] < now /\ object[u] # "none" => excuse'[u] = now)
         /\ UNCHANGED <<now, expires, owed, object, hindered>>
<1>1. PICK part \in Oldest(Expired(now)) :
        /\ status' = [u \in Uploads |-> IF u \in part THEN "expired" ELSE status[u]]
        /\ Left(Expired(now) \ part)
  BY DEF ReapExpired
<1>2. \A u \in Live' : u \in Live /\ u \notin part BY <1>1 DEF Live
<1>3. \A u \in Live' : expires[u] < now => u \in Expired(now) \ part BY <1>2 DEF Expired
<1>4. \A u \in Live' : expires[u] < now /\ object[u] # "none" => excuse'[u] = now
  BY <1>1, <1>2, <1>3 DEF Left, Live
<1> QED BY <1>2, <1>4 DEF ReapExpired, TypeOK, clock

LEMMA Listing ==
  ASSUME TypeOK, NEW s \in Sweepers, ListForDeletion(s)
  PROVE  /\ sweep[s].step = "list" /\ sweep[s] # Idle
         /\ sweep'[s].step = "erase" /\ sweep'[s].at = sweep[s].at
         /\ \A u \in Dead : u \notin sweep'[s].todo /\ object[u] # "none" => excuse'[u] = now
         /\ \A u \in Uploads : excuse'[u] = excuse[u] \/ excuse'[u] = now
         /\ UNCHANGED <<now, due, status, expires, owed, object, hindered>>
<1>1. PICK part \in SUBSET Uploads :
        /\ sweep' = [sweep EXCEPT ![s].step = "erase", ![s].todo = part]
        /\ Left(Dead \ part)
  BY DEF ListForDeletion, Oldest, Listed, Dead
<1>2. sweep[s].step = "list" /\ sweep[s] # Idle BY DEF ListForDeletion, Sweeping, Idle
<1>3. sweep[s] \in [step : {"list", "erase"}, at : Times, todo : SUBSET Uploads]
  BY <1>2 DEF TypeOK
<1>4. sweep'[s].step = "erase" /\ sweep'[s].at = sweep[s].at /\ sweep'[s].todo = part
  BY <1>1, <1>3 DEF TypeOK
<1>5. \A u \in Dead \ part : object[u] # "none" => excuse'[u] = now BY <1>1 DEF Left, Dead
<1>6. \A u \in Uploads : excuse'[u] = excuse[u] \/ excuse'[u] = now BY <1>1 DEF Left
<1> QED BY <1>2, <1>4, <1>5, <1>6 DEF ListForDeletion, clock, rows

LEMMA Erasing ==
  ASSUME TypeOK, NEW s \in Sweepers, NEW u \in Uploads, Erase(s, u) \/ EraseFails(s, u)
  PROVE  /\ sweep[s].step = "erase" /\ sweep[s] # Idle
         /\ sweep'[s].step = "erase" /\ sweep'[s].at = sweep[s].at
         /\ sweep'[s].todo = sweep[s].todo \ {u}
         /\ object'[u] = "none" \/ excuse'[u] = now
         /\ \A v \in Uploads \ {u} : object'[v] = object[v] /\ excuse'[v] = excuse[v]
         /\ UNCHANGED <<now, due, status, expires, owed, hindered>>
<1>1. sweep[s].step = "erase" /\ sweep[s] # Idle BY DEF Erase, EraseFails, Sweeping, Idle
<1>2. sweep[s] \in [step : {"list", "erase"}, at : Times, todo : SUBSET Uploads]
  BY <1>1 DEF TypeOK
<1>3. sweep' = [sweep EXCEPT ![s].todo = @ \ {u}] BY DEF Erase, EraseFails
<1>4. /\ sweep'[s].step = "erase" /\ sweep'[s].at = sweep[s].at
      /\ sweep'[s].todo = sweep[s].todo \ {u}
  BY <1>1, <1>2, <1>3 DEF TypeOK
<1>5. /\ object'[u] = "none" \/ excuse'[u] = now
      /\ \A v \in Uploads \ {u} : object'[v] = object[v] /\ excuse'[v] = excuse[v]
  <2>1. CASE Erase(s, u) BY <2>1 DEF Erase, TypeOK
  <2>2. CASE EraseFails(s, u) BY <2>2 DEF EraseFails, Left, TypeOK
  <2> QED BY <2>1, <2>2
<1> QED BY <1>1, <1>4, <1>5 DEF Erase, EraseFails, clock, rows
-----------------------------------------------------------------------------
(* A sweep's age is excused whatever steps it takes.                       *)
LEMMA VouchedStep ==
  ASSUME TypeOK, TypeOK', TimePasses \/ Timeless, [Next]_vars, NEW t \in Sweepers, Vouched(t)
  PROVE  Vouched(t)'
<1>0. now \in Nat /\ now' \in Nat /\ Keep \in Nat
  BY UploadsAssumption DEF TypeOK, Times
<1>1. CASE TimePasses
  <2>1. UNCHANGED <<rows, object, sweep, excuse>> /\ now' = now + 1 BY <1>1 DEF TimePasses
  <2>2. sweep[t] # Idle => sweep[t].at \in Nat BY DEF TypeOK, Times
  <2> QED BY <1>0, <2>1, <2>2 DEF Vouched, Kept, Live, Dead, rows
<1> SUFFICES ASSUME Timeless PROVE Vouched(t)' BY <1>1
<1> USE DEF Timeless
<1>2. CASE sweep'[t] = sweep[t]
  BY <1>2, VouchedFrame
<1>3. CASE sweep'[t] = Idle
  BY <1>3 DEF Vouched
<1>4. CASE ReapExpired(t)
  <2>1. sweep'[t].at = now /\ sweep'[t].step = "list" BY <1>4, Reaping
  <2>2. ASSUME NEW u \in Live', expires'[u] + Keep < now, object'[u] # "none"
        PROVE  excuse'[u] > expires'[u] + Keep
    <3>1. expires'[u] \in Nat /\ expires'[u] = expires[u] /\ object'[u] = object[u]
      BY <1>4, <2>2, Reaping DEF TypeOK, Times, Live
    <3>2. excuse'[u] = now BY <1>0, <1>4, <2>2, <3>1, Reaping
    <3> QED BY <1>0, <2>2, <3>1, <3>2
  <2> QED BY <1>0, <2>1, <2>2 DEF Vouched, Kept, Live
<1>5. CASE ListForDeletion(t)
  <2>1. sweep'[t].at = sweep[t].at /\ sweep[t].at <= now /\ sweep[t].at \in Nat
    BY <1>5, Listing DEF Vouched, TypeOK, Times
  <2>2. ASSUME NEW u \in Kept(t)', expires'[u] + Keep < sweep[t].at, object'[u] # "none"
        PROVE  excuse'[u] > expires'[u] + Keep
    <3>1. /\ u \in Uploads /\ expires'[u] \in Nat /\ expires'[u] = expires[u]
          /\ object'[u] = object[u]
      BY <1>5, <2>2, Listing DEF Kept, TypeOK, Times
    <3>2. u \in Live \/ (u \in Dead /\ u \notin sweep'[t].todo)
      BY <1>5, <2>2, Listing DEF Kept, Live, Dead
    <3>3. CASE u \in Live
      <4>1. excuse[u] > expires[u] + Keep
        BY <1>5, <2>2, <3>1, <3>3, Listing DEF Vouched, Kept
      <4> QED BY <1>0, <1>5, <2>1, <2>2, <3>1, <4>1, Listing
    <3>4. CASE u \in Dead /\ u \notin sweep'[t].todo
      <4>1. excuse'[u] = now BY <1>5, <2>2, <3>1, <3>4, Listing
      <4> QED BY <1>0, <2>1, <2>2, <3>1, <4>1
    <3> QED BY <3>2, <3>3, <3>4
  <2> QED BY <1>5, <2>1, <2>2, Listing DEF Vouched
<1>6. ASSUME NEW v \in Uploads, Erase(t, v) \/ EraseFails(t, v) PROVE Vouched(t)'
  <2>1. sweep'[t].at = sweep[t].at /\ sweep[t].at <= now /\ sweep[t].at \in Nat
    BY <1>6, Erasing DEF Vouched, TypeOK, Times
  <2>2. ASSUME NEW u \in Kept(t)', expires'[u] + Keep < sweep[t].at, object'[u] # "none"
        PROVE  excuse'[u] > expires'[u] + Keep
    <3>1. u \in Uploads /\ expires'[u] \in Nat /\ expires'[u] = expires[u]
      BY <1>6, <2>2, Erasing DEF Kept, TypeOK, Times
    <3>2. CASE u = v
      <4>1. excuse'[u] = now BY <1>6, <2>2, <3>2, Erasing
      <4> QED BY <1>0, <2>1, <2>2, <3>1, <4>1
    <3>3. CASE u # v
      <4>1. u \in Kept(t) BY <1>6, <2>2, <3>1, <3>3, Erasing DEF Kept, Live, Dead
      <4>2. object'[u] = object[u] /\ excuse'[u] = excuse[u] BY <1>6, <3>1, <3>3, Erasing
      <4> QED BY <1>6, <2>2, <3>1, <4>1, <4>2, Erasing DEF Vouched
    <3> QED BY <3>2, <3>3
  <2> QED BY <1>6, <2>1, <2>2, Erasing DEF Vouched
<1>7. HardDelete(t) \/ SweepFails(t) \/ Restart => sweep'[t] = Idle
  BY DEF HardDelete, SweepFails, Restart, TypeOK
<1> QED BY <1>2, <1>3, <1>4, <1>5, <1>6, <1>7, OwnSteps DEF Own

(* A row that is hard-deleted with bytes has an excuse.                    *)
LEMMA OrphanStep ==
  ASSUME TypeOK, Rooted, \A s \in Sweepers : Vouched(s), [Next]_vars, NEW u \in Uploads,
         status[u] # "gone", status'[u] = "gone", object[u] # "none"
  PROVE  excuse[u] > expires[u] + Keep
<1> USE DEF clock, rows, history
<1>1. ASSUME NEW s \in Sweepers, HardDelete(s) PROVE excuse[u] > expires[u] + Keep
  <2>1. u \in Old(sweep[s].at) BY <1>1 DEF HardDelete
  <2>2. u \in Dead /\ expires[u] + Keep < sweep[s].at BY <2>1 DEF Old
  <2>3. sweep[s] # Idle /\ u \in Kept(s)
    BY <1>1, <2>2 DEF HardDelete, Sweeping, Cleaned, Kept, Idle
  <2> QED BY <2>2, <2>3 DEF Vouched
<1>2. ASSUME NEW v \in Uploads,
             \/ InitUpload(v) \/ BeginPut(v) \/ Truncate(v) \/ EndPut(v) \/ AbandonPut(v)
             \/ Delete(v)
      PROVE  FALSE
  BY <1>2 DEF InitUpload, BeginPut, Truncate, EndPut, AbandonPut, Delete, MarkDeleted, TypeOK
<1>3. ASSUME NEW c \in Callers,
             \/ \E v \in Uploads : Complete(c, v)
             \/ Stat(c) \/ Sniff(c) \/ Discard(c) \/ Refuse(c) \/ MarkReady(c) \/ CompleteFails(c)
      PROVE  FALSE
  BY <1>3 DEF Complete, Stat, Sniff, Discard, Refuse, MarkDeleted, MarkReady, Readied,
              CompleteFails, TypeOK
<1>4. ASSUME NEW s \in Sweepers,
             \/ ReapExpired(s) \/ ListForDeletion(s) \/ SweepFails(s)
             \/ \E v \in Uploads : Erase(s, v) \/ EraseFails(s, v)
      PROVE  FALSE
  BY <1>4 DEF ReapExpired, ListForDeletion, SweepFails, Erase, EraseFails
<1>5. CASE TimePasses \/ Restart
  BY <1>5 DEF TimePasses, Restart
<1>6. CASE UNCHANGED vars
  BY <1>6 DEF vars
<1> QED BY <1>1, <1>2, <1>3, <1>4, <1>5, <1>6 DEF Next
-----------------------------------------------------------------------------
(* What the hour's sweep passed over stays excused within the hour.        *)
LEMMA ServedStep ==
  ASSUME TypeOK, TypeOK', LiveOwed, TimePasses \/ Timeless, [Next]_vars,
         NEW t \in Sweepers, Served(t)
  PROVE  Served(t)'
<1>0. now \in Nat BY DEF TypeOK, Times
<1>1. TimePasses \/ Restart => t \in due'
  BY DEF TimePasses, Restart
<1> SUFFICES ASSUME t \notin due' PROVE Served(t)'
  BY DEF Served
<1>2. Timeless /\ (Own(t) \/ (sweep'[t] = sweep[t] /\ (t \in due => t \in due')))
  BY <1>1, OwnSteps
<1> USE <1>2 DEF Timeless
<1>3. CASE sweep'[t] = sweep[t] /\ (t \in due => t \in due')
  BY <1>3, ServedFrame
<1>4. CASE ReapExpired(t)
  <2>1. sweep'[t].at = now /\ sweep'[t].step = "list" /\ sweep'[t] # Idle
    BY <1>4, Reaping DEF Idle
  <2>2. ASSUME NEW u \in Live', object'[u] # "none" PROVE Excused(u)'
    <3>1. expires[u] \in Nat /\ object'[u] = object[u] /\ owed'[u] = owed[u] /\ u \in Live
      BY <1>4, <2>2, Reaping DEF TypeOK, Times, Live
    <3>2. CASE expires[u] < now
      BY <1>0, <1>4, <2>2, <3>1, <3>2, Reaping DEF Excused
    <3>3. CASE ~(expires[u] < now)
      BY <1>0, <3>1, <3>3 DEF LiveOwed, Excused
    <3> QED BY <3>2, <3>3
  <2>3. Passed(t)' \subseteq Live' BY <2>1 DEF Passed, Kept
  <2> QED BY <2>1, <2>2, <2>3 DEF Served
<1>5. CASE ListForDeletion(t)
  <2>1. t \notin due /\ sweep[t] # Idle BY <1>5, Listing
  <2>2. ASSUME NEW u \in Passed(t)', object'[u] # "none" PROVE Excused(u)'
    <3>1. u \in Live \/ (u \in Dead /\ u \notin sweep'[t].todo)
      BY <1>5, <2>2, Listing DEF Passed, Kept, Live, Dead, Idle
    <3>2. CASE u \in Live
      <4>1. Excused(u) BY <1>5, <2>1, <2>2, <3>2, Listing DEF Served, Passed, Kept, Live
      <4>2. owed'[u] = owed[u] /\ hindered' = hindered /\ excuse'[u] \in {excuse[u], now}
        BY <1>5, <3>2, Listing DEF Live
      <4> QED BY <1>0, <4>1, <4>2 DEF Excused
    <3>3. CASE u \in Dead /\ u \notin sweep'[t].todo
      BY <1>0, <1>5, <2>2, <3>3, Listing DEF Excused
    <3> QED BY <3>1, <3>2, <3>3
  <2> QED BY <1>5, <2>1, <2>2, Listing DEF Served
<1>6. ASSUME NEW v \in Uploads, Erase(t, v) \/ EraseFails(t, v) PROVE Served(t)'
  <2>1. t \notin due /\ sweep[t] # Idle /\ sweep'[t] # Idle BY <1>6, Erasing DEF Idle
  <2>2. ASSUME NEW u \in Passed(t)', object'[u] # "none" PROVE Excused(u)'
    <3>1. u \in Uploads BY <2>2 DEF Passed, Kept, Live, Dead
    <3>2. CASE u = v
      BY <1>0, <1>6, <2>2, <3>2, Erasing DEF Excused
    <3>3. CASE u # v
      <4>1. u \in Passed(t)
        BY <1>6, <2>1, <2>2, <3>1, <3>3, Erasing DEF Passed, Kept, Live, Dead
      <4>2. object'[u] = object[u] /\ excuse'[u] = excuse[u] BY <1>6, <3>1, <3>3, Erasing
      <4>3. Excused(u) BY <2>1, <2>2, <4>1, <4>2 DEF Served
      <4> QED BY <1>6, <4>2, <4>3, Erasing DEF Excused
    <3> QED BY <3>2, <3>3
  <2> QED BY <1>6, <2>1, <2>2, Erasing DEF Served
<1>7. CASE HardDelete(t)
  <2>1. sweep[t] # Idle /\ sweep[t].step = "erase" /\ sweep[t].todo = {} /\ sweep'[t] = Idle
    BY <1>7 DEF HardDelete, Sweeping, Cleaned, Idle, TypeOK
  <2>2. ASSUME NEW u \in Passed(t)', object'[u] # "none" PROVE Excused(u)'
    <3>1. u \in Live' \cup Dead' /\ u \in Uploads BY <2>1, <2>2 DEF Passed, Live, Dead
    <3>2. u \notin Old(sweep[t].at) BY <1>7, <3>1 DEF HardDelete, Live, Dead
    <3>3. status'[u] = status[u] /\ excuse'[u] = excuse[u] BY <1>7, <3>1, <3>2 DEF HardDelete
    <3>4. u \in Passed(t) BY <2>1, <3>1, <3>3 DEF Passed, Kept, Live, Dead
    <3>5. Excused(u) /\ t \notin due' BY <1>7, <2>1, <2>2, <3>4 DEF HardDelete, Served
    <3> QED BY <1>7, <3>3, <3>5 DEF HardDelete, Excused, rows, clock
  <2> QED BY <2>1, <2>2 DEF Served
<1>8. CASE SweepFails(t)
  <2>1. sweep'[t] = Idle /\ hindered' = now BY <1>8 DEF SweepFails, TypeOK
  <2> QED BY <1>0, <2>1 DEF Served, Excused
<1> QED BY <1>3, <1>4, <1>5, <1>6, <1>7, <1>8, <1>2 DEF Own

(* No bytes are left for more than an hour without an excuse.              *)
LEMMA ReclaimedStep ==
  ASSUME TypeOK, TypeOK', Rooted, Rooted', \A s \in Sweepers : Served(s), ReclaimedInTime,
         TimePasses \/ Timeless
  PROVE  ReclaimedInTime'
<1>1. CASE Timeless
  BY <1>1, ReclaimedFrame DEF Timeless
<1>2. CASE TimePasses
  <2>1. ASSUME NEW u \in Uploads, object'[u] # "none", status'[u] # "gone"
        PROVE  now' <= 1 + Longest(Longest(owed'[u], excuse'[u]), hindered')
    <3>1. /\ now \in Nat /\ now' = now + 1 /\ owed[u] \in Nat /\ excuse[u] \in Nat
          /\ hindered \in Nat /\ hindered' \in Nat
      BY <1>2 DEF TimePasses, TypeOK, Times
    <3>2. UNCHANGED <<status, owed, excuse, object>> BY <1>2 DEF TimePasses, rows
    <3>3. CASE Busy
      <4>1. hindered' = now' BY <1>2, <3>3 DEF TimePasses
      <4> QED BY <3>1, <3>2, <4>1, WithinAnHour
    <3>4. CASE ~Busy
      <4>1. PICK s \in Sweepers : s \notin due /\ sweep[s] = Idle
        BY <3>4, UploadsAssumption DEF Busy
      <4>2. u \in Live \cup Dead
        BY <2>1, <3>2 DEF Rooted, TypeOK, Statuses, Live, Dead
      <4>3. Excused(u) BY <2>1, <3>2, <4>1, <4>2 DEF Served, Passed
      <4>4. hindered' = hindered BY <1>2, <3>4 DEF TimePasses
      <4> QED BY <3>1, <3>2, <4>3, <4>4, WithinAnHour DEF Excused
    <3> QED BY <3>3, <3>4
  <2> QED BY <2>1 DEF ReclaimedInTime
<1> QED BY <1>1, <1>2
-----------------------------------------------------------------------------
LEMMA InitIInv == Init => IInv
<1> SUFFICES ASSUME Init PROVE IInv OBVIOUS
<1>1. TypeOK
  BY UploadsAssumption DEF Init, TypeOK, Idle, Times, Statuses
<1>2. Rooted /\ Doomed /\ Seen /\ ReadyAlone /\ PutsFresh /\ LiveOwed /\ ReclaimedInTime
  BY DEF Init, Rooted, Doomed, Seen, ReadyAlone, PutsFresh, LiveOwed, Live, ReclaimedInTime, Idle
<1>3. \A s \in Sweepers : Vouched(s) /\ Served(s)
  BY DEF Init, Vouched, Served
<1> QED BY <1>1, <1>2, <1>3 DEF IInv

LEMMA StepIInv == IInv /\ [Next]_vars => IInv'
<1> SUFFICES ASSUME IInv, [Next]_vars PROVE IInv' OBVIOUS
<1> USE DEF IInv
<1>1. TypeOK' BY TypeStep
<1>2. Rooted' /\ Doomed' /\ Seen' /\ ReadyAlone'
  BY RootedStep, DoomedStep, SeenStep, ReadyStep
<1>3. PutsFresh' /\ LiveOwed' BY FreshStep, OwedStep
<1>4. TimePasses \/ Timeless BY <1>1, FramedStep
<1>5. \A s \in Sweepers : Vouched(s)' BY <1>1, <1>4, VouchedStep
<1>6. \A s \in Sweepers : Served(s)' BY <1>1, <1>4, ServedStep
<1>7. ReclaimedInTime' BY <1>1, <1>2, <1>4, ReclaimedStep
<1> QED BY <1>1, <1>2, <1>3, <1>5, <1>6, <1>7

(* Every variable keeps its type, in every behaviour.                      *)
THEOREM UploadTypes == Spec => []TypeOK
<1>1. IInv => TypeOK BY DEF IInv
<1> QED BY <1>1, InitIInv, StepIInv, PTL DEF Spec

(* A file that is ready is there, whole and as it was checked, whatever    *)
(* completes, transfers, deletions, sweeps and restarts overlap, unless    *)
(* bytes were on their way while /complete looked or reached S3 later.     *)
THEOREM UploadsChecked == Spec => []ReadyIsChecked
<1>1. IInv => ReadyIsChecked BY DEF IInv, ReadyAlone, ReadyIsChecked
<1> QED BY <1>1, InitIInv, StepIInv, PTL DEF Spec

(* While there is a row, no bytes outlive their time by more than an hour, *)
(* unless storage refused, they came late, older files were in the way or  *)
(* sweeps did not run.                                                     *)
THEOREM UploadsReclaimed == Spec => []ReclaimedInTime
<1>1. IInv => ReclaimedInTime BY DEF IInv
<1> QED BY <1>1, InitIInv, StepIInv, PTL DEF Spec

(* No row is deleted before its bytes, however many processes sweep and    *)
(* wherever they fail, unless the last sweeps were refused or crowded out. *)
THEOREM UploadsNotOrphaned == Spec => NoOrphan
<1>1. IInv /\ [Next]_vars =>
        [\A u \in Uploads :
           status[u] # "gone" /\ status'[u] = "gone" /\ object[u] # "none" =>
             excuse[u] > expires[u] + Keep]_vars
  BY OrphanStep DEF IInv
<1> QED BY <1>1, InitIInv, StepIInv, PTL DEF Spec, NoOrphan
=============================================================================
