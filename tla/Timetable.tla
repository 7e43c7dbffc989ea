------------------------------ MODULE Timetable ------------------------------
(***************************************************************************)
(* What a schedule promises: its slots are started as they come, in order  *)
(* and without a gap, each of them once.  Only two things change that: a   *)
(* schedule that is set anew counts from there, and a slot whose start was *)
(* deleted, or never recorded, may be started again, once each time.       *)
(***************************************************************************)
EXTENDS Naturals

CONSTANTS
  Agents,
  Times,
  Slots,  \* Slots[a]: the times at which a's schedule has a slot
  Cap     \* how far starts are counted

VARIABLES
  now,
  from,    \* when each schedule was set
  starts,  \* how often each slot was started
  gone     \* the slots whose start is forgotten, until they are started again

vars == <<now, from, starts, gone>>

Init ==
  /\ now = 0
  /\ from = [a \in Agents |-> 0]
  /\ starts = [a \in Agents |-> [s \in Times |-> 0]]
  /\ gone = [a \in Agents |-> {}]

Pass ==
  /\ now' = now + 1
  /\ UNCHANGED <<from, starts, gone>>

Start(a, s) ==
  /\ s \in Slots[a] /\ s <= now
  /\ \A t \in Times : starts[a][t] > 0 => t < s
  /\ \A t \in Slots[a] : from[a] < t /\ t < s => starts[a][t] > 0
  /\ starts' = [starts EXCEPT ![a][s] = 1]
  /\ UNCHANGED <<now, from, gone>>

Again(a, s) ==
  /\ s \in gone[a]
  /\ starts' = [starts EXCEPT ![a][s] = IF @ < Cap THEN @ + 1 ELSE @]
  /\ gone' = [gone EXCEPT ![a] = @ \ {s}]
  /\ UNCHANGED <<now, from>>

Forget(a, s) ==
  /\ starts[a][s] > 0
  /\ gone' = [gone EXCEPT ![a] = @ \cup {s}]
  /\ UNCHANGED <<now, from, starts>>

Restate(a) ==
  /\ from' = [from EXCEPT ![a] = now]
  /\ UNCHANGED <<now, starts, gone>>

Next ==
  \/ Pass
  \/ \E a \in Agents :
       Restate(a) \/ \E s \in Times : Start(a, s) \/ Again(a, s) \/ Forget(a, s)

Spec == Init /\ [][Next]_vars
=============================================================================
