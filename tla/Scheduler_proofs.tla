--------------------------- MODULE Scheduler_proofs ---------------------------
(***************************************************************************)
(* What holds of the scheduler for every set of agents, replicas, faults   *)
(* and schedules, proved from SchedulerAssumption.                         *)
(*                                                                         *)
(* No replica holds a lock, so the invariant is about what each of them    *)
(* has read: every slot up to the tick in its snapshot has started         *)
(* something (Caught), and so has every slot before the one it is serving. *)
(***************************************************************************)
EXTENDS Scheduler, FiniteSetTheorems, WellFoundedInduction, TLAPS

(* Every slot of a up to x that the current schedule covers was served.    *)
Caught(a, x) ==
  \A s \in Times : IsSlot(a, s) /\ since[a] < s /\ s <= x => fired[a][s] > 0

(* What a replica knows of the orchestrators while it scans, and of the    *)
(* one it is serving.                                                      *)
Serving == {"find", "inject", "create", "record"}
Knows(r) ==
  LET h == hand[r] IN
    /\ h.step # "idle" => \A a \in Orchestrators : Caught(a, h.ticks[a])
    /\ h.step \in Serving /\ h.a \in Orchestrators =>
         /\ \A s \in Times : IsSlot(h.a, s) /\ since[h.a] < s /\ s < h.slot => fired[h.a][s] > 0
         /\ h.step = "record" => fired[h.a][h.slot] > 0
HandsKnow == \A r \in Replicas : Knows(r)

(* A schedule is never edited in the future.                               *)
EditsPast == \A a \in Agents : since[a] <= now

SInv == TypeOK /\ EditsPast /\ NoSlotSkipped /\ HandsKnow
-----------------------------------------------------------------------------
(* What is recorded of an agent is recorded of it only.                    *)
LEMMA StampWrites ==
  ASSUME TypeOK, NEW b, NEW t, Stamp(b, t)
  PROVE  \A a \in Orchestrators : tick'[a] = IF a = b THEN t ELSE tick[a]
BY DEF Stamp, IsOrchestrator, TypeOK

(* What a replica holds has the fields its step needs.                     *)
LEMMA HandFields ==
  ASSUME TypeOK, NEW r \in Replicas
  PROVE  /\ hand[r].step \in {"idle", "scan", "find", "inject", "create", "record"}
         /\ hand[r].step = "idle" => hand[r] = Idle
         /\ hand[r].step # "idle" =>
              /\ hand[r].todo \subseteq Agents /\ hand[r].at \in Times
              /\ hand[r].ticks \in [Orchestrators -> Times]
         /\ hand[r].step \in {"find", "inject", "create", "record"} =>
              hand[r].a \in Agents /\ hand[r].slot \in Times
<1>1. hand[r] \in Hands
  BY DEF TypeOK
<1>2. CASE hand[r] = Idle
  BY <1>2 DEF Idle
<1>3. CASE hand[r] \in [step : {"scan"}, todo : SUBSET Agents, at : Times, ticks : [Orchestrators -> Times]]
  BY <1>3
<1>4. CASE hand[r] \in [step : {"find", "inject", "create", "record"}, a : Agents, slot : Times,
                        todo : SUBSET Agents, at : Times, ticks : [Orchestrators -> Times]]
  BY <1>4
<1> QED BY <1>1, <1>2, <1>3, <1>4 DEF Hands

(* An agent whose last run cannot be read is left out of the tick.         *)
LEMMA ScanGoesOn ==
  ASSUME TypeOK, NEW r \in Replicas, NEW a \in Agents, ConsiderFails(r, a)
  PROVE  /\ hand[r].step = "scan"
         /\ hand'[r] = Scan(hand[r].todo \ {a}, hand[r].at, hand[r].ticks)
         /\ hand'[r].step = "scan" /\ hand'[r].todo = hand[r].todo \ {a}
         /\ hand'[r].at = hand[r].at /\ hand'[r].ticks = hand[r].ticks
         /\ \A q \in Replicas : q # r => hand'[q] = hand[q]
         /\ UNCHANGED <<now, tick, since, runs, live, fired, burst, unrecorded>>
<1>1. hand[r] \in [step : {"scan"}, todo : SUBSET Agents, at : Times, ticks : [Orchestrators -> Times]]
  <2>1. hand[r].step = "scan" BY DEF ConsiderFails
  <2>2. hand[r] \in Hands BY DEF TypeOK
  <2> QED BY <2>1, <2>2 DEF Hands, Idle
<1>2. hand'[r] = [hand[r] EXCEPT !.todo = @ \ {a}] BY DEF ConsiderFails, TypeOK
<1>3. hand'[r] = Scan(hand[r].todo \ {a}, hand[r].at, hand[r].ticks) BY <1>1, <1>2 DEF Scan
<1>4. /\ hand'[r].step = "scan" /\ hand'[r].todo = hand[r].todo \ {a}
      /\ hand'[r].at = hand[r].at /\ hand'[r].ticks = hand[r].ticks
  BY <1>3 DEF Scan
<1> QED BY <1>3, <1>4 DEF ConsiderFails, TypeOK

(* The last run of an agent is one of its runs, or its creation.           *)
LEMMA LastRunIsTime ==
  ASSUME TypeOK, NEW a \in Agents
  PROVE  LastRun(a) \in Times /\ LastRun(a) \in runs[a] \cup {0}
<1> DEFINE R == OpToRel(<, Nat)
           T == {Horizon - t : t \in runs[a] \cup {0}}
<1>1. runs[a] \cup {0} \subseteq Times /\ Horizon \in Nat
  BY SchedulerAssumption DEF TypeOK, Times
<1>2. T \subseteq Nat /\ T # {}
  BY <1>1 DEF Times
<1>3. PICK x \in T : \A y \in T : ~(<<y, x>> \in R)
  BY <1>2, WFMin, NatLessThanWellFounded
<1>4. ASSUME NEW y \in T PROVE x <= y
  <2>1. x \in Nat /\ y \in Nat
    BY <1>2
  <2>2. y < x => <<y, x>> \in R
    BY <2>1 DEF OpToRel
  <2>3. ~(y < x)
    BY <1>3, <2>2
  <2> QED BY <2>1, <2>3
<1>5. PICK t \in runs[a] \cup {0} : x = Horizon - t
  BY <1>3
<1>6. \A u \in runs[a] \cup {0} : u <= t
  BY <1>1, <1>4, <1>5 DEF Times
<1> QED BY <1>1, <1>5, <1>6 DEF LastRun

(* What Consider leaves in a hand is well typed.                           *)
LEMMA ConsiderTypes ==
  ASSUME TypeOK, NEW r \in Replicas, NEW a \in Agents, Consider(r, a)
  PROVE  hand' \in [Replicas -> Hands]
<1> DEFINE h   == hand[r]
           due == NextDue[a][Anchor(a, h.ticks[a])]
<1>1. h.todo \subseteq Agents /\ h.at \in Times /\ h.ticks \in [Orchestrators -> Times]
  BY HandFields DEF Consider
<1>2. due \in Nat
  BY <1>1, LastRunIsTime, SchedulerAssumption DEF Anchor, IsOrchestrator
<1>3. due <= h.at => due \in Times
  BY <1>1, <1>2, SchedulerAssumption DEF Times
<1>4. Scan(h.todo \ {a}, h.at, h.ticks) \in Hands
  BY <1>1 DEF Scan, Hands
<1>5. \A slot \in Times, step \in {"find", "create", "record"} : On(h, step, a, slot) \in Hands
  BY <1>1 DEF On, Hands
<1>6. due <= h.at \/ due > h.at
  BY <1>1, <1>2, SchedulerAssumption DEF Times
<1> QED BY <1>1, <1>3, <1>4, <1>5, <1>6 DEF Consider, TypeOK

(* Every step keeps the types.                                             *)
LEMMA TypeStep == TypeOK /\ [Next]_vars => TypeOK'
<1> SUFFICES ASSUME TypeOK, [Next]_vars PROVE TypeOK' OBVIOUS
<1> USE SchedulerAssumption DEF Times
<1>1. \A n \in 0 .. MaxFired : Capped(n) \in 0 .. MaxFired
  BY DEF Capped
<1>2. ASSUME NEW r \in Replicas, StartTick(r) PROVE TypeOK'
  <2>1. Scan(Agents, now, tick) \in Hands
    BY DEF Scan, Hands, TypeOK
  <2> QED BY <1>2, <2>1 DEF StartTick, TypeOK
<1>3. ASSUME NEW r \in Replicas, NEW a \in Agents, Consider(r, a) PROVE TypeOK'
  BY <1>3, ConsiderTypes DEF Consider, TypeOK
<1>f. ASSUME NEW r \in Replicas, NEW a \in Agents, ConsiderFails(r, a) PROVE TypeOK'
  <2>1. hand[r].todo \subseteq Agents /\ hand[r].at \in Times /\ hand[r].ticks \in [Orchestrators -> Times]
    BY <1>f, HandFields DEF ConsiderFails
  <2>2. hand'[r] \in Hands
    <3>1. hand'[r] = Scan(hand[r].todo \ {a}, hand[r].at, hand[r].ticks) BY <1>f, ScanGoesOn
    <3>2. Scan(hand[r].todo \ {a}, hand[r].at, hand[r].ticks) \in Hands
      <4>1. hand[r].todo \ {a} \in SUBSET Agents BY <2>1
      <4> HIDE DEF Times
      <4> QED BY <2>1, <4>1 DEF Scan, Hands
    <3> QED BY <3>1, <3>2
  <2>3. hand' \in [Replicas -> Hands]
    BY <1>f, <2>2 DEF ConsiderFails, TypeOK
  <2> QED BY <1>f, <2>3 DEF ConsiderFails, TypeOK
<1>4. ASSUME NEW r \in Replicas, hand[r].step \in Serving
      PROVE  /\ BackToScan(hand[r]) \in Hands
             /\ \A step \in Serving : [hand[r] EXCEPT !.step = step] \in Hands
  <2>1. hand[r] \in [step : Serving, a : Agents, slot : Times,
                     todo : SUBSET Agents, at : Times, ticks : [Orchestrators -> Times]]
    <3> HIDE DEF Times
    <3>1. hand[r] \in Hands BY DEF TypeOK
    <3> QED BY <1>4, <3>1 DEF Hands, Idle, Serving
  <2> QED BY <2>1 DEF BackToScan, Scan, Hands, Serving
<1>u. ASSUME NEW r \in Replicas, Unrecord(hand[r])
      PROVE  unrecorded' \in [Orchestrators -> SUBSET Times]
  <2> HIDE DEF Times
  <2>1. hand[r].step = "record" => hand[r].slot \in Times BY HandFields
  <2>2. unrecorded \in [Orchestrators -> SUBSET Times] BY DEF TypeOK
  <2> QED BY <1>u, <2>1, <2>2 DEF Unrecord
<1>5. ASSUME NEW r \in Replicas, FindLive(r) \/ FindFails(r) \/ InjectFails(r) PROVE TypeOK'
  <2>1. hand[r].step \in Serving
    BY <1>5 DEF FindLive, FindFails, InjectFails, Serving
  <2>2. \E h \in Hands : hand' = [hand EXCEPT ![r] = h]
    <3>1. CASE FindLive(r)
      <4>1. \A step \in {"inject", "create"} : [hand[r] EXCEPT !.step = step] \in Hands
        BY <1>4, <2>1 DEF Serving
      <4> QED BY <3>1, <4>1 DEF FindLive
    <3>2. CASE FindFails(r) \/ InjectFails(r)
      BY <1>4, <2>1, <3>2 DEF FindFails, InjectFails
    <3> QED BY <1>5, <3>1, <3>2
  <2>3. hand' \in [Replicas -> Hands]
    BY <2>2 DEF TypeOK
  <2> QED BY <1>5, <2>3 DEF FindLive, FindFails, InjectFails, TypeOK
<1>6. ASSUME NEW r \in Replicas, hand[r].step \in Serving, Fire(hand[r].a, hand[r].slot)
      PROVE  /\ fired' \in [Agents -> [Times -> 0 .. MaxFired]]
             /\ burst' \in [Workers -> Nat]
             /\ unrecorded' \in [Orchestrators -> SUBSET Times]
  <2>1. hand[r].a \in Agents /\ hand[r].slot \in Times
    BY <1>6, HandFields DEF Serving
  <2> HIDE DEF Times
  <2>2. fired \in [Agents -> [Times -> 0 .. MaxFired]] /\ burst \in [Workers -> Nat]
    BY DEF TypeOK
  <2>3. [fired[hand[r].a] EXCEPT ![hand[r].slot] = Capped(@)] \in [Times -> 0 .. MaxFired]
    BY <1>1, <2>1, <2>2
  <2>4. fired' \in [Agents -> [Times -> 0 .. MaxFired]]
    BY <1>6, <2>1, <2>2, <2>3 DEF Fire
  <2>5. burst' \in [Workers -> Nat]
    BY <1>1, <1>6, <2>1, <2>2 DEF Fire
  <2>6. unrecorded' \in [Orchestrators -> SUBSET Times]
    BY <1>6 DEF Fire, TypeOK
  <2> QED BY <2>4, <2>5, <2>6
<1>7. ASSUME NEW r \in Replicas, Inject(r) PROVE TypeOK'
  BY <1>4, <1>6, <1>7 DEF Inject, TypeOK, Serving
<1>8. ASSUME NEW r \in Replicas, Create(r) PROVE TypeOK'
  <2>1. hand[r].a \in Agents /\ hand[r].slot \in Times
    BY <1>8, HandFields DEF Create
  <2>2. hand' \in [Replicas -> Hands]
    <3>1. hand[r].step \in Serving BY <1>8 DEF Create, Serving
    <3>2. \E h \in Hands : hand' = [hand EXCEPT ![r] = h]
      BY <1>4, <1>8, <3>1 DEF Create, Serving
    <3> QED BY <3>2 DEF TypeOK
  <2>3. /\ fired' \in [Agents -> [Times -> 0 .. MaxFired]] /\ burst' \in [Workers -> Nat]
        /\ unrecorded' \in [Orchestrators -> SUBSET Times]
    BY <1>6, <1>8 DEF Create, TypeOK, Serving
  <2>4. runs' = runs \/ runs' = [runs EXCEPT ![hand[r].a] = @ \cup {hand[r].slot}]
    BY <1>8 DEF Create
  <2>5. runs' \in [Agents -> SUBSET Times]
    <3> HIDE DEF Times
    <3>1. runs \in [Agents -> SUBSET Times]
      BY DEF TypeOK
    <3>2. runs[hand[r].a] \cup {hand[r].slot} \in SUBSET Times
      BY <2>1, <3>1
    <3> QED BY <2>4, <3>1, <3>2
  <2>6. IsOrchestrator(hand[r].a) \in BOOLEAN
    BY DEF IsOrchestrator
  <2>7. live' = live \/ live' = [live EXCEPT ![hand[r].a] = IsOrchestrator(hand[r].a)]
    BY <1>8 DEF Create
  <2>8. live' \in [Agents -> BOOLEAN]
    BY <2>6, <2>7 DEF TypeOK
  <2> QED BY <1>8, <2>2, <2>3, <2>5, <2>8 DEF Create, TypeOK
<1>9. ASSUME NEW r \in Replicas, Record(r) PROVE TypeOK'
  <2>1. hand[r].a \in Agents /\ hand[r].slot \in Times
    BY <1>9, HandFields DEF Record
  <2> QED BY <1>4, <1>9, <2>1 DEF Record, Recorded, Stamp, IsOrchestrator, TypeOK, Serving
<1>r. ASSUME NEW r \in Replicas, RecordFails(r) PROVE TypeOK'
  <2>1. hand' \in [Replicas -> Hands]
    BY <1>4, <1>r DEF RecordFails, TypeOK, Serving
  <2> QED BY <1>r, <1>u, <2>1 DEF RecordFails, TypeOK
<1>10. ASSUME NEW r \in Replicas, EndTick(r) \/ Crash(r) PROVE TypeOK'
  <2>1. hand' \in [Replicas -> Hands]
    BY <1>10 DEF EndTick, Crash, TypeOK, Hands
  <2> QED BY <1>10, <1>u, <2>1 DEF EndTick, Crash, TypeOK
<1>11. CASE TimePasses
  BY <1>11 DEF TimePasses, TypeOK
<1>12. ASSUME NEW a \in Agents, SessionEnds(a) \/ UserStarts(a) PROVE TypeOK'
  <2>1. live' \in [Agents -> BOOLEAN]
    BY <1>12 DEF SessionEnds, UserStarts, TypeOK
  <2> QED BY <1>12, <2>1 DEF SessionEnds, UserStarts, TypeOK
<1>13. ASSUME NEW a \in Agents, DeleteRun(a) \/ EditSchedule(a) PROVE TypeOK'
  <2>1. CASE DeleteRun(a)
    <3> HIDE DEF Times
    <3>1. PICK slot \in runs[a] : runs' = [runs EXCEPT ![a] = @ \ {slot}]
      BY <2>1 DEF DeleteRun
    <3>2. runs' \in [Agents -> SUBSET Times]
      BY <3>1 DEF TypeOK
    <3> QED BY <2>1, <3>2 DEF DeleteRun, TypeOK
  <2>2. CASE EditSchedule(a)
    <3> HIDE DEF Times
    <3> QED BY <2>2 DEF EditSchedule, Stamp, IsOrchestrator, TypeOK
  <2> QED BY <1>13, <2>1, <2>2
<1>14. CASE UNCHANGED vars
  BY <1>14 DEF vars, TypeOK
<1> QED
  BY <1>2, <1>3, <1>f, <1>5, <1>7, <1>8, <1>9, <1>r, <1>10, <1>11, <1>12, <1>13, <1>14
  DEF Next, Step
-----------------------------------------------------------------------------
(* A schedule only moves on, and what was started stays started.           *)
Later ==
  \A a \in Agents :
    /\ since[a] <= since'[a]
    /\ \A s \in Times : fired[a][s] > 0 => fired'[a][s] > 0

(* Serving a slot counts it, and forgets none.                             *)
LEMMA FireCounts ==
  ASSUME TypeOK, NEW a \in Agents, NEW slot \in Times, Fire(a, slot)
  PROVE  /\ fired'[a][slot] > 0
         /\ \A b \in Agents, s \in Times : fired[b][s] > 0 => fired'[b][s] > 0
<1>1. fired[a][slot] \in 0 .. MaxFired /\ MaxFired \in Nat \ {0}
  BY SchedulerAssumption DEF TypeOK
<1>2. Capped(fired[a][slot]) > 0
  BY <1>1 DEF Capped
<1> QED BY <1>2 DEF Fire, TypeOK

(* Every step is later.                                                    *)
LEMMA StepsAreLater == TypeOK /\ EditsPast /\ [Next]_vars => Later /\ EditsPast'
<1> SUFFICES ASSUME TypeOK, EditsPast, [Next]_vars PROVE Later /\ EditsPast' OBVIOUS
<1>1. now \in Nat /\ since \in [Agents -> Nat]
  BY SchedulerAssumption DEF TypeOK, Times
<1>2. ASSUME since' = since, now' = now, fired' = fired PROVE Later /\ EditsPast'
  BY <1>1, <1>2 DEF Later, EditsPast
<1>3. ASSUME NEW r \in Replicas, Inject(r) \/ Create(r) PROVE Later /\ EditsPast'
  <2>1. hand[r].a \in Agents /\ hand[r].slot \in Times
    BY <1>3, HandFields DEF Inject, Create
  <2>2. since' = since /\ now' = now
    BY <1>3 DEF Inject, Create
  <2>3. fired' = fired \/ Fire(hand[r].a, hand[r].slot)
    BY <1>3 DEF Inject, Create
  <2>4. \A b \in Agents, s \in Times : fired[b][s] > 0 => fired'[b][s] > 0
    BY <2>1, <2>3, FireCounts
  <2> QED BY <1>1, <2>2, <2>4 DEF Later, EditsPast
<1>4. CASE TimePasses
  BY <1>1, <1>4 DEF TimePasses, Later, EditsPast
<1>5. ASSUME NEW a \in Agents, EditSchedule(a) PROVE Later /\ EditsPast'
  BY <1>1, <1>5 DEF EditSchedule, Later, EditsPast
<1>6. ASSUME NEW r \in Replicas,
             \/ StartTick(r) \/ FindLive(r) \/ FindFails(r) \/ InjectFails(r) \/ Record(r)
             \/ RecordFails(r) \/ EndTick(r) \/ Crash(r)
             \/ \E a \in Agents : Consider(r, a) \/ ConsiderFails(r, a)
      PROVE  Later /\ EditsPast'
  BY <1>2, <1>6 DEF StartTick, Consider, ConsiderFails, FindLive, FindFails, InjectFails, Record,
                    RecordFails, EndTick, Crash
<1>7. ASSUME NEW a \in Agents, SessionEnds(a) \/ UserStarts(a) \/ DeleteRun(a)
      PROVE  Later /\ EditsPast'
  BY <1>2, <1>7 DEF SessionEnds, UserStarts, DeleteRun
<1>8. CASE UNCHANGED vars
  BY <1>2, <1>8 DEF vars
<1> QED BY <1>3, <1>4, <1>5, <1>6, <1>7, <1>8 DEF Next, Step

(* So what was caught up stays caught up, whoever takes the next step.     *)
LEMMA CaughtStays ==
  ASSUME TypeOK, TypeOK', Later, NEW a \in Agents, NEW x, Caught(a, x)
  PROVE  Caught(a, x)'
<1>1. \A s \in Times : since'[a] < s => since[a] < s
  BY SchedulerAssumption DEF TypeOK, Later, Times
<1> QED BY <1>1 DEF Caught, Later, IsSlot

(* A replica whose hand does not change knows what it knew.                *)
LEMMA KnowsStays ==
  ASSUME TypeOK, TypeOK', Later, NEW r \in Replicas, Knows(r), hand'[r] = hand[r]
  PROVE  Knows(r)'
<1>1. hand[r].step # "idle" => \A a \in Orchestrators : Caught(a, hand[r].ticks[a])'
  BY CaughtStays, SchedulerAssumption DEF Knows
<1>2. hand[r].step \in Serving => hand[r].a \in Agents /\ hand[r].slot \in Times
  BY HandFields DEF Serving
<1>3. \A a \in Agents, s \in Times : since'[a] < s => since[a] < s
  BY SchedulerAssumption DEF TypeOK, Later, Times
<1> QED BY <1>1, <1>2, <1>3 DEF Knows, Later, IsSlot
-----------------------------------------------------------------------------
(* No slot lies between an anchor and the slot that is due after it.       *)
LEMMA NoSlotBetween ==
  ASSUME NEW a \in Agents, NEW x \in Times, NEW s \in Times, IsSlot(a, s), s < NextDue[a][x]
  PROVE  s <= x
<1>1. PICK t \in Times : t < s /\ NextDue[a][t] = s
  BY DEF IsSlot
<1>2. t \in Nat /\ x \in Nat /\ s \in Nat /\ NextDue[a][x] \in Nat
  BY SchedulerAssumption DEF Times
<1>3. CASE t <= x /\ x < s
  <2>1. NextDue[a][x] = NextDue[a][t]
    BY <1>1, <1>3, SchedulerAssumption
  <2> QED BY <1>1, <1>2, <2>1
<1>4. CASE x <= t
  <2>1. NextDue[a][t] = NextDue[a][x]
    BY <1>1, <1>2, <1>4, SchedulerAssumption
  <2> QED BY <1>1, <1>2, <2>1
<1> QED BY <1>1, <1>2, <1>3, <1>4

LEMMA DueIsNext ==
  ASSUME TypeOK, NEW a \in Agents, NEW x \in Times, Caught(a, x)
  PROVE  \A s \in Times : IsSlot(a, s) /\ since[a] < s /\ s < NextDue[a][x] => fired[a][s] > 0
BY NoSlotBetween DEF Caught

(* A replica that takes a step knows what its new step needs.              *)
LEMMA StepKnows ==
  ASSUME TypeOK, TypeOK', Later, HandsKnow, NoSlotSkipped,
         NEW r \in Replicas, StartTick(r) \/ Step(r) \/ Crash(r)
  PROVE  Knows(r)'
<1>1. Knows(r) /\ Orchestrators \subseteq Agents
  BY SchedulerAssumption DEF HandsKnow
<1>2. hand'[r] = Idle => Knows(r)'
  BY DEF Knows, Idle, Serving
<1>3. ASSUME hand[r].step # "idle", NEW a \in Orchestrators, NEW x, x = hand[r].ticks[a]
      PROVE  Caught(a, x)'
  BY <1>1, <1>3, CaughtStays DEF Knows
<1>4. ASSUME NEW todo, NEW at, hand[r].step # "idle", hand'[r] = Scan(todo, at, hand[r].ticks)
      PROVE  Knows(r)'
  BY <1>3, <1>4 DEF Knows, Scan, Serving
<1>5. CASE StartTick(r)
  <2>1. hand'[r] = Scan(Agents, now, tick) /\ fired' = fired /\ since' = since
    BY <1>5 DEF StartTick, TypeOK
  <2>2. \A a \in Orchestrators : Caught(a, tick[a])
    BY DEF NoSlotSkipped, Caught
  <2>3. \A a \in Orchestrators : Caught(a, tick[a])'
    BY <2>1, <2>2, <1>5 DEF Caught, IsSlot, StartTick
  <2> QED BY <2>1, <2>3, <1>5 DEF Knows, Scan, Serving, StartTick, Caught
<1>6. ASSUME NEW a \in Agents, Consider(r, a) PROVE Knows(r)'
  <2> DEFINE h   == hand[r]
             due == NextDue[a][Anchor(a, h.ticks[a])]
  <2>1. h.step = "scan" /\ h.ticks \in [Orchestrators -> Times] /\ fired' = fired /\ since' = since
    BY <1>6, HandFields DEF Consider
  <2>2. CASE \E todo, at : hand'[r] = Scan(todo, at, h.ticks)
    BY <1>4, <2>1, <2>2
  <2>3. CASE \E slot, step : hand'[r] = On(h, step, a, slot) /\ a \notin Orchestrators
    BY <1>3, <2>1, <2>3 DEF On, Knows, Serving
  <2>4. CASE hand'[r] = On(h, "find", a, due) /\ a \in Orchestrators
    <3>1. Anchor(a, h.ticks[a]) = h.ticks[a] /\ Caught(a, h.ticks[a])
      BY <1>1, <2>1, <2>4 DEF Anchor, IsOrchestrator, Knows
    <3>2. \A s \in Times : IsSlot(a, s) /\ since[a] < s /\ s < due => fired[a][s] > 0
      BY <2>1, <2>4, <3>1, DueIsNext
    <3> QED BY <1>3, <2>1, <2>4, <3>2 DEF On, Knows, Serving, IsSlot
  <2> QED
    BY <1>6, <2>2, <2>3, <2>4 DEF Consider, Missed, IsOrchestrator, TypeOK
<1>7. ASSUME hand[r].step \in Serving, hand'[r].step \in Serving,
             hand'[r] = [hand[r] EXCEPT !.step = hand'[r].step],
             hand'[r].step = "record" => fired'[hand[r].a][hand[r].slot] > 0
      PROVE  Knows(r)'
  <2>1. /\ hand'[r].a = hand[r].a /\ hand'[r].slot = hand[r].slot
        /\ hand'[r].ticks = hand[r].ticks
    <3>1. hand[r] \in [step : Serving, a : Agents, slot : Times,
                       todo : SUBSET Agents, at : Times, ticks : [Orchestrators -> Times]]
      BY <1>7 DEF TypeOK, Hands, Idle, Serving
    <3> QED BY <1>7, <3>1
  <2>2. hand[r].a \in Agents /\ hand[r].slot \in Times
    BY <1>7, HandFields DEF Serving
  <2>3. \A s \in Times : since'[hand[r].a] < s => since[hand[r].a] < s
    BY <2>2, SchedulerAssumption DEF TypeOK, Later, Times
  <2>4. \A a \in Agents, s \in Times : IsSlot(a, s)' <=> IsSlot(a, s)
    BY DEF IsSlot
  <2>5. hand[r].a \in Orchestrators =>
          \A s \in Times : IsSlot(hand[r].a, s) /\ since'[hand[r].a] < s /\ s < hand[r].slot
                             => fired'[hand[r].a][s] > 0
    BY <1>1, <1>7, <2>2, <2>3 DEF Knows, Later
  <2>6. hand[r].step # "idle"
    BY <1>7 DEF Serving
  <2>7. \A a \in Orchestrators : Caught(a, hand[r].ticks[a])'
    BY <1>3, <2>1, <2>6
  <2> QED BY <1>1, <1>7, <2>1, <2>2, <2>4, <2>5, <2>7 DEF Knows
<1>8. CASE FindLive(r)
  BY <1>7, <1>8 DEF FindLive, TypeOK, Serving
<1>9. CASE Inject(r)
  <2>1. fired'[hand[r].a][hand[r].slot] > 0
    BY <1>9, FireCounts, HandFields DEF Inject
  <2> QED BY <1>7, <1>9, <2>1 DEF Inject, TypeOK, Serving
<1>10. CASE Create(r)
  <2>1. CASE hand' = [hand EXCEPT ![r] = BackToScan(@)]
    BY <1>4, <1>10, <2>1 DEF Create, BackToScan, TypeOK
  <2>2. CASE hand' = [hand EXCEPT ![r].step = "record"] /\ Fire(hand[r].a, hand[r].slot)
    <3>1. fired'[hand[r].a][hand[r].slot] > 0
      BY <1>10, <2>2, FireCounts, HandFields DEF Create
    <3> QED BY <1>7, <1>10, <2>2, <3>1 DEF Create, TypeOK, Serving
  <2> QED BY <1>10, <2>1, <2>2 DEF Create
<1>11. CASE FindFails(r) \/ InjectFails(r) \/ Record(r) \/ RecordFails(r)
  BY <1>4, <1>11 DEF FindFails, InjectFails, Record, RecordFails, BackToScan, TypeOK
<1>12. CASE EndTick(r) \/ Crash(r)
  BY <1>2, <1>12 DEF EndTick, Crash, TypeOK
<1>13. ASSUME NEW a \in Agents, ConsiderFails(r, a) PROVE Knows(r)'
  <2>1. hand[r].step # "idle" /\ hand'[r] = Scan(hand[r].todo \ {a}, hand[r].at, hand[r].ticks)
    BY <1>13, ScanGoesOn
  <2> QED BY <1>4, <2>1
<1> QED BY <1>5, <1>6, <1>8, <1>9, <1>10, <1>11, <1>12, <1>13 DEF Step

(* The tick that is recorded is one the replica has caught up with.        *)
LEMMA StepCaught ==
  ASSUME SInv, TypeOK', Later, [Next]_vars
  PROVE  NoSlotSkipped'
<1> SUFFICES ASSUME NEW a \in Orchestrators PROVE Caught(a, tick[a])'
  BY DEF NoSlotSkipped, Caught
<1>1. a \in Agents /\ Caught(a, tick[a])
  BY SchedulerAssumption DEF SInv, NoSlotSkipped, Caught
<1>2. ASSUME tick'[a] = tick[a] PROVE Caught(a, tick[a])'
  <2>1. \A x : x = tick[a] => Caught(a, x)'
    BY <1>1, CaughtStays DEF SInv
  <2> QED BY <1>2, <2>1
<1>3. ASSUME NEW r \in Replicas, Record(r) PROVE Caught(a, tick[a])'
  <2>1. hand[r].a \in Agents /\ hand[r].slot \in Times
    BY <1>3, HandFields DEF Record, SInv
  <2>2. CASE hand[r].a = a
    <3>1. tick'[a] = hand[r].slot /\ fired' = fired /\ since' = since
      BY <1>1, <1>3, <2>2 DEF Record, Recorded, Stamp, IsOrchestrator, SInv, TypeOK
    <3>2. \A s \in Times : IsSlot(a, s) /\ since[a] < s /\ s < hand[r].slot => fired[a][s] > 0
      BY <1>3, <2>2 DEF Record, SInv, HandsKnow, Knows, Serving
    <3>3. fired[a][hand[r].slot] > 0
      BY <1>3, <2>2 DEF Record, SInv, HandsKnow, Knows, Serving
    <3>4. \A s \in Times : s <= hand[r].slot => s < hand[r].slot \/ s = hand[r].slot
      BY <2>1, SchedulerAssumption DEF Times
    <3> QED BY <3>1, <3>2, <3>3, <3>4 DEF Caught, IsSlot
  <2>3. CASE hand[r].a # a
    BY <1>1, <1>2, <1>3, <2>3, StampWrites DEF Record, SInv
  <2> QED BY <2>2, <2>3
<1>4. ASSUME NEW b \in Agents, EditSchedule(b) PROVE Caught(a, tick[a])'
  <2>1. CASE b = a
    <3>1. tick'[a] = now /\ since'[a] = now /\ now \in Nat
      BY <1>1, <1>4, <2>1, SchedulerAssumption DEF EditSchedule, Stamp, IsOrchestrator, SInv, TypeOK, Times
    <3> QED BY <3>1, SchedulerAssumption DEF Caught, Times
  <2>2. CASE b # a
    BY <1>1, <1>2, <1>4, <2>2, StampWrites DEF EditSchedule, SInv
  <2> QED BY <2>1, <2>2
<1>5. ASSUME NEW r \in Replicas,
             \/ StartTick(r) \/ FindLive(r) \/ FindFails(r) \/ Inject(r) \/ InjectFails(r)
             \/ Create(r) \/ RecordFails(r) \/ EndTick(r) \/ Crash(r)
             \/ \E b \in Agents : Consider(r, b) \/ ConsiderFails(r, b)
      PROVE  Caught(a, tick[a])'
  BY <1>2, <1>5 DEF StartTick, Consider, ConsiderFails, FindLive, FindFails, Inject, InjectFails,
                    Create, RecordFails, EndTick, Crash
<1>6. CASE TimePasses \/ \E b \in Agents : SessionEnds(b) \/ UserStarts(b) \/ DeleteRun(b)
  BY <1>2, <1>6 DEF TimePasses, SessionEnds, UserStarts, DeleteRun
<1>7. CASE UNCHANGED vars
  BY <1>2, <1>7 DEF vars
<1> QED BY <1>3, <1>4, <1>5, <1>6, <1>7 DEF SInv, Next, Step

(* Every step keeps the invariant.                                         *)
LEMMA StepInvariant == SInv /\ [Next]_vars => SInv'
<1> SUFFICES ASSUME SInv, [Next]_vars PROVE SInv' OBVIOUS
<1>1. TypeOK' /\ Later /\ EditsPast'
  BY TypeStep, StepsAreLater DEF SInv
<1>2. NoSlotSkipped'
  BY <1>1, StepCaught
<1>3. ASSUME NEW r \in Replicas PROVE Knows(r)'
  <2>1. CASE hand'[r] = hand[r]
    BY <1>1, <2>1, KnowsStays DEF SInv, HandsKnow
  <2>2. CASE hand'[r] # hand[r]
    <3>1. StartTick(r) \/ Step(r) \/ Crash(r)
      <4>1. ASSUME NEW q \in Replicas, StartTick(q) \/ Step(q) \/ Crash(q) PROVE q = r
        BY <2>2, <4>1 DEF SInv, TypeOK, StartTick, Step, Crash, Consider, ConsiderFails,
                          FindLive, FindFails, Inject, InjectFails, Create, Record, RecordFails,
                          EndTick
      <4>2. ~TimePasses /\ ~UNCHANGED vars
        BY <2>2 DEF TimePasses, vars
      <4>3. ASSUME NEW a \in Agents
            PROVE  ~SessionEnds(a) /\ ~UserStarts(a) /\ ~DeleteRun(a) /\ ~EditSchedule(a)
        BY <2>2 DEF SessionEnds, UserStarts, DeleteRun, EditSchedule
      <4> QED BY <4>1, <4>2, <4>3 DEF SInv, Next
    <3> QED BY <1>1, <3>1, StepKnows DEF SInv
  <2> QED BY <2>1, <2>2
<1> QED BY <1>1, <1>2, <1>3 DEF SInv, HandsKnow

(* Initially the invariant holds.                                          *)
LEMMA InitInvariant == Init => SInv
<1> SUFFICES ASSUME Init PROVE SInv OBVIOUS
<1>1. 0 \in Times /\ 0 \in 0 .. MaxFired
  BY SchedulerAssumption DEF Times
<1>2. TypeOK
  BY <1>1 DEF Init, TypeOK, Hands
<1>3. EditsPast
  BY SchedulerAssumption DEF Init, EditsPast
<1>4. NoSlotSkipped
  BY SchedulerAssumption DEF Init, NoSlotSkipped, Times
<1>5. HandsKnow
  BY DEF Init, HandsKnow, Knows, Idle, Serving
<1> QED BY <1>2, <1>3, <1>4, <1>5 DEF SInv

(* Every variable of the scheduler keeps its type.                         *)
THEOREM SchedulerTypes == Spec => []TypeOK
<1> QED BY InitInvariant, StepInvariant, PTL DEF Spec, SInv

(* No slot of an orchestrator up to its recorded tick went unserved, for   *)
(* any number of replicas that overtake each other, restart or fail to     *)
(* publish, and any schedule.                                              *)
THEOREM OrchestratorsNeverSkipped == Spec => []NoSlotSkipped
<1>1. SInv => NoSlotSkipped
  BY DEF SInv
<1> QED BY InitInvariant, StepInvariant, <1>1, PTL DEF Spec
-----------------------------------------------------------------------------
(* Only an orchestrator is looked up and woken.                            *)
WakesAreOrchestrators ==
  \A r \in Replicas : hand[r].step \in {"find", "inject"} => hand[r].a \in Orchestrators

(* Only orchestrators are sent to the find and to the inject.              *)
LEMMA WakesStayOrchestrators ==
  ASSUME TypeOK, WakesAreOrchestrators, [Next]_vars
  PROVE  WakesAreOrchestrators'
<1>1. ASSUME NEW r \in Replicas, NEW a \in Agents, Consider(r, a) PROVE WakesAreOrchestrators'
  <2>1. hand'[r].step \in {"find", "inject"} => hand'[r].a \in Orchestrators
    BY <1>1 DEF Consider, Scan, On, IsOrchestrator, TypeOK
  <2>2. \A q \in Replicas : q # r => hand'[q] = hand[q]
    BY <1>1 DEF Consider, TypeOK
  <2> QED BY <2>1, <2>2 DEF WakesAreOrchestrators
<1>2. ASSUME NEW r \in Replicas, FindLive(r) PROVE WakesAreOrchestrators'
  <2>1. hand[r] \in [step : Serving, a : Agents, slot : Times,
                     todo : SUBSET Agents, at : Times, ticks : [Orchestrators -> Times]]
    BY <1>2 DEF FindLive, TypeOK, Hands, Idle, Serving
  <2>2. hand'[r].a = hand[r].a
    BY <1>2, <2>1 DEF FindLive, TypeOK
  <2>3. \A q \in Replicas : q # r => hand'[q] = hand[q]
    BY <1>2 DEF FindLive, TypeOK
  <2> QED BY <1>2, <2>2, <2>3 DEF WakesAreOrchestrators, FindLive
<1>3. ASSUME NEW r \in Replicas,
             \/ StartTick(r) \/ FindFails(r) \/ Inject(r) \/ InjectFails(r) \/ Create(r)
             \/ Record(r) \/ RecordFails(r) \/ EndTick(r) \/ Crash(r)
             \/ \E a \in Agents : ConsiderFails(r, a)
      PROVE  WakesAreOrchestrators'
  <2>1. hand'[r].step \in {"idle", "scan", "record"}
    <3>1. hand[r].step \in Serving => [hand[r] EXCEPT !.step = "record"].step = "record"
      BY DEF TypeOK, Hands, Idle, Serving
    <3>2. CASE Inject(r) \/ Create(r)
      <4>1. \/ hand'[r] = [hand[r] EXCEPT !.step = "record"]
            \/ hand'[r] = BackToScan(hand[r])
        BY <3>2 DEF Inject, Create, TypeOK
      <4>2. hand[r].step \in Serving
        BY <3>2 DEF Inject, Create, Serving
      <4>3. BackToScan(hand[r]).step = "scan"
        BY DEF BackToScan, Scan
      <4>4. [hand[r] EXCEPT !.step = "record"].step = "record"
        BY <3>1, <4>2
      <4> QED BY <4>1, <4>3, <4>4
    <3>3. CASE \/ StartTick(r) \/ FindFails(r) \/ InjectFails(r) \/ Record(r) \/ RecordFails(r)
               \/ EndTick(r) \/ Crash(r)
      BY <3>3 DEF StartTick, FindFails, InjectFails, Record, RecordFails, EndTick, Crash, TypeOK,
                  Idle, Scan, BackToScan
    <3>4. ASSUME NEW a \in Agents, ConsiderFails(r, a) PROVE hand'[r].step = "scan"
      BY <3>4, ScanGoesOn
    <3> QED BY <1>3, <3>2, <3>3, <3>4
  <2>2. \A q \in Replicas : q # r => hand'[q] = hand[q]
    BY <1>3 DEF StartTick, ConsiderFails, FindFails, Inject, InjectFails, Create, Record,
                RecordFails, EndTick, Crash, TypeOK
  <2> QED BY <2>1, <2>2 DEF WakesAreOrchestrators
<1>4. ASSUME hand' = hand PROVE WakesAreOrchestrators'
  BY <1>4 DEF WakesAreOrchestrators
<1>5. CASE \/ TimePasses \/ UNCHANGED vars
           \/ \E a \in Agents : SessionEnds(a) \/ UserStarts(a) \/ DeleteRun(a) \/ EditSchedule(a)
  BY <1>4, <1>5 DEF TimePasses, vars, SessionEnds, UserStarts, DeleteRun, EditSchedule
<1> QED BY <1>1, <1>2, <1>3, <1>5 DEF Next, Step

-----------------------------------------------------------------------------
(* The replica is at one of these steps of an agent's turn.                *)
Turn(r, a, steps) == hand[r].step \in steps /\ hand[r].a = a

(* The turn goes on: only its step changes.                                *)
LEMMA TurnGoesOn ==
  ASSUME TypeOK, NEW r \in Replicas, hand[r].step \in Serving, NEW step,
         hand' = [hand EXCEPT ![r].step = step]
  PROVE  /\ hand'[r].step = step /\ hand'[r].a = hand[r].a /\ hand'[r].slot = hand[r].slot
         /\ hand'[r].todo = hand[r].todo /\ hand'[r].at = hand[r].at
         /\ hand'[r].ticks = hand[r].ticks
<1>1. hand[r] \in [step : Serving, a : Agents, slot : Times,
                   todo : SUBSET Agents, at : Times, ticks : [Orchestrators -> Times]]
  BY DEF TypeOK, Hands, Idle, Serving
<1>2. hand'[r] = [hand[r] EXCEPT !.step = step] BY DEF TypeOK
<1> QED BY <1>1, <1>2

(* Only the slot in hand is fired.                                         *)
LEMMA OnlyInHand ==
  ASSUME TypeOK, [Next]_vars, NEW a \in Agents, NEW s \in Times, fired'[a][s] # fired[a][s]
  PROVE  \E r \in Replicas :
           hand[r].step \in {"inject", "create"} /\ hand[r].a = a /\ hand[r].slot = s
<1>1. PICK r \in Replicas :
        hand[r].step \in {"inject", "create"} /\ Fire(hand[r].a, hand[r].slot)
  <2>1. fired' # fired OBVIOUS
  <2> QED BY <2>1 DEF Next, vars, StartTick, Step, Consider, ConsiderFails, FindLive, FindFails,
                      Inject, InjectFails, Create, Record, RecordFails, EndTick, Crash, TimePasses, SessionEnds, UserStarts, DeleteRun,
                      EditSchedule
<1>2. hand[r].a \in Agents /\ hand[r].slot \in Times BY <1>1, HandFields
<1>3. fired' = [fired EXCEPT ![hand[r].a][hand[r].slot] = Capped(@)] BY <1>1 DEF Fire
<1> QED BY <1>1, <1>2, <1>3 DEF TypeOK
-----------------------------------------------------------------------------
(* Catch-up.  A tick that reads the clock now starts one of the two slots  *)
(* that are Current at most; one that read it earlier starts one slot      *)
(* more; and a slot is started once.                                       *)
Current(a) == {s \in Times : IsSlot(a, s) /\ s <= now /\ now <= NextDue[a][s]}
Begun(a) == {s \in Times : fired[a][s] > 0}
Stalled(a) ==
  {r \in Replicas : /\ hand[r].step # "idle" /\ hand[r].at < now
                    /\ a \in hand[r].todo \/ Turn(r, a, {"create"})}

HandsBegun == \A r \in Replicas : hand[r].step # "idle" => hand[r].at <= now
TurnsTaken == \A r \in Replicas : hand[r].step \in Serving => hand[r].a \notin hand[r].todo
DueHeld ==
  \A r \in Replicas, a \in Workers :
    Turn(r, a, {"create"}) /\ hand[r].at = now => hand[r].slot \in Current(a)
BurstBounded ==
  \A a \in Workers :
    burst[a] + Cardinality(Stalled(a)) <= Cardinality(Replicas) + Cardinality(Begun(a) \cap Current(a))

HeldInv == TypeOK /\ WakesAreOrchestrators /\ HandsBegun /\ TurnsTaken /\ DueHeld
CalmInv == HeldInv /\ BurstBounded

(* Two slots are current at most: the one before now, and now.             *)
LEMMA CurrentIsTwo ==
  ASSUME TypeOK, NEW a \in Agents, NEW some \in SUBSET Current(a)
  PROVE  IsFiniteSet(some) /\ Cardinality(some) <= 2
<1>n. now \in Nat /\ Current(a) \subseteq Nat
  BY SchedulerAssumption DEF TypeOK, Times, Current
<1>1. \A s, t \in Current(a) : s < t => t = now
  <2> SUFFICES ASSUME NEW s \in Current(a), NEW t \in Current(a), s < t PROVE t = now OBVIOUS
  <2>1. /\ s \in Times /\ t \in Times /\ s \in Nat /\ t \in Nat /\ t <= now /\ now <= NextDue[a][s]
    BY <1>n DEF Current
  <2>2. PICK u \in Times : u < t /\ NextDue[a][u] = t BY DEF Current, IsSlot
  <2>3. u \in Nat /\ NextDue[a][s] \in Nat BY <2>1, <2>2, SchedulerAssumption DEF Times
  <2>4. NextDue[a][s] <= t
    <3>1. CASE u <= s
      <4>1. NextDue[a][s] = NextDue[a][u] BY <2>1, <2>2, <3>1, SchedulerAssumption
      <4> QED BY <2>1, <2>2, <4>1
    <3>2. CASE s < u /\ u < NextDue[a][s]
      <4>1. NextDue[a][u] = NextDue[a][s] BY <2>1, <2>2, <2>3, <3>2, SchedulerAssumption
      <4> QED BY <2>1, <2>2, <4>1
    <3>3. CASE NextDue[a][s] <= u BY <2>1, <2>2, <2>3, <3>3
    <3> QED BY <2>1, <2>3, <3>1, <3>2, <3>3
  <2> QED BY <1>n, <2>1, <2>3, <2>4
<1>2. PICK x : \A s \in Current(a) : s = x \/ s = now
  <2>1. CASE \A s \in Current(a) : s = now BY <2>1
  <2>2. CASE \E s \in Current(a) : s # now
    <3>1. PICK x \in Current(a) : x # now BY <2>2
    <3>2. \A s \in Current(a) : s = x \/ s = now BY <1>n, <1>1, <3>1
    <3> QED BY <3>2
  <2> QED BY <2>1, <2>2
<1>3. IsFiniteSet({x}) /\ Cardinality({x}) = 1 BY FS_Singleton
<1>4. IsFiniteSet({x} \cup {now}) /\ Cardinality({x} \cup {now}) <= 2 BY <1>3, FS_AddElement
<1>5. some \in SUBSET ({x} \cup {now}) BY <1>2
<1>6. IsFiniteSet(some) /\ Cardinality(some) <= Cardinality({x} \cup {now}) BY <1>4, <1>5, FS_Subset
<1>7. Cardinality(some) \in Nat /\ Cardinality({x} \cup {now}) \in Nat
  BY <1>4, <1>6, FS_CardinalityType
<1> QED BY <1>4, <1>6, <1>7

(* What a replica holds after a step of it: the slot it is about to start  *)
(* is the one it was, or a slot of an agent it had still to consider, and  *)
(* current if the tick is.                                                 *)
Follows(r) ==
  LET h == hand[r]  g == hand'[r] IN
    g.step # "idle" =>
      \/ g.step = "scan" /\ g.at = now
      \/ /\ h.step # "idle" /\ g.at = h.at /\ g.todo \subseteq h.todo
         /\ g.step \in Serving => g.a \notin g.todo
         /\ g.step = "create" /\ g.a \in Workers =>
              \/ h.step = "create" /\ g.a = h.a /\ g.slot = h.slot
              \/ g.a \in h.todo /\ (g.at = now => g.slot \in Current(g.a))

LEMMA ConsiderFollows ==
  ASSUME HeldInv, NEW r \in Replicas, NEW b \in Agents, Consider(r, b)
  PROVE  Follows(r)
<1> DEFINE h   == hand[r]
           due == NextDue[b][Anchor(b, h.ticks[b])]
<1>t. TypeOK BY DEF HeldInv
<1>1. /\ h.step = "scan" /\ b \in h.todo /\ h.at \in Times /\ h.ticks \in [Orchestrators -> Times]
  BY <1>t, HandFields DEF Consider
<1>2. \/ hand'[r] = Scan(h.todo \ {b}, h.at, h.ticks)
      \/ hand'[r] = On(h, "record", b, h.at)
      \/ /\ ~(due > h.at) /\ ~Missed(b, due, h.at)
         /\ hand'[r] = On(h, IF IsOrchestrator(b) THEN "find" ELSE "create", b, due)
  BY <1>t DEF Consider, TypeOK
<1>3. CASE hand'[r] = Scan(h.todo \ {b}, h.at, h.ticks)
  BY <1>1, <1>3 DEF Scan, Follows, Serving
<1>4. CASE hand'[r] = On(h, "record", b, h.at)
  BY <1>1, <1>4 DEF On, Follows, Serving
<1>5. CASE /\ ~(due > h.at) /\ ~Missed(b, due, h.at)
           /\ hand'[r] = On(h, IF IsOrchestrator(b) THEN "find" ELSE "create", b, due)
  <2>1. CASE IsOrchestrator(b)
    BY <1>1, <1>5, <2>1 DEF On, Follows, Serving
  <2>2. CASE ~IsOrchestrator(b)
    <3>1. Anchor(b, h.ticks[b]) \in Times BY <1>t, <1>1, LastRunIsTime DEF Anchor, IsOrchestrator
    <3>2. due \in Nat /\ h.at \in Nat /\ Anchor(b, h.ticks[b]) < due
      BY <1>1, <3>1, SchedulerAssumption DEF Times
    <3>3. due \in Times BY <1>1, <1>5, <3>2, SchedulerAssumption DEF Times
    <3>4. IsSlot(b, due) BY <3>1, <3>2 DEF IsSlot
    <3>5. NextDue[b][due] \in Nat BY <3>3, SchedulerAssumption
    <3>6. due <= h.at /\ h.at <= NextDue[b][due] BY <1>5, <2>2, <3>2, <3>5 DEF Missed
    <3>7. h.at = now => due \in Current(b) BY <3>3, <3>4, <3>6 DEF Current
    <3> HIDE DEF due, h
    <3>8. /\ hand'[r].step = "create" /\ hand'[r].a = b /\ hand'[r].slot = due
          /\ hand'[r].todo = h.todo \ {b} /\ hand'[r].at = h.at
      BY <1>5, <2>2 DEF On
    <3> QED BY <1>1, <3>7, <3>8 DEF Follows, h
  <2> QED BY <2>1, <2>2
<1> QED BY <1>2, <1>3, <1>4, <1>5

LEMMA ReplicaFollows ==
  ASSUME HeldInv, NEW r \in Replicas, StartTick(r) \/ Step(r) \/ Crash(r)
  PROVE  /\ Follows(r) /\ now' = now /\ \A q \in Replicas : q # r => hand'[q] = hand[q]
<1>t. TypeOK BY DEF HeldInv
<1>1. now' = now /\ \A q \in Replicas : q # r => hand'[q] = hand[q]
  BY <1>t DEF StartTick, Step, Crash, Consider, ConsiderFails, FindLive, FindFails, Inject,
              InjectFails, Create, Record, RecordFails, EndTick, TypeOK
<1>2. ASSUME StartTick(r) PROVE Follows(r)
  <2>1. hand'[r] = Scan(Agents, now, tick) BY <1>2, <1>t DEF StartTick, TypeOK
  <2> QED BY <2>1 DEF Scan, Follows
<1>3. ASSUME EndTick(r) \/ Crash(r) PROVE Follows(r)
  <2>1. hand'[r] = Idle BY <1>3, <1>t DEF EndTick, Crash, TypeOK
  <2> QED BY <2>1 DEF Idle, Follows
<1>4. ASSUME hand[r].step \in Serving, hand'[r] = BackToScan(hand[r]) PROVE Follows(r)
  BY <1>4 DEF BackToScan, Scan, Follows, Serving
<1>5. ASSUME hand[r].step \in Serving, NEW step \in Serving, step # "create" \/ hand[r].a \notin Workers,
             hand' = [hand EXCEPT ![r].step = step]
      PROVE  Follows(r)
  <2>1. /\ hand'[r].step = step /\ hand'[r].a = hand[r].a /\ hand'[r].slot = hand[r].slot
        /\ hand'[r].todo = hand[r].todo /\ hand'[r].at = hand[r].at
    BY <1>5, <1>t, TurnGoesOn
  <2>2. hand[r].a \notin hand[r].todo /\ hand[r].step # "idle"
    BY <1>5 DEF HeldInv, TurnsTaken, Serving
  <2> QED BY <1>5, <2>1, <2>2 DEF Follows
<1>6. ASSUME FindLive(r) PROVE Follows(r)
  <2>1. hand[r].a \notin Workers
    BY <1>6 DEF FindLive, HeldInv, WakesAreOrchestrators, Workers
  <2>2. PICK step \in {"inject", "create"} : hand' = [hand EXCEPT ![r].step = step]
    BY <1>6 DEF FindLive
  <2> QED BY <1>5, <1>6, <2>1, <2>2 DEF FindLive, Serving
<1>7. ASSUME Inject(r) \/ (Create(r) /\ ~Taken(hand[r].a, hand[r].slot)) PROVE Follows(r)
  BY <1>5, <1>7 DEF Inject, Create, Serving
<1>8. ASSUME \/ FindFails(r) \/ InjectFails(r) \/ Record(r) \/ RecordFails(r)
             \/ (Create(r) /\ Taken(hand[r].a, hand[r].slot))
      PROVE  Follows(r)
  BY <1>4, <1>8, <1>t DEF FindFails, InjectFails, Record, RecordFails, Create, Serving, TypeOK
<1>9. ASSUME NEW b \in Agents, ConsiderFails(r, b) PROVE Follows(r)
  BY <1>9, <1>t, ScanGoesOn DEF Follows, Serving
<1> QED BY <1>1, <1>2, <1>3, <1>6, <1>7, <1>8, <1>9, ConsiderFollows DEF Step

LEMMA HeldStep ==
  ASSUME HeldInv, NEW r \in Replicas, Follows(r), now' = now,
         \A q \in Replicas : q # r => hand'[q] = hand[q]
  PROVE  /\ HandsBegun' /\ TurnsTaken' /\ DueHeld'
         /\ \A a \in Workers : Current(a)' = Current(a) /\ Stalled(a)' \subseteq Stalled(a)
<1>n. now \in Nat BY SchedulerAssumption DEF HeldInv, TypeOK, Times
<1>1. \A a \in Workers : Current(a)' = Current(a) BY DEF Current, IsSlot
<1>2. HandsBegun' BY <1>n DEF HeldInv, HandsBegun, Follows
<1>3. TurnsTaken' BY DEF HeldInv, TurnsTaken, Follows, Serving
<1>4. DueHeld'
  <2> SUFFICES ASSUME NEW q \in Replicas, NEW a \in Workers, Turn(q, a, {"create"})', hand'[q].at = now
               PROVE  hand'[q].slot \in Current(a)
    BY <1>1 DEF DueHeld
  <2>1. CASE q # r BY <2>1 DEF Turn, HeldInv, DueHeld
  <2>2. CASE q = r BY <2>2 DEF Turn, Follows, Serving, HeldInv, DueHeld
  <2> QED BY <2>1, <2>2
<1>5. ASSUME NEW a \in Workers, NEW q \in Stalled(a)' PROVE q \in Stalled(a)
  <2>1. /\ q \in Replicas /\ hand'[q].step # "idle" /\ hand'[q].at < now
        /\ a \in hand'[q].todo \/ Turn(q, a, {"create"})'
    BY <1>5 DEF Stalled
  <2>2. CASE q # r BY <2>1, <2>2 DEF Stalled, Turn
  <2>3. CASE q = r
    <3>1. hand'[q].at # now BY <1>n, <2>1
    <3> QED BY <2>1, <2>3, <3>1 DEF Stalled, Turn, Follows, Serving
  <2> QED BY <2>2, <2>3
<1> QED BY <1>1, <1>2, <1>3, <1>4, <1>5
(* A worker that nothing is started for keeps within its bound.            *)
LEMMA BoundKept ==
  ASSUME TypeOK, TypeOK', IsFiniteSet(Replicas), NEW a \in Workers,
         burst[a] + Cardinality(Stalled(a)) <=
           Cardinality(Replicas) + Cardinality(Begun(a) \cap Current(a)),
         burst'[a] = burst[a], Begun(a)' = Begun(a),
         Current(a)' = Current(a), Stalled(a)' \subseteq Stalled(a)
  PROVE  (burst[a] + Cardinality(Stalled(a)))' <=
           Cardinality(Replicas) + Cardinality(Begun(a)' \cap Current(a)')
<1>1. IsFiniteSet(Stalled(a)) BY FS_Subset DEF Stalled
<1>2. IsFiniteSet(Stalled(a)') /\ Cardinality(Stalled(a)') <= Cardinality(Stalled(a))
  BY <1>1, FS_Subset
<1>3. a \in Agents /\ IsFiniteSet(Begun(a) \cap Current(a)) BY CurrentIsTwo DEF Workers
<1>4. /\ Cardinality(Stalled(a)) \in Nat /\ Cardinality(Stalled(a)') \in Nat
      /\ Cardinality(Replicas) \in Nat /\ Cardinality(Begun(a) \cap Current(a)) \in Nat
  BY <1>1, <1>2, <1>3, FS_CardinalityType
<1>5. burst[a] \in Nat BY DEF TypeOK
<1> QED BY <1>2, <1>4, <1>5

(* A start is paid for by the stall it ends, or by a current slot.         *)
LEMMA BoundMoves ==
  ASSUME CalmInv, TypeOK', IsFiniteSet(Replicas), NEW r \in Replicas, Create(r),
         ~Taken(hand[r].a, hand[r].slot), hand[r].a \in Workers,
         fired[hand[r].a][hand[r].slot] = 0,
         \A a \in Workers : Current(a)' = Current(a) /\ Stalled(a)' \subseteq Stalled(a)
  PROVE  BurstBounded'
<1> DEFINE b == hand[r].a  slot == hand[r].slot
<1>t. TypeOK BY DEF CalmInv, HeldInv
<1>1. /\ b \in Workers /\ b \in Agents /\ slot \in Times /\ hand[r].at \in Times
      /\ hand[r].step = "create" /\ fired[b][slot] = 0
  BY <1>t, HandFields DEF Create, Workers
<1>2. /\ Fire(b, slot)
      /\ hand' = [hand EXCEPT ![r].step = "record"]
  BY DEF Create
<1>f. /\ \A a \in Workers : burst'[a] = IF a = b THEN burst[a] + 1 ELSE burst[a]
      /\ \A a \in Workers : Begun(a)' = IF a = b THEN Begun(a) \cup {slot} ELSE Begun(a)
  <2>1. \A a \in Workers : burst'[a] = IF a = b THEN burst[a] + 1 ELSE burst[a]
    BY <1>1, <1>2 DEF Fire
  <2>2. fired'[b][slot] > 0 BY <1>t, <1>1, <1>2, FireCounts
  <2>3. \A a \in Agents, s \in Times : a # b \/ s # slot => fired'[a][s] = fired[a][s]
    BY <1>t, <1>1, <1>2 DEF Fire, TypeOK
  <2>4. ASSUME NEW a \in Workers
        PROVE  Begun(a)' = IF a = b THEN Begun(a) \cup {slot} ELSE Begun(a)
    <3>1. a \in Agents BY DEF Workers
    <3> QED BY <1>1, <2>2, <2>3, <3>1 DEF Begun
  <2> QED BY <2>1, <2>4
<1>3. hand'[r].step = "record" /\ hand'[r].a = b /\ hand'[r].todo = hand[r].todo
  BY <1>1, <1>2, <1>t, TurnGoesOn DEF Serving
<1> SUFFICES ASSUME NEW a \in Workers
             PROVE  burst'[a] + Cardinality(Stalled(a)') <=
                      Cardinality(Replicas) + Cardinality(Begun(a)' \cap Current(a)')
  BY <1>1 DEF BurstBounded, Create
<1>4. burst[a] + Cardinality(Stalled(a)) <=
        Cardinality(Replicas) + Cardinality(Begun(a) \cap Current(a))
  BY DEF CalmInv, BurstBounded
<1>5. Current(a)' = Current(a) /\ Stalled(a)' \subseteq Stalled(a) OBVIOUS
<1>6. CASE a # b
  <2>1. burst'[a] = burst[a] /\ Begun(a)' = Begun(a) BY <1>f, <1>6
  <2> HIDE DEF b
  <2> QED BY <1>t, <1>4, <1>5, <2>1, BoundKept
<1>7. CASE a = b
  <2>1. burst'[a] = burst[a] + 1 /\ Begun(a)' = Begun(a) \cup {slot}
    BY <1>f, <1>7
  <2>2. burst[a] \in Nat /\ burst'[a] \in Nat /\ burst'[a] <= burst[a] + 1
    BY <1>1, <1>7, <1>t, <2>1 DEF TypeOK
  <2>3. IsFiniteSet(Stalled(a)) BY FS_Subset DEF Stalled
  <2>4. IsFiniteSet(Stalled(a)') /\ Cardinality(Stalled(a)') <= Cardinality(Stalled(a))
    BY <1>5, <2>3, FS_Subset
  <2>5. IsFiniteSet(Begun(a) \cap Current(a)) BY <1>1, <1>7, <1>t, CurrentIsTwo
  <2>6. /\ Cardinality(Stalled(a)) \in Nat /\ Cardinality(Stalled(a)') \in Nat
        /\ Cardinality(Replicas) \in Nat /\ Cardinality(Begun(a) \cap Current(a)) \in Nat
    BY <2>3, <2>4, <2>5, FS_CardinalityType
  <2>7. now \in Nat /\ hand[r].at \in Nat /\ hand[r].at <= now
    <3>1. hand[r].at <= now BY <1>1 DEF CalmInv, HeldInv, HandsBegun
    <3>2. now \in Times BY <1>t DEF TypeOK
    <3>3. Times \subseteq Nat BY SchedulerAssumption DEF Times
    <3> QED BY <1>1, <3>1, <3>2, <3>3
  <2>8. CASE hand[r].at = now
    <3>1. slot \in Current(a) BY <1>1, <1>7, <2>8 DEF CalmInv, HeldInv, DueHeld, Turn
    <3>2. Begun(a)' \cap Current(a)' = (Begun(a) \cap Current(a)) \cup {slot} BY <1>5, <2>1, <3>1
    <3>3. slot \notin Begun(a) \cap Current(a) BY <1>1, <1>7 DEF Begun
    <3>4. Cardinality((Begun(a) \cap Current(a)) \cup {slot}) = Cardinality(Begun(a) \cap Current(a)) + 1
      BY <2>5, <3>3, FS_AddElement
    <3>5. Cardinality(Begun(a)' \cap Current(a)') = Cardinality((Begun(a) \cap Current(a)) \cup {slot})
      BY <3>2, Zenon
    <3> QED BY <1>4, <2>2, <2>4, <2>6, <3>4, <3>5
  <2>9. CASE hand[r].at < now
    <3>1. r \in Stalled(a) BY <1>1, <1>7, <2>9 DEF Stalled, Turn
    <3>2. hand[r].a \notin hand[r].todo BY <1>1 DEF CalmInv, HeldInv, TurnsTaken, Serving
    <3>3. r \notin Stalled(a)' BY <1>3, <1>7, <3>2 DEF Stalled, Turn
    <3>4. Cardinality(Stalled(a) \ {r}) = Cardinality(Stalled(a)) - 1 /\ IsFiniteSet(Stalled(a) \ {r})
      BY <2>3, <3>1, FS_RemoveElement
    <3>5. Stalled(a)' \subseteq Stalled(a) \ {r} BY <1>5, <3>3
    <3>6. Cardinality(Stalled(a)') <= Cardinality(Stalled(a)) - 1 BY <3>4, <3>5, FS_Subset
    <3>7. /\ IsFiniteSet(Begun(a)' \cap Current(a)')
          /\ Cardinality(Begun(a) \cap Current(a)) <= Cardinality(Begun(a)' \cap Current(a)')
      <4>1. IsFiniteSet((Begun(a) \cap Current(a)) \cup {slot}) BY <2>5, FS_AddElement
      <4>2. Begun(a)' \cap Current(a)' \subseteq (Begun(a) \cap Current(a)) \cup {slot}
        BY <1>5, <2>1
      <4>3. IsFiniteSet(Begun(a)' \cap Current(a)') BY <4>1, <4>2, FS_Subset
      <4>4. Begun(a) \cap Current(a) \subseteq Begun(a)' \cap Current(a)' BY <1>5, <2>1
      <4> QED BY <4>3, <4>4, FS_Subset
    <3>8. Cardinality(Begun(a)' \cap Current(a)') \in Nat BY <3>7, FS_CardinalityType
    <3> QED BY <1>4, <2>2, <2>6, <3>6, <3>7, <3>8
  <2> QED BY <2>7, <2>8, <2>9
<1> QED BY <1>6, <1>7

(* A wake, or a run of a slot that had one, counts for no worker.          *)
LEMMA FireAgain ==
  ASSUME TypeOK, NEW b \in Agents, NEW slot \in Times, Fire(b, slot),
         b \notin Workers \/ fired[b][slot] > 0
  PROVE  \A a \in Workers : burst'[a] = burst[a] /\ Begun(a)' = Begun(a)
<1> SUFFICES ASSUME NEW a \in Workers PROVE burst'[a] = burst[a] /\ Begun(a)' = Begun(a)
  OBVIOUS
<1>1. burst'[a] = burst[a] BY DEF Fire
<1>2. \A s \in Times : a # b \/ s # slot => fired'[a][s] = fired[a][s]
  BY DEF Fire, TypeOK, Workers
<1>3. fired'[b][slot] > 0 BY FireCounts
<1> QED BY <1>1, <1>2, <1>3 DEF Begun

(* Every step keeps the bound.                                             *)
LEMMA CalmStep ==
  ASSUME CalmInv, [Next]_vars, IsFiniteSet(Replicas)
  PROVE  CalmInv'
<1>t. TypeOK /\ TypeOK' BY TypeStep DEF CalmInv, HeldInv
<1>o. WakesAreOrchestrators'
  BY <1>t, WakesStayOrchestrators DEF CalmInv, HeldInv
<1>n. now \in Nat /\ now' \in Nat BY <1>t, SchedulerAssumption DEF TypeOK, Times
<1>1. ASSUME NEW r \in Replicas, StartTick(r) \/ Step(r) \/ Crash(r) PROVE CalmInv'
  <2>1. /\ HandsBegun' /\ TurnsTaken' /\ DueHeld'
        /\ \A a \in Workers : Current(a)' = Current(a) /\ Stalled(a)' \subseteq Stalled(a)
    BY <1>1, ReplicaFollows, HeldStep DEF CalmInv
  <2>2. ASSUME \A a \in Workers : burst'[a] = burst[a] /\ Begun(a)' = Begun(a)
        PROVE  BurstBounded'
    <3> SUFFICES ASSUME NEW a \in Workers
                 PROVE  (burst[a] + Cardinality(Stalled(a)))' <=
                          Cardinality(Replicas) + Cardinality(Begun(a)' \cap Current(a)')
      BY DEF BurstBounded
    <3> QED BY <1>t, <2>1, <2>2, BoundKept DEF CalmInv, BurstBounded
  <2>3. BurstBounded'
    <3>1. CASE \/ StartTick(r) \/ Crash(r) \/ FindLive(r) \/ FindFails(r) \/ InjectFails(r)
               \/ Record(r) \/ RecordFails(r) \/ EndTick(r)
               \/ (\E b \in Agents : Consider(r, b) \/ ConsiderFails(r, b))
               \/ (Create(r) /\ Taken(hand[r].a, hand[r].slot))
      <4>1. UNCHANGED <<fired, burst>>
        BY <3>1 DEF StartTick, Crash, FindLive, FindFails, InjectFails, Record, RecordFails,
                    EndTick, Consider, ConsiderFails, Create
      <4> QED BY <2>2, <4>1 DEF Begun
    <3>2. CASE Inject(r) \/ (Create(r) /\ ~Taken(hand[r].a, hand[r].slot))
      <4>1. hand[r].a \in Agents /\ hand[r].slot \in Times /\ Fire(hand[r].a, hand[r].slot)
        BY <1>t, <3>2, HandFields DEF Inject, Create
      <4>2. CASE hand[r].a \notin Workers \/ fired[hand[r].a][hand[r].slot] > 0
        BY <1>t, <2>2, <4>1, <4>2, FireAgain
      <4>3. CASE hand[r].a \in Workers /\ ~(fired[hand[r].a][hand[r].slot] > 0)
        <5>1. fired[hand[r].a][hand[r].slot] = 0
          BY <1>t, <4>1, <4>3, SchedulerAssumption DEF TypeOK
        <5>2. ~Inject(r) BY <4>3 DEF Inject, CalmInv, HeldInv, WakesAreOrchestrators, Workers
        <5> QED BY <1>t, <2>1, <3>2, <4>3, <5>1, <5>2, BoundMoves
      <4> QED BY <4>2, <4>3
    <3> QED BY <1>1, <3>1, <3>2 DEF Step
  <2> QED BY <1>t, <1>o, <2>1, <2>3 DEF CalmInv, HeldInv
<1>2. CASE TimePasses
  <2>1. now' = now + 1 /\ hand' = hand /\ burst' = [w \in Workers |-> 0]
    BY <1>2 DEF TimePasses
  <2>2. \A r \in Replicas : hand[r].step # "idle" => hand[r].at \in Nat /\ hand[r].at <= now
    BY <1>t, HandFields, SchedulerAssumption DEF CalmInv, HeldInv, HandsBegun, Times
  <2>3. HandsBegun' BY <1>n, <2>1, <2>2 DEF HandsBegun
  <2>4. TurnsTaken' BY <2>1 DEF CalmInv, HeldInv, TurnsTaken
  <2>5. DueHeld'
    <3> SUFFICES ASSUME NEW r \in Replicas, NEW a \in Workers,
                        Turn(r, a, {"create"}), hand[r].at = now + 1
                 PROVE  FALSE
      BY <2>1 DEF DueHeld, Turn
    <3> QED BY <1>n, <2>2 DEF Turn
  <2>6. BurstBounded'
    <3> SUFFICES ASSUME NEW a \in Workers
                 PROVE  burst'[a] + Cardinality(Stalled(a)') <=
                          Cardinality(Replicas) + Cardinality(Begun(a)' \cap Current(a)')
      BY <2>1 DEF BurstBounded
    <3>1. IsFiniteSet(Stalled(a)') /\ Cardinality(Stalled(a)') <= Cardinality(Replicas)
      BY FS_Subset DEF Stalled
    <3>2. IsFiniteSet(Begun(a)' \cap Current(a)')
      <4>1. IsFiniteSet(Times) BY FS_Interval, SchedulerAssumption DEF Times
      <4>2. Begun(a)' \subseteq Times BY DEF Begun
      <4> QED BY <4>1, <4>2, FS_Subset
    <3>3. burst'[a] = 0 BY <2>1
    <3>4. Cardinality(Stalled(a)') \in Nat /\ Cardinality(Replicas) \in Nat
          /\ Cardinality(Begun(a)' \cap Current(a)') \in Nat
      BY <3>1, <3>2, FS_CardinalityType
    <3> QED BY <3>1, <3>3, <3>4
  <2> QED BY <1>t, <1>o, <2>3, <2>4, <2>5, <2>6 DEF CalmInv, HeldInv
<1>3. ASSUME UNCHANGED <<now, fired, burst, hand>> PROVE CalmInv'
  BY <1>3, <1>t, <1>o DEF CalmInv, HeldInv, HandsBegun, TurnsTaken, DueHeld, BurstBounded,
                         Current, Stalled, Begun, Turn
<1>4. CASE UNCHANGED vars \/ \E a \in Agents : SessionEnds(a) \/ UserStarts(a) \/ DeleteRun(a)
                                             \/ EditSchedule(a)
  BY <1>3, <1>4 DEF vars, SessionEnds, UserStarts, DeleteRun, EditSchedule
<1> QED BY <1>1, <1>2, <1>4 DEF Next

(* Catch-up is bounded for any outage, any stall and any number of         *)
(* replicas, restarts, edits and deletions: at one instant two slots of a  *)
(* worker are started, and one more per stalled replica.                   *)
THEOREM NoStampedes ==
  ASSUME IsFiniteSet(Replicas)
  PROVE  Spec => []NoStampede
<1>1. Init => CalmInv
  <2> SUFFICES ASSUME Init PROVE CalmInv OBVIOUS
  <2>1. TypeOK BY InitInvariant DEF SInv
  <2>2. \A r \in Replicas : hand[r].step = "idle" BY DEF Init, Idle
  <2>3. HeldInv
    BY <2>1, <2>2 DEF HeldInv, WakesAreOrchestrators, HandsBegun, TurnsTaken, DueHeld, Turn, Serving
  <2>4. ASSUME NEW a \in Workers
        PROVE  burst[a] + Cardinality(Stalled(a)) <=
                 Cardinality(Replicas) + Cardinality(Begun(a) \cap Current(a))
    <3>1. burst[a] = 0 /\ Stalled(a) = {} /\ Begun(a) \cap Current(a) = {}
      BY <2>2, <2>4 DEF Init, Stalled, Begun, Workers
    <3>2. Cardinality({}) = 0 /\ Cardinality(Replicas) \in Nat BY FS_EmptySet, FS_CardinalityType
    <3> QED BY <3>1, <3>2
  <2> QED BY <2>3, <2>4 DEF CalmInv, BurstBounded
<1>2. CalmInv /\ [Next]_vars => CalmInv' BY CalmStep
<1>3. CalmInv => NoStampede
  <2> SUFFICES ASSUME CalmInv, NEW a \in Workers PROVE burst[a] <= 2 + Cardinality(Replicas)
    BY DEF NoStampede
  <2>t. TypeOK /\ a \in Agents BY DEF CalmInv, HeldInv, Workers
  <2>1. IsFiniteSet(Begun(a) \cap Current(a)) /\ Cardinality(Begun(a) \cap Current(a)) <= 2
    BY <2>t, CurrentIsTwo
  <2>2. IsFiniteSet(Stalled(a)) BY FS_Subset DEF Stalled
  <2>3. /\ Cardinality(Stalled(a)) \in Nat /\ Cardinality(Replicas) \in Nat
        /\ Cardinality(Begun(a) \cap Current(a)) \in Nat
    BY <2>1, <2>2, FS_CardinalityType
  <2>4. burst[a] \in Nat BY <2>t DEF TypeOK
  <2>5. burst[a] + Cardinality(Stalled(a)) <=
          Cardinality(Replicas) + Cardinality(Begun(a) \cap Current(a))
    BY DEF CalmInv, BurstBounded
  <2> QED BY <2>1, <2>3, <2>4, <2>5
<1> QED BY <1>1, <1>2, <1>3, PTL DEF Spec
-----------------------------------------------------------------------------
(* Nothing early.  A tick's clock is read before it is used, and a slot is *)
(* taken on only when that clock has reached it; so the slots that are     *)
(* held, started and recorded have come.                                   *)
HandDue(r) ==
  LET h == hand[r] IN
    /\ h.step # "idle" => h.at <= now
    /\ h.step \in Serving => h.slot <= now /\ (h.step # "record" => IsSlot(h.a, h.slot))
HandsDue == \A r \in Replicas : HandDue(r)

EarlyInv == TypeOK /\ HandsDue /\ NeverEarly

(* The slot that an agent is taken on for has come by the tick's clock.    *)
LEMMA ConsiderDue ==
  ASSUME TypeOK, HandsDue, NEW r \in Replicas, NEW b \in Agents, Consider(r, b)
  PROVE  HandDue(r)'
<1> DEFINE h   == hand[r]
           due == NextDue[b][Anchor(b, h.ticks[b])]
<1>1. h.step = "scan" /\ h.at \in Nat /\ h.at \in Times /\ h.ticks \in [Orchestrators -> Times]
  BY HandFields, SchedulerAssumption DEF Consider, Times
<1>2. h.at <= now /\ now' = now BY <1>1 DEF HandsDue, HandDue, Consider
<1>3. \/ hand'[r] = Scan(h.todo \ {b}, h.at, h.ticks)
      \/ hand'[r] = On(h, "record", b, h.at)
      \/ /\ ~(due > h.at)
         /\ hand'[r] = On(h, IF IsOrchestrator(b) THEN "find" ELSE "create", b, due)
  BY DEF Consider, TypeOK
<1>4. CASE hand'[r] = Scan(h.todo \ {b}, h.at, h.ticks)
  BY <1>2, <1>4 DEF Scan, HandDue, Serving
<1>5. CASE hand'[r] = On(h, "record", b, h.at)
  BY <1>2, <1>5 DEF On, HandDue, Serving
<1>6. CASE /\ ~(due > h.at)
           /\ hand'[r] = On(h, IF IsOrchestrator(b) THEN "find" ELSE "create", b, due)
  <2>1. Anchor(b, h.ticks[b]) \in Times BY <1>1, LastRunIsTime DEF Anchor, IsOrchestrator
  <2>2. due \in Nat /\ Anchor(b, h.ticks[b]) < due BY <2>1, SchedulerAssumption
  <2>3. IsSlot(b, due) BY <2>1, <2>2 DEF IsSlot
  <2>4. now \in Nat BY SchedulerAssumption DEF TypeOK, Times
  <2>5. due <= now BY <1>1, <1>2, <1>6, <2>2, <2>4
  <2> HIDE DEF due, h
  <2>6. /\ hand'[r].step \in {"find", "create"} /\ hand'[r].a = b /\ hand'[r].slot = due
        /\ hand'[r].at = h.at
    BY <1>6 DEF On
  <2> QED BY <1>2, <2>3, <2>5, <2>6 DEF HandDue, Serving, IsSlot
<1> QED BY <1>3, <1>4, <1>5, <1>6

LEMMA HandDueStep ==
  ASSUME TypeOK, HandsDue, NEW r \in Replicas, StartTick(r) \/ Step(r) \/ Crash(r)
  PROVE  HandsDue'
<1>1. now' = now /\ \A q \in Replicas : q # r => hand'[q] = hand[q]
  BY DEF StartTick, Step, Crash, Consider, ConsiderFails, FindLive, FindFails, Inject,
         InjectFails, Create, Record, RecordFails, EndTick, TypeOK
<1>2. \A a, s : IsSlot(a, s)' <=> IsSlot(a, s) BY DEF IsSlot
<1>3. HandDue(r) BY DEF HandsDue
<1>4. ASSUME StartTick(r) PROVE HandDue(r)'
  <2>1. hand'[r] = Scan(Agents, now, tick) BY <1>4 DEF StartTick, TypeOK
  <2>2. now <= now BY SchedulerAssumption DEF TypeOK, Times
  <2> QED BY <1>1, <2>1, <2>2 DEF Scan, HandDue, Serving
<1>5. ASSUME EndTick(r) \/ Crash(r) PROVE HandDue(r)'
  <2>1. hand'[r] = Idle BY <1>5 DEF EndTick, Crash, TypeOK
  <2> QED BY <2>1 DEF Idle, HandDue, Serving
<1>6. ASSUME hand[r].step \in Serving, hand'[r] = BackToScan(hand[r]) PROVE HandDue(r)'
  BY <1>1, <1>3, <1>6 DEF BackToScan, Scan, HandDue, Serving
<1>7. ASSUME hand[r].step \in Serving, hand[r].step # "record", NEW step \in Serving,
             hand' = [hand EXCEPT ![r].step = step]
      PROVE  HandDue(r)'
  <2>1. /\ hand'[r].step = step /\ hand'[r].a = hand[r].a /\ hand'[r].slot = hand[r].slot
        /\ hand'[r].at = hand[r].at
    BY <1>7, TurnGoesOn
  <2> QED BY <1>1, <1>2, <1>3, <1>7, <2>1 DEF HandDue, Serving
<1>8. ASSUME FindLive(r) PROVE HandDue(r)'
  <2>1. PICK step \in {"inject", "create"} : hand' = [hand EXCEPT ![r].step = step]
    BY <1>8 DEF FindLive
  <2> QED BY <1>7, <1>8, <2>1 DEF FindLive, Serving
<1>9. ASSUME Inject(r) \/ (Create(r) /\ ~Taken(hand[r].a, hand[r].slot)) PROVE HandDue(r)'
  BY <1>7, <1>9 DEF Inject, Create, Serving
<1>10. ASSUME \/ FindFails(r) \/ InjectFails(r) \/ Record(r) \/ RecordFails(r)
              \/ (Create(r) /\ Taken(hand[r].a, hand[r].slot))
       PROVE  HandDue(r)'
  BY <1>6, <1>10 DEF FindFails, InjectFails, Record, RecordFails, Create, Serving, TypeOK
<1>13. ASSUME NEW b \in Agents, ConsiderFails(r, b) PROVE HandDue(r)'
  BY <1>1, <1>3, <1>13, ScanGoesOn DEF HandDue, Serving
<1>11. HandDue(r)' BY <1>4, <1>5, <1>8, <1>9, <1>10, <1>13, ConsiderDue DEF Step
<1>12. ASSUME NEW q \in Replicas, q # r PROVE HandDue(q)'
  BY <1>1, <1>2, <1>12 DEF HandsDue, HandDue
<1> QED BY <1>11, <1>12 DEF HandsDue

LEMMA EarlyStep == EarlyInv /\ [Next]_vars => EarlyInv'
<1> SUFFICES ASSUME EarlyInv, [Next]_vars PROVE EarlyInv' OBVIOUS
<1>t. TypeOK /\ TypeOK' BY TypeStep DEF EarlyInv
<1>n. now \in Nat /\ now' \in Nat /\ now <= now' /\ tick \in [Orchestrators -> Nat]
  <2>1. now \in Nat /\ now' \in Nat /\ tick \in [Orchestrators -> Nat]
    BY <1>t, SchedulerAssumption DEF TypeOK, Times
  <2>2. now' = now \/ now' = now + 1
    BY DEF Next, StartTick, Step, Crash, Consider, ConsiderFails, FindLive, FindFails, Inject,
           InjectFails, Create, Record, RecordFails, EndTick, TimePasses, SessionEnds, UserStarts,
           DeleteRun, EditSchedule, vars
  <2> QED BY <2>1, <2>2
<1>1. \A a, s : IsSlot(a, s)' <=> IsSlot(a, s) BY DEF IsSlot
<1>2. ASSUME \A a \in Orchestrators : tick'[a] = tick[a] \/ tick'[a] <= now',
             \A a \in Agents, s \in Times : fired'[a][s] > 0 =>
               fired[a][s] > 0 \/ (IsSlot(a, s) /\ s <= now')
      PROVE  NeverEarly'
  <2>1. \A s \in Times : s \in Nat BY SchedulerAssumption DEF Times
  <2> QED BY <1>n, <1>1, <1>2, <2>1 DEF EarlyInv, NeverEarly
<1>3. ASSUME NEW r \in Replicas, Inject(r) \/ Create(r) PROVE NeverEarly'
  <2>1. /\ hand[r].a \in Agents /\ hand[r].slot \in Times
        /\ IsSlot(hand[r].a, hand[r].slot) /\ hand[r].slot <= now
    BY <1>3, <1>t, HandFields DEF EarlyInv, HandsDue, HandDue, Inject, Create, Serving
  <2>2. tick' = tick /\ now' = now /\ (fired' = fired \/ Fire(hand[r].a, hand[r].slot))
    BY <1>3 DEF Inject, Create
  <2>3. \A a \in Agents, s \in Times :
          fired'[a][s] = fired[a][s] \/ (a = hand[r].a /\ s = hand[r].slot)
    BY <1>t, <2>1, <2>2 DEF Fire, TypeOK
  <2> QED BY <1>2, <2>1, <2>2, <2>3
<1>4. ASSUME NEW r \in Replicas, Record(r) PROVE NeverEarly'
  <2>1. hand[r].slot <= now BY <1>4 DEF EarlyInv, HandsDue, HandDue, Record, Serving
  <2>2. /\ fired' = fired /\ now' = now
        /\ \A a \in Orchestrators : tick'[a] = tick[a] \/ tick'[a] = hand[r].slot
    BY <1>4, <1>t, StampWrites DEF Record, Recorded
  <2> QED BY <1>2, <2>1, <2>2
<1>5. ASSUME NEW b \in Agents, EditSchedule(b) PROVE NeverEarly'
  <2>1. /\ fired' = fired /\ now' = now
        /\ \A a \in Orchestrators : tick'[a] = tick[a] \/ tick'[a] = now
    BY <1>5, <1>t, StampWrites DEF EditSchedule
  <2> QED BY <1>n, <1>2, <2>1
<1>6. ASSUME tick' = tick, fired' = fired PROVE NeverEarly'
  BY <1>2, <1>6
<1>7. ASSUME NEW r \in Replicas, StartTick(r) \/ Step(r) \/ Crash(r) PROVE NeverEarly' /\ HandsDue'
  <2>1. HandsDue' BY <1>7, <1>t, HandDueStep DEF EarlyInv
  <2>2. Inject(r) \/ Create(r) \/ Record(r) \/ (tick' = tick /\ fired' = fired)
    BY <1>7 DEF StartTick, Step, Crash, Consider, ConsiderFails, FindLive, FindFails, InjectFails,
                RecordFails, EndTick
  <2> QED BY <1>3, <1>4, <1>6, <2>1, <2>2
<1>8. ASSUME hand' = hand PROVE HandsDue'
  <2> SUFFICES ASSUME NEW r \in Replicas PROVE HandDue(r)' BY DEF HandsDue
  <2>1. HandDue(r) BY DEF EarlyInv, HandsDue
  <2>2. /\ hand[r].step # "idle" => hand[r].at \in Nat
        /\ hand[r].step \in Serving => hand[r].slot \in Nat
    BY <1>t, HandFields, SchedulerAssumption DEF Serving, Times
  <2>3. hand[r].step \in Serving => hand[r].step # "idle" BY DEF Serving
  <2> QED BY <1>n, <1>1, <1>8, <2>1, <2>2, <2>3 DEF HandDue
<1>9. CASE TimePasses
  BY <1>6, <1>8, <1>9, <1>t DEF TimePasses, EarlyInv
<1>10. ASSUME NEW a \in Agents, SessionEnds(a) \/ UserStarts(a) \/ DeleteRun(a)
       PROVE  EarlyInv'
  BY <1>6, <1>8, <1>10, <1>t DEF SessionEnds, UserStarts, DeleteRun, EarlyInv
<1>11. ASSUME NEW a \in Agents, EditSchedule(a) PROVE EarlyInv'
  BY <1>5, <1>8, <1>11, <1>t DEF EditSchedule, EarlyInv
<1>12. CASE UNCHANGED vars BY <1>6, <1>8, <1>12, <1>t DEF vars, EarlyInv
<1> QED BY <1>t, <1>7, <1>9, <1>10, <1>11, <1>12 DEF Next, EarlyInv

LEMMA InitEarly == Init => EarlyInv
<1> SUFFICES ASSUME Init PROVE EarlyInv OBVIOUS
<1>1. TypeOK BY InitInvariant DEF SInv
<1>2. \A r \in Replicas : hand[r].step = "idle" BY DEF Init, Idle
<1>3. NeverEarly BY SchedulerAssumption DEF Init, NeverEarly
<1> QED BY <1>1, <1>2, <1>3 DEF EarlyInv, HandsDue, HandDue, Serving

(* For every schedule, number of replicas, outage and edit: a wake or a    *)
(* run is started for a slot of the schedule that has come, and no tick is *)
(* recorded ahead of the clock, although clock, agents and rows were read  *)
(* any time before.                                                        *)
THEOREM NothingEarly == Spec => []NeverEarly
<1>1. EarlyInv => NeverEarly BY DEF EarlyInv
<1> QED BY InitEarly, EarlyStep, <1>1, PTL DEF Spec
-----------------------------------------------------------------------------
(* One replica.  What an orchestrator was woken for lies up to the tick it *)
(* is reckoned from (Within): the one read with the agents until its turn  *)
(* comes, the recorded one outside its turns.  Only the slot after that    *)
(* tick may have been started too, and then its record was lost.           *)
Within(a, x) ==
  \A s \in Begun(a) : s <= x \/ (s = NextDue[a][x] /\ s \in unrecorded[a])

Wary(r, a) ==
  LET h == hand[r] IN
    /\ unrecorded[a] \subseteq Begun(a)
    /\ ~Turn(r, a, {"record"}) => Within(a, tick[a])
    /\ h.step # "idle" /\ a \in h.todo =>
         Within(a, h.ticks[a]) /\ (tick[a] = h.ticks[a] \/ h.at <= tick[a])
    /\ Turn(r, a, Serving) =>
         a \notin h.todo /\ (h.slot <= tick[a] \/ h.slot = NextDue[a][tick[a]])
    /\ Turn(r, a, {"find", "inject", "create"}) =>
         \A s \in Begun(a) : s < h.slot \/ (s = h.slot /\ s \in unrecorded[a])
    /\ Turn(r, a, {"record"}) =>
         h.slot \in Begun(a) /\ \A s \in Begun(a) : s <= h.slot /\ (s <= tick[a] \/ s = h.slot)

AloneInv(r) == SInv /\ EarlyInv /\ \A a \in Orchestrators : Wary(r, a)

(* The numbers that the one replica compares.                              *)
LEMMA AloneNumbers ==
  ASSUME NEW r \in Replicas, AloneInv(r), NEW a \in Orchestrators
  PROVE  /\ TypeOK /\ a \in Agents /\ Wary(r, a)
         /\ now \in Nat /\ tick[a] \in Times /\ tick[a] \in Nat /\ tick[a] <= now
         /\ Times \subseteq Nat /\ \A t \in Times : NextDue[a][t] \in Nat /\ NextDue[a][t] > t
         /\ \A s \in Begun(a) : s \in Times /\ s <= now
         /\ hand[r].step # "idle" =>
              /\ hand[r].at \in Nat /\ hand[r].at <= now
              /\ hand[r].ticks[a] \in Times
         /\ hand[r].step \in Serving =>
              hand[r].slot \in Times /\ hand[r].a \in Agents /\ hand[r].slot <= now
<1>1. TypeOK /\ a \in Agents /\ Wary(r, a) BY SchedulerAssumption DEF AloneInv, SInv
<1>2. Times \subseteq Nat BY SchedulerAssumption DEF Times
<1>3. now \in Nat /\ tick[a] \in Times /\ tick[a] \in Nat BY <1>1, <1>2 DEF TypeOK
<1>4. \A t \in Times : NextDue[a][t] \in Nat /\ NextDue[a][t] > t BY <1>1, SchedulerAssumption
<1>5. tick[a] <= now /\ \A s \in Begun(a) : s \in Times /\ s <= now
  BY <1>1 DEF AloneInv, EarlyInv, NeverEarly, Begun
<1>6. HandDue(r) BY DEF AloneInv, EarlyInv, HandsDue
<1>7. hand[r].step # "idle" =>
        hand[r].at \in Nat /\ hand[r].at <= now /\ hand[r].ticks[a] \in Times
  BY <1>1, <1>2, <1>6, HandFields DEF HandDue
<1>8. hand[r].step \in Serving =>
        hand[r].slot \in Times /\ hand[r].a \in Agents /\ hand[r].slot <= now
  BY <1>1, <1>6, HandFields DEF HandDue, Serving
<1> QED BY <1>1, <1>2, <1>3, <1>4, <1>5, <1>7, <1>8

(* The turn ends, or the tick does, and nothing was started in it.         *)
LEMMA TurnEnds ==
  ASSUME NEW r \in Replicas, NEW a \in Orchestrators, Wary(r, a), ~Turn(r, a, {"record"}),
         UNCHANGED <<tick, fired, unrecorded>>,
         hand'[r].step \in {"idle", "scan"},
         hand'[r].step = "scan" =>
           /\ hand[r].step # "idle" /\ hand'[r].at = hand[r].at
           /\ hand'[r].todo \subseteq hand[r].todo /\ hand'[r].ticks = hand[r].ticks
  PROVE  Wary(r, a)'
<1>1. /\ ~Turn(r, a, {"record"})' /\ ~Turn(r, a, Serving)'
      /\ ~Turn(r, a, {"find", "inject", "create"})'
  BY DEF Turn, Serving
<1>2. Begun(a)' = Begun(a) BY DEF Begun
<1>3. \A x, y : x = y => (Within(a, x)' <=> Within(a, y)) BY <1>2 DEF Within
<1>4. Within(a, tick[a])' BY DEF Wary, Within, Begun
<1>5. hand'[r].step # "idle" /\ a \in hand'[r].todo =>
        /\ Within(a, hand[r].ticks[a])'
        /\ tick'[a] = hand'[r].ticks[a] \/ hand'[r].at <= tick'[a]
  BY <1>2 DEF Wary, Within
<1> QED BY <1>1, <1>2, <1>4, <1>5 DEF Wary

(* The slot in hand is started: the first time, or again where the record  *)
(* of its last start was lost.                                             *)
LEMMA SlotServed ==
  ASSUME NEW r \in Replicas, AloneInv(r), hand[r].step \in {"inject", "create"},
         Fire(hand[r].a, hand[r].slot), hand' = [hand EXCEPT ![r].step = "record"],
         UNCHANGED <<now, tick>>, NEW a \in Orchestrators
  PROVE  Wary(r, a)'
<1> DEFINE h == hand[r]
<1>t. TypeOK /\ a \in Agents /\ Wary(r, a) BY AloneNumbers
<1>1. h.a \in Agents /\ h.slot \in Times /\ h.step \in Serving
  BY <1>t, HandFields DEF Serving
<1>2. /\ hand'[r].step = "record" /\ hand'[r].a = h.a /\ hand'[r].slot = h.slot
      /\ hand'[r].todo = h.todo /\ hand'[r].at = h.at /\ hand'[r].ticks = h.ticks
  BY <1>1, <1>t, TurnGoesOn
<1>3. \A s \in Times : a # h.a \/ s # h.slot => fired'[a][s] = fired[a][s]
  BY <1>1, <1>t DEF Fire, TypeOK
<1>4. unrecorded'[a] = unrecorded[a] \ (IF a = h.a THEN {h.slot} ELSE {}) BY DEF Fire
<1> HIDE DEF h
<1>5. CASE a # h.a
  <2>1. Begun(a)' = Begun(a) /\ unrecorded'[a] = unrecorded[a] BY <1>3, <1>4, <1>5 DEF Begun
  <2>2. \A steps : ~Turn(r, a, steps) /\ ~Turn(r, a, steps)' BY <1>2, <1>5 DEF Turn, h
  <2>3. Within(a, tick[a])' BY <1>t, <2>1, <2>2 DEF Wary, Within
  <2>4. a \in h.todo => Within(a, h.ticks[a])' /\ (tick'[a] = h.ticks[a] \/ h.at <= tick'[a])
    BY <1>1, <1>t, <2>1 DEF Wary, Within, Serving, h
  <2>5. /\ ~Turn(r, a, {"record"})' /\ ~Turn(r, a, Serving)'
        /\ ~Turn(r, a, {"find", "inject", "create"})'
    BY <1>2, <1>5 DEF Turn
  <2>6. unrecorded'[a] \subseteq Begun(a)' BY <1>t, <2>1 DEF Wary
  <2>7. hand'[r].step # "idle" /\ a \in hand'[r].todo =>
          Within(a, hand[r].ticks[a])' /\ (tick'[a] = hand'[r].ticks[a] \/ hand'[r].at <= tick'[a])
    BY <1>2, <2>4 DEF h
  <2> QED BY <2>3, <2>5, <2>6, <2>7 DEF Wary
<1>6. CASE a = h.a
  <2>1. fired'[a][h.slot] > 0 BY <1>1, <1>6, <1>t, FireCounts DEF h
  <2>2. Begun(a)' = Begun(a) \cup {h.slot} BY <1>1, <1>3, <2>1 DEF Begun
  <2>3. /\ unrecorded[a] \subseteq Begun(a) /\ Within(a, tick[a])
        /\ a \notin h.todo /\ (h.slot <= tick[a] \/ h.slot = NextDue[a][tick[a]])
        /\ \A s \in Begun(a) : s < h.slot \/ (s = h.slot /\ s \in unrecorded[a])
    BY <1>1, <1>6, <1>t DEF Wary, Turn, Serving, h
  <2>4. /\ tick[a] \in Nat /\ NextDue[a][tick[a]] \in Nat /\ NextDue[a][tick[a]] > tick[a]
        /\ h.slot \in Nat /\ \A s \in Begun(a) : s \in Nat
    BY <1>1, AloneNumbers
  <2>5. \A s \in Begun(a) : s <= tick[a] \/ s = h.slot
    BY <2>3, <2>4 DEF Within
  <2>6. \A s \in Begun(a)' : s <= h.slot /\ (s <= tick[a] \/ s = h.slot)
    BY <2>2, <2>3, <2>4, <2>5
  <2>7. ~Turn(r, a, {"find", "inject", "create"})' BY <1>2 DEF Turn
  <2>8. unrecorded'[a] \subseteq Begun(a)' /\ h.slot \in Begun(a)' BY <1>4, <2>2, <2>3
  <2>9. Turn(r, a, {"record"})' BY <1>2, <1>6 DEF Turn
  <2> QED BY <1>2, <2>3, <2>6, <2>7, <2>8, <2>9 DEF Wary
<1> QED BY <1>5, <1>6

(* A start that lost its record leaves the slot after the tick marked.     *)
LEMMA RecordLost ==
  ASSUME NEW r \in Replicas, AloneInv(r), NEW a \in Orchestrators,
         UNCHANGED <<tick, fired>>, Unrecord(hand[r]), hand[r].step = "record",
         hand'[r].step \in {"idle", "scan"},
         hand'[r].step = "scan" =>
           /\ hand'[r].at = hand[r].at /\ hand'[r].todo = hand[r].todo
           /\ hand'[r].ticks = hand[r].ticks
  PROVE  Wary(r, a)'
<1>t. Wary(r, a) BY AloneNumbers
<1>1. /\ ~Turn(r, a, {"record"})' /\ ~Turn(r, a, Serving)'
      /\ ~Turn(r, a, {"find", "inject", "create"})'
  BY DEF Turn, Serving
<1>2. Begun(a)' = Begun(a) BY DEF Begun
<1>3. unrecorded'[a] = unrecorded[a] \cup (IF a = hand[r].a THEN {hand[r].slot} ELSE {})
  BY DEF Unrecord
<1>4. CASE a # hand[r].a
  <2>1. unrecorded'[a] = unrecorded[a] /\ ~Turn(r, a, {"record"}) BY <1>3, <1>4 DEF Turn
  <2>2. Within(a, tick[a])' BY <1>2, <1>t, <2>1 DEF Wary, Within
  <2>3. hand'[r].step # "idle" /\ a \in hand'[r].todo =>
          Within(a, hand[r].ticks[a])' /\ (tick'[a] = hand'[r].ticks[a] \/ hand'[r].at <= tick'[a])
    BY <1>2, <1>t, <2>1 DEF Wary, Within
  <2> QED BY <1>1, <1>2, <1>t, <2>1, <2>2, <2>3 DEF Wary
<1>5. CASE a = hand[r].a
  <2> DEFINE slot == hand[r].slot
  <2>1. /\ a \notin hand[r].todo /\ (slot <= tick[a] \/ slot = NextDue[a][tick[a]])
        /\ slot \in Begun(a) /\ \A s \in Begun(a) : s <= tick[a] \/ s = slot
        /\ unrecorded[a] \subseteq Begun(a)
    BY <1>5, <1>t DEF Wary, Turn, Serving
  <2>2. Within(a, tick[a])' BY <1>2, <1>3, <1>5, <2>1 DEF Within
  <2>3. unrecorded'[a] \subseteq Begun(a)' BY <1>2, <1>3, <1>5, <2>1
  <2> QED BY <1>1, <2>1, <2>2, <2>3 DEF Wary
<1> QED BY <1>4, <1>5

(* The agent whose turn it is was reckoned from the tick that was read.    *)
LEMMA TurnBegins ==
  ASSUME NEW r \in Replicas, AloneInv(r), NEW b \in Agents, Consider(r, b),
         NEW a \in Orchestrators
  PROVE  Wary(r, a)'
<1> DEFINE h   == hand[r]
           due == NextDue[b][Anchor(b, h.ticks[b])]
<1>t. TypeOK /\ Wary(r, a) BY AloneNumbers
<1>1. h.step = "scan" /\ b \in h.todo /\ UNCHANGED <<tick, fired, unrecorded>> BY DEF Consider
<1>2. Begun(a)' = Begun(a) BY <1>1 DEF Begun
<1>3. /\ ~Turn(r, a, {"record"}) /\ Within(a, tick[a])
      /\ a \in h.todo => Within(a, h.ticks[a]) /\ (tick[a] = h.ticks[a] \/ h.at <= tick[a])
  BY <1>1, <1>t DEF Wary, Turn
<1>4. \A x : Within(a, x)' <=> Within(a, x) BY <1>1, <1>2 DEF Within
<1>5. \/ hand'[r] = Scan(h.todo \ {b}, h.at, h.ticks)
      \/ hand'[r] = On(h, "record", b, h.at) /\ b \notin Orchestrators
      \/ ~(due > h.at) /\ hand'[r] = On(h, IF IsOrchestrator(b) THEN "find" ELSE "create", b, due)
  BY <1>t DEF Consider, Missed, IsOrchestrator, TypeOK
<1>6. CASE hand'[r] = Scan(h.todo \ {b}, h.at, h.ticks)
  <2>1. /\ hand'[r].step = "scan" /\ hand'[r].at = h.at /\ hand'[r].ticks = h.ticks
        /\ hand'[r].todo \subseteq h.todo
    BY <1>6 DEF Scan
  <2> QED BY <1>1, <1>3, <1>t, <2>1, TurnEnds
<1>7. ASSUME NEW step \in Serving, NEW slot, hand'[r] = On(h, step, b, slot),
             a = b => /\ step = "find" /\ (slot <= tick[a] \/ slot = NextDue[a][tick[a]])
                      /\ \A s \in Begun(a) : s < slot \/ (s = slot /\ s \in unrecorded[a])
      PROVE  Wary(r, a)'
  <2>1. /\ hand'[r].step = step /\ hand'[r].a = b /\ hand'[r].slot = slot
        /\ hand'[r].todo = h.todo \ {b} /\ hand'[r].at = h.at /\ hand'[r].ticks = h.ticks
    BY <1>7 DEF On
  <2>2. ~Turn(r, a, {"record"})' BY <1>7, <2>1 DEF Turn
  <2>3. Within(a, tick[a])' /\ unrecorded'[a] \subseteq Begun(a)'
    BY <1>1, <1>2, <1>3, <1>t DEF Wary, Within
  <2>4. a \in hand'[r].todo =>
          Within(a, h.ticks[a])' /\ (tick'[a] = hand'[r].ticks[a] \/ hand'[r].at <= tick'[a])
    BY <1>1, <1>2, <1>3, <2>1 DEF Within
  <2>5. Turn(r, a, Serving)' =>
          a \notin hand'[r].todo /\ (slot <= tick'[a] \/ slot = NextDue[a][tick'[a]])
    BY <1>1, <1>7, <2>1 DEF Turn
  <2>6. Turn(r, a, {"find", "inject", "create"})' =>
          \A s \in Begun(a)' : s < slot \/ (s = slot /\ s \in unrecorded'[a])
    BY <1>1, <1>2, <1>7, <2>1 DEF Turn
  <2> QED BY <2>1, <2>2, <2>3, <2>4, <2>5, <2>6 DEF Wary
<1>8. CASE hand'[r] = On(h, "record", b, h.at) /\ b \notin Orchestrators
  BY <1>7, <1>8 DEF Serving
<1>9. CASE ~(due > h.at) /\ hand'[r] = On(h, IF IsOrchestrator(b) THEN "find" ELSE "create", b, due)
  <2>1. ASSUME a = b
        PROVE  /\ IsOrchestrator(b) /\ (due <= tick[a] \/ due = NextDue[a][tick[a]])
               /\ \A s \in Begun(a) : s < due \/ (s = due /\ s \in unrecorded[a])
    <3>1. IsOrchestrator(b) /\ due = NextDue[a][h.ticks[a]] BY <2>1 DEF Anchor, IsOrchestrator
    <3>2. /\ h.ticks[a] \in Nat /\ tick[a] \in Nat /\ h.at \in Nat
          /\ NextDue[a][h.ticks[a]] \in Nat /\ NextDue[a][h.ticks[a]] > h.ticks[a]
          /\ \A s \in Begun(a) : s \in Nat
      BY <1>1, AloneNumbers
    <3>3. Within(a, h.ticks[a]) /\ (tick[a] = h.ticks[a] \/ h.at <= tick[a])
      BY <1>1, <1>3, <2>1
    <3> HIDE DEF due, h
    <3>4. due <= tick[a] \/ due = NextDue[a][tick[a]] BY <1>9, <3>1, <3>2, <3>3
    <3>5. \A s \in Begun(a) : s < due \/ (s = due /\ s \in unrecorded[a])
      BY <3>1, <3>2, <3>3 DEF Within
    <3> QED BY <3>1, <3>4, <3>5
  <2> HIDE DEF due
  <2> QED BY <1>7, <1>9, <2>1 DEF Serving
<1> QED BY <1>5, <1>6, <1>8, <1>9

(* Every step of the only replica, and every step around it.               *)
LEMMA AloneStep ==
  ASSUME NEW r \in Replicas, Replicas = {r}, AloneInv(r), [Next]_vars
  PROVE  AloneInv(r)'
<1> SUFFICES ASSUME NEW a \in Orchestrators PROVE Wary(r, a)'
  BY StepInvariant, EarlyStep DEF AloneInv
<1>t. TypeOK /\ a \in Agents /\ Wary(r, a) BY AloneNumbers
<1>1. CASE StartTick(r)
  <2>1. hand[r] = Idle /\ hand'[r] = Scan(Agents, now, tick) /\ UNCHANGED <<tick, fired, unrecorded>>
    BY <1>1, <1>t DEF StartTick, TypeOK
  <2>2. hand[r].step = "idle" BY <2>1 DEF Idle
  <2>3. hand'[r].step = "scan" /\ hand'[r].ticks = tick BY <2>1 DEF Scan
  <2>4. Within(a, tick[a]) /\ unrecorded[a] \subseteq Begun(a) BY <1>t, <2>2 DEF Wary, Turn
  <2>5. Within(a, tick[a])' /\ unrecorded'[a] \subseteq Begun(a)'
    BY <2>1, <2>4 DEF Within, Begun
  <2>6. Within(a, hand[r].ticks[a])' /\ tick'[a] = hand'[r].ticks[a]
    BY <2>1, <2>3, <2>5 DEF Within
  <2> QED BY <2>3, <2>5, <2>6 DEF Wary, Turn, Serving
<1>2. ASSUME NEW b \in Agents, Consider(r, b) PROVE Wary(r, a)'
  BY <1>2, TurnBegins
<1>3. CASE FindLive(r)
  <2>1. hand[r].step = "find" /\ UNCHANGED <<tick, fired, unrecorded>> BY <1>3 DEF FindLive
  <2>2. PICK step \in {"inject", "create"} : hand' = [hand EXCEPT ![r].step = step]
    BY <1>3 DEF FindLive
  <2>3. /\ hand'[r].step = step /\ hand'[r].a = hand[r].a /\ hand'[r].slot = hand[r].slot
        /\ hand'[r].todo = hand[r].todo /\ hand'[r].at = hand[r].at
        /\ hand'[r].ticks = hand[r].ticks
    BY <1>t, <2>1, <2>2, TurnGoesOn DEF Serving
  <2>4. Begun(a)' = Begun(a) BY <2>1 DEF Begun
  <2> QED BY <1>t, <2>1, <2>3, <2>4 DEF Wary, Turn, Within, Serving
<1>4. CASE Inject(r) \/ (Create(r) /\ ~Taken(hand[r].a, hand[r].slot))
  BY <1>4, SlotServed DEF Inject, Create
<1>5. CASE FindFails(r) \/ InjectFails(r) \/ (Create(r) /\ Taken(hand[r].a, hand[r].slot))
  <2>1. /\ hand[r].step \in {"find", "inject", "create"} /\ hand'[r] = BackToScan(hand[r])
        /\ UNCHANGED <<tick, fired, unrecorded>>
    BY <1>5, <1>t DEF FindFails, InjectFails, Create, TypeOK
  <2>2. /\ hand'[r].step = "scan" /\ hand'[r].at = hand[r].at /\ hand'[r].ticks = hand[r].ticks
        /\ hand'[r].todo = hand[r].todo
    BY <2>1 DEF BackToScan, Scan
  <2>3. ~Turn(r, a, {"record"}) /\ hand[r].step # "idle" BY <2>1 DEF Turn
  <2> QED BY <1>t, <2>1, <2>2, <2>3, TurnEnds
<1>6. CASE EndTick(r) \/ (Crash(r) /\ hand[r].step # "record")
  <2>1. hand[r].step # "record" /\ hand'[r].step = "idle" /\ UNCHANGED <<tick, fired>>
    BY <1>6, <1>t DEF EndTick, Crash, Idle, TypeOK
  <2>2. unrecorded' = unrecorded
    BY <1>6, <1>t, <2>1 DEF EndTick, Crash, Unrecord, TypeOK
  <2>3. ~Turn(r, a, {"record"}) BY <2>1 DEF Turn
  <2> QED BY <1>t, <2>1, <2>2, <2>3, TurnEnds
<1>7. CASE RecordFails(r) \/ (Crash(r) /\ hand[r].step = "record")
  <2>1. hand'[r] = BackToScan(hand[r]) \/ hand'[r] = Idle
    BY <1>7, <1>t DEF RecordFails, Crash, TypeOK
  <2>2. /\ hand'[r].step \in {"idle", "scan"}
        /\ hand'[r].step = "scan" =>
             /\ hand'[r].at = hand[r].at /\ hand'[r].todo = hand[r].todo
             /\ hand'[r].ticks = hand[r].ticks
    BY <2>1 DEF BackToScan, Scan, Idle
  <2> QED BY <1>7, <2>2, RecordLost DEF RecordFails, Crash
<1>8. CASE Record(r)
  <2> DEFINE h == hand[r]
  <2>1. /\ h.step = "record" /\ hand'[r] = BackToScan(h) /\ UNCHANGED <<fired, unrecorded>>
        /\ Stamp(h.a, h.slot)
    BY <1>8, <1>t DEF Record, Recorded, TypeOK
  <2>2. /\ hand'[r].step = "scan" /\ hand'[r].at = h.at /\ hand'[r].ticks = h.ticks
        /\ hand'[r].todo = h.todo
    BY <2>1 DEF BackToScan, Scan
  <2>3. tick'[a] = IF a = h.a THEN h.slot ELSE tick[a] BY <1>t, <2>1, StampWrites
  <2>4. Begun(a)' = Begun(a) BY <2>1 DEF Begun
  <2>5. /\ ~Turn(r, a, {"record"})' /\ ~Turn(r, a, Serving)'
        /\ ~Turn(r, a, {"find", "inject", "create"})'
    BY <2>2 DEF Turn, Serving
  <2>6. Within(a, tick[a])'
    <3>1. CASE a = h.a BY <1>t, <2>1, <2>3, <2>4, <3>1 DEF Wary, Turn, Within
    <3>2. CASE a # h.a BY <1>t, <2>1, <2>3, <2>4, <3>2 DEF Wary, Turn, Within
    <3> QED BY <3>1, <3>2
  <2>7. a \in h.todo => Within(a, h.ticks[a])' /\ (tick'[a] = h.ticks[a] \/ h.at <= tick'[a])
    <3>1. h.a = a => a \notin h.todo BY <1>t, <2>1 DEF Wary, Turn, Serving
    <3> QED BY <1>t, <2>1, <2>2, <2>3, <2>4, <3>1 DEF Wary, Within
  <2> QED BY <1>t, <2>1, <2>2, <2>4, <2>5, <2>6, <2>7 DEF Wary
<1>9. ASSUME NEW b \in Agents, EditSchedule(b) PROVE Wary(r, a)'
  <2>1. Stamp(b, now) /\ UNCHANGED <<fired, unrecorded, hand>> BY <1>9 DEF EditSchedule
  <2>2. tick'[a] = tick[a] \/ tick'[a] = now BY <1>t, <2>1, StampWrites
  <2>3. Begun(a)' = Begun(a) BY <2>1 DEF Begun
  <2>4. CASE tick'[a] = tick[a] BY <1>t, <2>1, <2>3, <2>4 DEF Wary, Turn, Within
  <2>5. CASE tick'[a] = now
    <3>1. \A s \in Begun(a) : s <= now BY AloneNumbers
    <3>2. hand[r].step # "idle" => hand[r].at <= now BY AloneNumbers
    <3>3. hand[r].step \in Serving => hand[r].slot <= now BY AloneNumbers
    <3>4. Within(a, tick[a])' BY <2>1, <2>3, <2>5, <3>1 DEF Within
    <3>5. Turn(r, a, Serving) => hand[r].slot <= now BY <3>3 DEF Turn
    <3>6. a \in hand[r].todo /\ hand[r].step # "idle" => Within(a, hand[r].ticks[a])'
      BY <1>t, <2>1, <2>3 DEF Wary, Within
    <3>7. \A steps : Turn(r, a, steps)' <=> Turn(r, a, steps) BY <2>1 DEF Turn
    <3> QED BY <1>t, <2>1, <2>3, <2>5, <3>1, <3>2, <3>4, <3>5, <3>6, <3>7 DEF Wary
  <2> QED BY <2>2, <2>4, <2>5
<1>10. ASSUME UNCHANGED <<tick, fired, unrecorded, hand>> PROVE Wary(r, a)'
  BY <1>10, <1>t DEF Wary, Turn, Within, Begun
<1>11. CASE TimePasses \/ UNCHANGED vars
            \/ \E b \in Agents : SessionEnds(b) \/ UserStarts(b) \/ DeleteRun(b)
  BY <1>10, <1>11 DEF TimePasses, vars, SessionEnds, UserStarts, DeleteRun
<1>12. ASSUME NEW b \in Agents, ConsiderFails(r, b) PROVE Wary(r, a)'
  <2>1. /\ hand[r].step = "scan" /\ UNCHANGED <<tick, fired, unrecorded>>
        /\ hand'[r].step = "scan" /\ hand'[r].at = hand[r].at /\ hand'[r].ticks = hand[r].ticks
        /\ hand'[r].todo \subseteq hand[r].todo
    BY <1>12, <1>t, ScanGoesOn
  <2>2. ~Turn(r, a, {"record"}) BY <2>1 DEF Turn
  <2> QED BY <1>t, <2>1, <2>2, TurnEnds
<1> QED BY <1>1, <1>2, <1>3, <1>4, <1>5, <1>6, <1>7, <1>8, <1>9, <1>11, <1>12 DEF Next, Step

LEMMA InitAlone ==
  ASSUME NEW r \in Replicas, Init
  PROVE  AloneInv(r)
<1>1. SInv /\ EarlyInv BY InitInvariant, InitEarly
<1>2. hand[r].step = "idle" BY DEF Init, Idle
<1>3. \A a \in Orchestrators : Begun(a) = {} /\ unrecorded[a] = {}
  BY SchedulerAssumption DEF Init, Begun
<1> QED BY <1>1, <1>2, <1>3 DEF AloneInv, Wary, Within, Turn, Serving
-----------------------------------------------------------------------------
(* The timetable.  A step that starts nothing, loses no record and passes  *)
(* no time is none of Timetable; a start is the one of the slot in hand.   *)

(* A wake of the only replica is the next start of the timetable, or one   *)
(* whose record was lost.                                                  *)
LEMMA WakeInOrder ==
  ASSUME NEW r \in Replicas, AloneInv(r), NEW a \in Orchestrators, NEW s \in Times,
         a = hand[r].a, s = hand[r].slot, hand[r].step \in {"inject", "create"},
         UNCHANGED <<now, since>>, Fire(a, s)
  PROVE  Wakes!Start(a, s) \/ Wakes!Again(a, s)
<1>t. TypeOK /\ a \in Agents /\ Times \subseteq Nat BY AloneNumbers
<1>1. /\ unrecorded[a] \subseteq Begun(a)
      /\ \A t \in Begun(a) : t < s \/ (t = s /\ t \in unrecorded[a])
  BY AloneNumbers DEF Wary, Turn
<1>2. \A t \in Times : IsSlot(a, t) /\ since[a] < t /\ t < s => fired[a][t] > 0
  BY DEF AloneInv, SInv, HandsKnow, Knows, Serving
<1>3. IsSlot(a, s) /\ s <= now
  BY DEF AloneInv, EarlyInv, HandsDue, HandDue, Serving
<1>4. fired' = [fired EXCEPT ![a][s] = Capped(@)] BY DEF Fire
<1>5. \A b \in Orchestrators :
        fired'[b] = IF b = a THEN [fired[a] EXCEPT ![s] = Capped(@)] ELSE fired[b]
  BY <1>t, <1>4 DEF TypeOK
<1>6. unrecorded' = [unrecorded EXCEPT ![a] = @ \ {s}] BY <1>t DEF Fire, TypeOK
<1>7. [b \in Orchestrators |-> since'[b]] = [b \in Orchestrators |-> since[b]] OBVIOUS
<1>8. fired[a][s] \in Nat BY <1>t, SchedulerAssumption DEF TypeOK
<1>9. CASE fired[a][s] = 0
  <2>1. Capped(fired[a][s]) = 1 BY <1>9, SchedulerAssumption DEF Capped
  <2>2. [b \in Orchestrators |-> fired'[b]] =
          [[b \in Orchestrators |-> fired[b]] EXCEPT ![a][s] = 1]
    BY <1>5, <1>t, <2>1 DEF TypeOK
  <2>3. s \notin Begun(a) BY <1>9 DEF Begun
  <2>4. unrecorded' = unrecorded BY <1>1, <1>6, <1>t, <2>3 DEF TypeOK
  <2>5. \A t \in Times : fired[a][t] > 0 => t < s BY <1>1, <2>3 DEF Begun
  <2>6. s \in SlotsOf[a] /\ \A t \in SlotsOf[a] : t \in Times /\ IsSlot(a, t)
    BY <1>t, <1>3 DEF SlotsOf
  <2> QED BY <1>2, <1>3, <1>7, <2>2, <2>4, <2>5, <2>6 DEF Wakes!Start
<1>10. CASE fired[a][s] > 0
  <2>1. s \in Begun(a) /\ s \in Nat BY <1>t, <1>10 DEF Begun
  <2>2. s \in unrecorded[a] BY <1>1, <2>1
  <2>3. [b \in Orchestrators |-> fired'[b]] =
          [[b \in Orchestrators |-> fired[b]] EXCEPT ![a][s] = IF @ < MaxFired THEN @ + 1 ELSE @]
    BY <1>5, <1>t DEF Capped, TypeOK
  <2> QED BY <1>6, <1>7, <2>2, <2>3 DEF Wakes!Again
<1> QED BY <1>8, <1>9, <1>10

(* Each step of the only replica is one of the timetable.                  *)
LEMMA WakesStep ==
  ASSUME NEW r \in Replicas, Replicas = {r}, AloneInv(r), [Next]_vars
  PROVE  [Wakes!Next]_(Wakes!vars)
<1>t. TypeOK /\ Orchestrators \subseteq Agents BY SchedulerAssumption DEF AloneInv, SInv
<1>1. ASSUME UNCHANGED <<now, unrecorded>>,
             \A a \in Orchestrators : since'[a] = since[a] /\ fired'[a] = fired[a]
      PROVE  [Wakes!Next]_(Wakes!vars)
  BY <1>1 DEF Wakes!vars
<1>2. CASE Inject(r) \/ (Create(r) /\ ~Taken(hand[r].a, hand[r].slot))
  <2>1. PICK a \in Agents, s \in Times :
          /\ a = hand[r].a /\ s = hand[r].slot /\ hand[r].step \in {"inject", "create"}
          /\ UNCHANGED <<now, since>> /\ Fire(a, s)
    BY <1>t, <1>2, HandFields DEF Inject, Create
  <2>2. CASE a \notin Orchestrators
    <3>1. \A b \in Orchestrators : fired'[b] = fired[b] BY <1>t, <2>1, <2>2 DEF Fire, TypeOK
    <3>2. unrecorded' = unrecorded BY <1>t, <2>1, <2>2 DEF Fire, TypeOK
    <3> QED BY <1>1, <2>1, <3>1, <3>2
  <2>3. CASE a \in Orchestrators
    <3>1. Wakes!Start(a, s) \/ Wakes!Again(a, s) BY <2>1, <2>3, WakeInOrder
    <3> QED BY <2>1, <2>3, <3>1 DEF Wakes!Next
  <2> QED BY <2>2, <2>3
<1>3. CASE TimePasses
  BY <1>3 DEF TimePasses, Wakes!Next, Wakes!Pass
<1>4. ASSUME NEW b \in Agents, EditSchedule(b) PROVE [Wakes!Next]_(Wakes!vars)
  <2>1. since' = [since EXCEPT ![b] = now] /\ UNCHANGED <<now, fired, unrecorded>>
    BY <1>4 DEF EditSchedule
  <2>2. CASE b \in Orchestrators
    <3>1. Wakes!Restate(b) BY <1>t, <2>1, <2>2 DEF Wakes!Restate, TypeOK
    <3> QED BY <2>2, <3>1 DEF Wakes!Next
  <2>3. CASE b \notin Orchestrators
    <3>1. \A a \in Orchestrators : since'[a] = since[a] BY <1>t, <2>1, <2>3 DEF TypeOK
    <3> QED BY <1>1, <2>1, <3>1
  <2> QED BY <2>2, <2>3
<1>5. ASSUME UNCHANGED <<now, since, fired, unrecorded>> PROVE [Wakes!Next]_(Wakes!vars)
  BY <1>1, <1>5
<1>6. CASE \/ StartTick(r) \/ FindLive(r) \/ FindFails(r) \/ InjectFails(r) \/ Record(r) \/ EndTick(r)
           \/ (\E b \in Agents : Consider(r, b) \/ ConsiderFails(r, b))
           \/ (Create(r) /\ Taken(hand[r].a, hand[r].slot))
  BY <1>5, <1>6 DEF StartTick, FindLive, FindFails, InjectFails, Record, EndTick, Consider,
                    ConsiderFails, Create
<1>7. CASE UNCHANGED vars \/ \E a \in Agents : SessionEnds(a) \/ UserStarts(a) \/ DeleteRun(a)
  BY <1>5, <1>7 DEF vars, SessionEnds, UserStarts, DeleteRun
<1>8. CASE RecordFails(r) \/ Crash(r)
  <2> DEFINE h == hand[r]
  <2>1. UNCHANGED <<now, since, fired>> /\ Unrecord(h) BY <1>8 DEF RecordFails, Crash
  <2>2. CASE h.step = "record" /\ h.a \in Orchestrators
    <3>1. unrecorded' = [unrecorded EXCEPT ![h.a] = @ \cup {h.slot}]
      BY <1>t, <2>1, <2>2 DEF Unrecord, TypeOK
    <3>2. h.slot \in Times BY <1>t, <2>2, HandFields
    <3>3. fired[h.a][h.slot] > 0
      BY <2>2 DEF AloneInv, SInv, HandsKnow, Knows, Serving
    <3>4. Wakes!Forget(h.a, h.slot) BY <2>1, <2>2, <3>1, <3>2, <3>3 DEF Wakes!Forget
    <3> QED BY <2>2, <3>2, <3>4 DEF Wakes!Next
  <2>3. CASE ~(h.step = "record" /\ h.a \in Orchestrators)
    <3>1. unrecorded' = unrecorded BY <1>t, <2>1, <2>3 DEF Unrecord, TypeOK
    <3> QED BY <1>5, <2>1, <3>1
  <2> QED BY <2>2, <2>3
<1>9. Next \/ UNCHANGED vars OBVIOUS
<1> QED BY <1>2, <1>3, <1>4, <1>6, <1>7, <1>8, <1>9 DEF Next, Step

(* One api process keeps an orchestrator to its timetable: a wake is for a *)
(* later slot than every one before it, no slot of the schedule lies       *)
(* between and none comes early; and it repeats a slot only where a        *)
(* restart, or an await that threw, cost the record of the slot's last     *)
(* wake.  For any schedules and horizon, although publishes fail,          *)
(* schedules are edited, rows are deleted and sessions come and go in the  *)
(* middle of its turn.                                                     *)
THEOREM OrchestratorsPunctual ==
  ASSUME NEW r, Replicas = {r}
  PROVE  Spec => OrchestratorsKeepTime
<1>1. r \in Replicas OBVIOUS
<1>2. Init => AloneInv(r) BY <1>1, InitAlone
<1>3. AloneInv(r) /\ [Next]_vars => AloneInv(r)' BY <1>1, AloneStep
<1>4. Init => Wakes!Init BY SchedulerAssumption DEF Init, Wakes!Init
<1>5. AloneInv(r) /\ [Next]_vars => [Wakes!Next]_(Wakes!vars) BY <1>1, WakesStep
<1> QED BY <1>2, <1>3, <1>4, <1>5, PTL DEF Spec, OrchestratorsKeepTime, Wakes!Spec

(* Workers.  A worker's slots begin in order, because its anchor is a row  *)
(* and a row is only there for a slot that began; a deletion takes the     *)
(* anchor back to a slot whose predecessors have all begun.                *)
Through(a, s) == \A t \in Times : IsSlot(a, t) /\ t < s => fired[a][t] > 0

RowsBegun    == \A a \in Workers : runs[a] \subseteq Begun(a)
BegunInOrder == \A a \in Workers : \A s \in Begun(a) : Through(a, s)
HandsInOrder ==
  \A r \in Replicas, a \in Workers : Turn(r, a, {"create"}) => Through(a, hand[r].slot)

KeepInv ==
  EarlyInv /\ EditsPast /\ WakesAreOrchestrators /\ RowsBegun /\ BegunInOrder /\ HandsInOrder

(* The slot after the anchor is the first that has not begun, or a         *)
(* deleted one.                                                            *)
LEMMA DueInOrder ==
  ASSUME TypeOK, RowsBegun, BegunInOrder, NEW a \in Workers
  PROVE  Through(a, NextDue[a][LastRun(a)])
<1> DEFINE x == LastRun(a)
<1>1. a \in Agents /\ x \in Times /\ x \in runs[a] \cup {0} BY LastRunIsTime DEF Workers
<1> SUFFICES ASSUME NEW t \in Times, IsSlot(a, t), t < NextDue[a][x] PROVE fired[a][t] > 0
  BY DEF Through
<1> HIDE DEF x
<1>2. t <= x BY <1>1, NoSlotBetween
<1>3. t \in Nat /\ x \in Nat /\ t > 0
  <2>1. PICK u \in Times : u < t BY DEF IsSlot
  <2> QED BY <1>1, <2>1, SchedulerAssumption DEF Times
<1>4. x \in runs[a] BY <1>1, <1>2, <1>3
<1>5. fired[a][x] > 0 /\ Through(a, x) BY <1>4 DEF RowsBegun, BegunInOrder, Begun
<1> QED BY <1>2, <1>3, <1>5 DEF Through

(* A worker is held for a run because it was, or was just taken in turn.   *)
LEMMA CreateHeld ==
  ASSUME TypeOK, WakesAreOrchestrators, [Next]_vars,
         NEW q \in Replicas, NEW a \in Workers, Turn(q, a, {"create"})'
  PROVE  hand'[q] = hand[q] \/ hand'[q].slot = NextDue[a][LastRun(a)]
<1> SUFFICES ASSUME hand'[q] # hand[q] PROVE hand'[q].slot = NextDue[a][LastRun(a)]
  OBVIOUS
<1>1. hand'[q].step = "create" /\ hand'[q].a = a /\ a \notin Orchestrators
  BY DEF Turn, Workers
<1>2. StartTick(q) \/ Step(q) \/ Crash(q)
  <2>1. ASSUME NEW r \in Replicas, StartTick(r) \/ Step(r) \/ Crash(r) PROVE r = q
    <3> SUFFICES ASSUME r # q PROVE hand'[q] = hand[q] OBVIOUS
    <3>1. CASE \/ StartTick(r) \/ EndTick(r) \/ Crash(r) \/ FindLive(r) \/ FindFails(r)
               \/ \E b \in Agents : Consider(r, b) \/ ConsiderFails(r, b)
      BY <3>1 DEF StartTick, EndTick, Crash, FindLive, FindFails, Consider, ConsiderFails, TypeOK
    <3>2. CASE Inject(r) \/ InjectFails(r) \/ Create(r) \/ Record(r) \/ RecordFails(r)
      BY <3>2 DEF Inject, InjectFails, Create, Record, RecordFails, TypeOK
    <3> QED BY <2>1, <3>1, <3>2 DEF Step
  <2>2. hand' # hand OBVIOUS
  <2>3. \E r \in Replicas : StartTick(r) \/ Step(r) \/ Crash(r)
    BY <2>2 DEF Next, vars, TimePasses, SessionEnds, UserStarts, DeleteRun, EditSchedule
  <2> QED BY <2>1, <2>3
<1>3. ~StartTick(q) /\ ~EndTick(q) /\ ~Crash(q)
  BY <1>1 DEF StartTick, EndTick, Crash, Scan, Idle, TypeOK
<1>4. /\ ~FindFails(q) /\ ~InjectFails(q) /\ ~Record(q) /\ ~RecordFails(q)
      /\ ~(Create(q) /\ Taken(hand[q].a, hand[q].slot))
  BY <1>1 DEF FindFails, InjectFails, Record, RecordFails, Create, BackToScan, Scan, TypeOK
<1>9. \A b \in Agents : ~ConsiderFails(q, b)
  BY <1>1, ScanGoesOn
<1>5. ~Inject(q) /\ ~(Create(q) /\ ~Taken(hand[q].a, hand[q].slot))
  <2>1. ASSUME hand[q].step \in Serving, hand' = [hand EXCEPT ![q].step = "record"] PROVE FALSE
    BY <1>1, <2>1, TurnGoesOn
  <2> QED BY <2>1 DEF Inject, Create, Serving
<1>6. ~FindLive(q)
  <2> SUFFICES ASSUME FindLive(q) PROVE FALSE OBVIOUS
  <2>1. PICK step \in {"inject", "create"} : hand' = [hand EXCEPT ![q].step = step] BY DEF FindLive
  <2>2. hand[q].step = "find" BY DEF FindLive
  <2>3. hand'[q].a = hand[q].a BY <2>1, <2>2, TurnGoesOn DEF Serving
  <2> QED BY <1>1, <2>2, <2>3 DEF WakesAreOrchestrators
<1>7. PICK b \in Agents : Consider(q, b) BY <1>2, <1>3, <1>4, <1>5, <1>6, <1>9 DEF Step
<1>8. hand'[q] = On(hand[q], "create", b, NextDue[b][LastRun(b)]) /\ b = a
  <2> DEFINE due == NextDue[b][Anchor(b, hand[q].ticks[b])]
  <2>1. \/ hand'[q] = Scan(hand[q].todo \ {b}, hand[q].at, hand[q].ticks)
        \/ hand'[q] = On(hand[q], "record", b, hand[q].at)
        \/ hand'[q] = On(hand[q], IF IsOrchestrator(b) THEN "find" ELSE "create", b, due)
    BY <1>7 DEF Consider, TypeOK
  <2> HIDE DEF due
  <2>2. /\ hand'[q] = On(hand[q], IF IsOrchestrator(b) THEN "find" ELSE "create", b, due)
        /\ ~IsOrchestrator(b)
    BY <1>1, <2>1 DEF Scan, On
  <2>3. due = NextDue[b][LastRun(b)] BY <2>2 DEF due, Anchor
  <2> QED BY <1>1, <2>2, <2>3 DEF On
<1> QED BY <1>8 DEF On

(* Every step keeps the order.                                             *)
LEMMA KeepStep == KeepInv /\ [Next]_vars => KeepInv'
<1> SUFFICES ASSUME KeepInv, [Next]_vars PROVE KeepInv' OBVIOUS
<1>t. TypeOK /\ TypeOK' BY TypeStep DEF KeepInv, EarlyInv
<1>1. EarlyInv' /\ EditsPast' /\ WakesAreOrchestrators' /\ Later
  BY <1>t, EarlyStep, StepsAreLater, WakesStayOrchestrators DEF KeepInv
<1>2. \A a \in Workers : Begun(a) \subseteq Begun(a)'
  BY <1>1 DEF Begun, Later, Workers
<1>3. ASSUME NEW a \in Workers, NEW s, Through(a, s) PROVE Through(a, s)'
  BY <1>1, <1>3 DEF Through, Later, Workers, IsSlot
<1>4. RowsBegun'
  <2> SUFFICES ASSUME NEW a \in Workers PROVE runs'[a] \subseteq Begun(a)' BY DEF RowsBegun
  <2>a. a \in Agents /\ runs[a] \subseteq Begun(a) BY DEF KeepInv, RowsBegun, Workers
  <2>1. CASE runs'[a] \subseteq runs[a] BY <1>2, <2>a, <2>1
  <2>2. ASSUME NEW r \in Replicas, Create(r), ~Taken(hand[r].a, hand[r].slot)
        PROVE  runs'[a] \subseteq Begun(a)'
    <3>1. /\ hand[r].a \in Agents /\ hand[r].slot \in Times /\ Fire(hand[r].a, hand[r].slot)
          /\ runs' = [runs EXCEPT ![hand[r].a] = @ \cup {hand[r].slot}]
      BY <1>t, <2>2, HandFields DEF Create
    <3>2. fired'[hand[r].a][hand[r].slot] > 0 BY <1>t, <3>1, FireCounts
    <3>3. runs'[a] = IF hand[r].a = a THEN runs[a] \cup {hand[r].slot} ELSE runs[a]
      BY <1>t, <2>a, <3>1 DEF TypeOK
    <3> QED BY <1>2, <2>a, <3>1, <3>2, <3>3 DEF Begun
  <2>3. ASSUME NEW b \in Agents, DeleteRun(b) PROVE runs'[a] \subseteq runs[a]
    BY <1>t, <2>a, <2>3 DEF DeleteRun, TypeOK
  <2>4. ASSUME runs' = runs PROVE runs'[a] \subseteq runs[a] BY <2>4
  <2>5. \/ runs' = runs \/ (\E b \in Agents : DeleteRun(b))
        \/ \E r \in Replicas : Create(r) /\ ~Taken(hand[r].a, hand[r].slot)
    BY DEF Next, vars, StartTick, Step, Consider, ConsiderFails, FindLive, FindFails, Inject,
           InjectFails, Create, Record, RecordFails, EndTick, Crash, TimePasses, SessionEnds,
           UserStarts, EditSchedule
  <2> QED BY <2>1, <2>2, <2>3, <2>4, <2>5
<1>5. BegunInOrder'
  <2> SUFFICES ASSUME NEW a \in Workers, NEW s \in Begun(a)' PROVE Through(a, s)'
    BY DEF BegunInOrder
  <2>1. CASE s \in Begun(a)
    <3>1. Through(a, s) BY <2>1 DEF KeepInv, BegunInOrder
    <3> QED BY <1>3, <3>1
  <2>2. CASE s \notin Begun(a)
    <3>1. a \in Agents /\ a \notin Orchestrators /\ s \in Times /\ fired'[a][s] # fired[a][s]
      BY <2>2 DEF Begun, Workers
    <3>2. PICK r \in Replicas :
            hand[r].step \in {"inject", "create"} /\ hand[r].a = a /\ hand[r].slot = s
      BY <1>t, <3>1, OnlyInHand
    <3>3. Turn(r, a, {"create"}) BY <3>1, <3>2 DEF KeepInv, WakesAreOrchestrators, Turn
    <3>4. Through(a, s) BY <3>2, <3>3 DEF KeepInv, HandsInOrder
    <3> QED BY <1>3, <3>4
  <2> QED BY <2>1, <2>2
<1>6. HandsInOrder'
  <2> SUFFICES ASSUME NEW q \in Replicas, NEW a \in Workers, Turn(q, a, {"create"})'
               PROVE  Through(a, hand[q].slot)'
    BY DEF HandsInOrder
  <2>1. CASE hand'[q] = hand[q]
    <3>1. Turn(q, a, {"create"}) BY <2>1 DEF Turn
    <3>2. Through(a, hand[q].slot) BY <3>1 DEF KeepInv, HandsInOrder
    <3> QED BY <1>1, <2>1, <3>2 DEF Through, Later, Workers, IsSlot
  <2>2. CASE hand'[q].slot = NextDue[a][LastRun(a)]
    <3>1. Through(a, NextDue[a][LastRun(a)]) BY <1>t, DueInOrder DEF KeepInv
    <3> QED BY <1>1, <2>2, <3>1 DEF Through, Later, Workers, IsSlot
  <2> QED BY <1>t, <2>1, <2>2, CreateHeld DEF KeepInv
<1> QED BY <1>1, <1>4, <1>5, <1>6 DEF KeepInv

(* Each run of a worker is the next start of its timetable, or one that    *)
(* was deleted.                                                            *)
LEMMA RunsStep ==
  ASSUME KeepInv, [Next]_vars
  PROVE  [Runs!Next]_(Runs!vars)
<1> DEFINE Gone(a) == {s \in Times : fired[a][s] > 0 /\ s \notin runs[a]}
<1>t. TypeOK /\ Workers \subseteq Agents BY DEF KeepInv, EarlyInv, Workers
<1>1. ASSUME now' = now, \A a \in Workers : runs'[a] = runs[a] /\ fired'[a] = fired[a]
      PROVE  [Runs!Next]_(Runs!vars)
  BY <1>1 DEF Runs!vars
<1>2. ASSUME NEW r \in Replicas, Create(r), ~Taken(hand[r].a, hand[r].slot)
      PROVE  [Runs!Next]_(Runs!vars)
  <2>1. PICK a \in Agents, s \in Times :
        /\ a = hand[r].a /\ s = hand[r].slot /\ hand[r].step = "create" /\ s \notin runs[a]
        /\ now' = now /\ Fire(a, s) /\ runs' = [runs EXCEPT ![a] = @ \cup {s}]
    BY <1>t, <1>2, HandFields DEF Create, Taken
  <2>2. \A b \in Agents : b # a => fired'[b] = fired[b] /\ runs'[b] = runs[b]
    BY <1>t, <2>1 DEF Fire, TypeOK
  <2>3. CASE a \notin Workers
    BY <1>t, <1>1, <2>1, <2>2, <2>3
  <2>4. CASE a \in Workers
    <3>1. Through(a, s) BY <2>1, <2>4 DEF KeepInv, HandsInOrder, Turn
    <3>2. IsSlot(a, s) /\ s <= now
      BY <2>1 DEF KeepInv, EarlyInv, HandsDue, HandDue, Serving
    <3>3. /\ fired'[a][s] = Capped(fired[a][s]) /\ fired'[a][s] > 0
          /\ \A t \in Times : t # s => fired'[a][t] = fired[a][t]
      <4>1. fired'[a][s] > 0 BY <1>t, <2>1, FireCounts
      <4> QED BY <1>t, <2>1, <4>1 DEF Fire, TypeOK
    <3>4. \A b \in Workers : Gone(b)' = IF b = a THEN Gone(b) \ {s} ELSE Gone(b)
      <4>1. runs'[a] = runs[a] \cup {s} BY <1>t, <2>1 DEF TypeOK
      <4>2. Gone(a)' = Gone(a) \ {s}
        <5>1. \A t \in Times : t # s => (t \in Gone(a)' <=> t \in Gone(a)) BY <3>3, <4>1
        <5>2. s \notin Gone(a)' BY <4>1
        <5> QED BY <5>1, <5>2
      <4> QED BY <1>t, <2>2, <4>2
    <3>5. [b \in Workers |-> fired'[b]] =
            [[b \in Workers |-> fired[b]] EXCEPT ![a][s] = Capped(@)]
      BY <1>t, <2>1, <2>4 DEF Fire, TypeOK
    <3>6. CASE fired[a][s] = 0
      <4>1. Capped(fired[a][s]) = 1 BY <3>6, SchedulerAssumption DEF Capped
      <4>2. [b \in Workers |-> fired'[b]] = [[b \in Workers |-> fired[b]] EXCEPT ![a][s] = 1]
        BY <2>4, <3>5, <4>1
      <4>3. s \in SlotsOf[a] /\ \A t \in SlotsOf[a] : t \in Times /\ IsSlot(a, t)
        BY <2>1, <3>2 DEF SlotsOf
      <4>4. \A t \in Times : fired[a][t] > 0 => t < s
        <5> SUFFICES ASSUME NEW t \in Times, fired[a][t] > 0, ~(t < s) PROVE FALSE OBVIOUS
        <5>1. t \in Nat /\ s \in Nat /\ t # s
          BY <2>1, <3>6, SchedulerAssumption DEF Times
        <5>2. s < t BY <5>1
        <5>3. Through(a, t) BY <2>4 DEF KeepInv, BegunInOrder, Begun
        <5> QED BY <2>1, <3>2, <3>6, <5>2, <5>3 DEF Through
      <4>5. \A b \in Workers : Gone(b)' = Gone(b) BY <3>4, <3>6
      <4>6. [b \in Workers |-> Gone(b)'] = [b \in Workers |-> Gone(b)] BY <4>5
      <4>7. Runs!Start(a, s)
        BY <2>1, <2>4, <3>1, <3>2, <4>2, <4>3, <4>4, <4>6 DEF Runs!Start, Through
      <4> QED BY <2>1, <2>4, <4>7 DEF Runs!Next
    <3>7. CASE fired[a][s] # 0
      <4>1. fired[a][s] > 0 BY <1>t, <2>1, <3>7, SchedulerAssumption DEF TypeOK
      <4>2. s \in Gone(a) BY <2>1, <4>1
      <4>3. [b \in Workers |-> fired'[b]] =
              [[b \in Workers |-> fired[b]] EXCEPT ![a][s] = IF @ < MaxFired THEN @ + 1 ELSE @]
        BY <3>5 DEF Capped
      <4>4. [b \in Workers |-> Gone(b)'] = [[b \in Workers |-> Gone(b)] EXCEPT ![a] = @ \ {s}]
        BY <2>4, <3>4
      <4>5. Runs!Again(a, s) BY <2>1, <2>4, <4>2, <4>3, <4>4 DEF Runs!Again
      <4> QED BY <2>1, <2>4, <4>5 DEF Runs!Next
    <3> QED BY <3>6, <3>7
  <2> QED BY <2>3, <2>4
<1>3. ASSUME NEW r \in Replicas, Inject(r) PROVE [Runs!Next]_(Runs!vars)
  <2>1. /\ hand[r].a \in Agents /\ hand[r].slot \in Times /\ hand[r].a \notin Workers
        /\ Fire(hand[r].a, hand[r].slot) /\ UNCHANGED <<now, runs>>
    BY <1>t, <1>3, HandFields DEF Inject, KeepInv, WakesAreOrchestrators, Workers
  <2>2. \A b \in Workers : fired'[b] = fired[b] BY <1>t, <2>1 DEF Fire, TypeOK
  <2> QED BY <1>1, <2>1, <2>2
<1>4. CASE TimePasses
  BY <1>4 DEF TimePasses, Runs!Next, Runs!Pass
<1>5. ASSUME NEW b \in Agents, DeleteRun(b) PROVE [Runs!Next]_(Runs!vars)
  <2>1. PICK s \in runs[b] : runs' = [runs EXCEPT ![b] = @ \ {s}] BY <1>5 DEF DeleteRun
  <2>2. UNCHANGED <<now, fired>> BY <1>5 DEF DeleteRun
  <2>3. \A a \in Agents : runs'[a] = IF a = b THEN runs[a] \ {s} ELSE runs[a]
    BY <1>t, <2>1 DEF TypeOK
  <2>4. CASE b \notin Workers BY <1>t, <1>1, <2>2, <2>3, <2>4
  <2>5. CASE b \in Workers
    <3>1. s \in Times /\ fired[b][s] > 0 BY <2>5 DEF KeepInv, RowsBegun, Begun
    <3>2. \A a \in Workers : Gone(a)' = IF a = b THEN Gone(a) \cup {s} ELSE Gone(a)
      BY <1>t, <2>2, <2>3, <3>1
    <3>3. [a \in Workers |-> Gone(a)'] = [[a \in Workers |-> Gone(a)] EXCEPT ![b] = @ \cup {s}]
      BY <2>5, <3>2
    <3>4. Runs!Forget(b, s) BY <2>2, <2>5, <3>1, <3>3 DEF Runs!Forget
    <3> QED BY <2>5, <3>1, <3>4 DEF Runs!Next
  <2> QED BY <2>4, <2>5
<1>6. ASSUME UNCHANGED <<now, runs, fired>> PROVE [Runs!Next]_(Runs!vars)
  BY <1>1, <1>6
<1>7. ASSUME NEW r \in Replicas,
             \/ StartTick(r) \/ FindLive(r) \/ FindFails(r) \/ InjectFails(r) \/ Record(r)
             \/ RecordFails(r) \/ EndTick(r) \/ Crash(r)
             \/ (\E b \in Agents : Consider(r, b) \/ ConsiderFails(r, b))
             \/ (Create(r) /\ Taken(hand[r].a, hand[r].slot))
      PROVE  [Runs!Next]_(Runs!vars)
  BY <1>6, <1>7 DEF StartTick, FindLive, FindFails, InjectFails, Record, RecordFails, EndTick,
                    Crash, Consider, ConsiderFails, Create
<1>8. CASE UNCHANGED vars \/ \E a \in Agents : SessionEnds(a) \/ UserStarts(a) \/ EditSchedule(a)
  BY <1>6, <1>8 DEF vars, SessionEnds, UserStarts, EditSchedule
<1>9. Next \/ UNCHANGED vars OBVIOUS
<1> QED BY <1>2, <1>3, <1>4, <1>5, <1>7, <1>8, <1>9 DEF Next, Step

(* Without a leader the runs of a worker keep to its timetable, for any    *)
(* number of replicas, any schedule, outage, stall, crash and edit: a slot *)
(* is started when it has come, after all before it, and once, but that    *)
(* each deletion of its run lets it be started once more.                  *)
THEOREM WorkersPunctual == Spec => WorkersKeepTime
<1>1. Init => KeepInv
  <2> SUFFICES ASSUME Init PROVE KeepInv OBVIOUS
  <2>1. EarlyInv /\ EditsPast BY InitEarly, InitInvariant DEF SInv
  <2>2. \A r \in Replicas : hand[r].step = "idle" BY DEF Init, Idle
  <2>3. \A a \in Workers : runs[a] = {} /\ Begun(a) = {} BY DEF Init, Begun, Workers
  <2> QED BY <2>1, <2>2, <2>3
        DEF KeepInv, WakesAreOrchestrators, RowsBegun, BegunInOrder, HandsInOrder, Turn
<1>2. KeepInv /\ [Next]_vars => KeepInv' BY KeepStep
<1>3. Init => Runs!Init BY SchedulerAssumption DEF Init, Runs!Init, Workers
<1>4. KeepInv /\ [Next]_vars => [Runs!Next]_(Runs!vars) BY RunsStep
<1> QED BY <1>1, <1>2, <1>3, <1>4, PTL DEF Spec, WorkersKeepTime, Runs!Spec
=============================================================================
