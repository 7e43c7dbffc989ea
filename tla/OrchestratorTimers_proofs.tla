---------------------- MODULE OrchestratorTimers_proofs ----------------------
(***************************************************************************)
(* Proofs about OrchestratorTimers, for any number of children, any        *)
(* ladder, thresholds and hints, and any set of faults.                    *)
(***************************************************************************)
EXTENDS OrchestratorTimers, FiniteSetTheorems, TLAPS

(* The clocks: nobody was heard from later than now, a sweep read its rows *)
(* no later than now, and works on the rows it read.                       *)
Clocked  == up < now /\ \A c \in Children : last[c] <= now
HandRead(h) ==
  /\ h.at <= now /\ h.todo \subseteq DOMAIN h.last /\ h.acting \subseteq DOMAIN h.last
  /\ \A c \in DOMAIN h.last : h.last[c] <= last[c]
HandsRead == \A t \in Timers : hand[t] # Idle => HandRead(hand[t])

(* What the watchdog remembers is not younger than the child's last event. *)
SeenPast == \A c \in Children : memory[c].seen <= last[c]

(* A wake that is about to be published has its rung behind it.            *)
Reached(h, c) ==
  /\ memory[c].seen >= h.last[c]
  /\ h.at - h.last[c] >= Threshold(memory[c].attempt + 1)
WakeReached ==
  hand["watch"] # Idle => \A c \in hand["watch"].acting : Reached(hand["watch"], c)

(* The parent was told nothing yet of a child that the sweep did not read. *)
UnreadUntold ==
  hand["watch"] # Idle /\ parent =>
    \A c \in Live : c \notin DOMAIN hand["watch"].last => told[c] = 0

(* The watchdog remembers every wake about the present silence, as long as *)
(* it may still send one.                                                  *)
Unheard(c) == ~parent /\ (hand["watch"] # Idle => c \notin DOMAIN hand["watch"].last)
Remembered(c) == memory[c].seen = last[c] /\ told[c] <= memory[c].attempt
WakesCounted == \A c \in Live : told[c] = 0 \/ Remembered(c) \/ Unheard(c)

TInv ==
  /\ TypeOK /\ Clocked /\ HandsRead /\ SeenPast
  /\ WakeReached /\ UnreadUntold /\ WakesCounted /\ LadderClimbed
-----------------------------------------------------------------------------
(* Records of a sweep.                                                     *)

LEMMA RowsRead ==
  ASSUME NEW h \in Sweeps
  PROVE  /\ h.at \in Times /\ h.todo \subseteq Children /\ h.acting \subseteq Children
         /\ DOMAIN h.last \subseteq Children
         /\ \A c \in DOMAIN h.last : h.last[c] \in Times
<1>1. h.last \in Read BY DEF Sweeps
<1>2. PICK some \in SUBSET Children : h.last \in [some -> Times] BY <1>1 DEF Read
<1> QED BY <1>2 DEF Sweeps

LEMMA LookedAtSweep ==
  ASSUME NEW h \in Sweeps, NEW c \in Children, NEW acts \in BOOLEAN
  PROVE  /\ LookedAt(h, c, acts) \in Sweeps
         /\ LookedAt(h, c, acts).at = h.at /\ LookedAt(h, c, acts).last = h.last
         /\ LookedAt(h, c, acts).todo = h.todo \ {c}
         /\ LookedAt(h, c, acts).acting \subseteq {c}
         /\ LookedAt(h, c, acts).acting # {} => acts
  BY DEF LookedAt, Sweeps

LEMMA ActedSweep ==
  ASSUME NEW h \in Sweeps
  PROVE  /\ Acted(h) \in Sweeps /\ Acted(h).at = h.at /\ Acted(h).last = h.last
         /\ Acted(h).todo = h.todo /\ Acted(h).acting = {}
  BY DEF Acted, Sweeps

LEMMA BeginsSweep ==
  ASSUME TypeOK, NEW t \in Timers
  PROVE  /\ Sweep(t) \in Sweeps /\ Sweep(t).at = now /\ Sweep(t).acting = {}
         /\ Sweep(t).todo = Rows(t) /\ DOMAIN Sweep(t).last = Rows(t)
         /\ \A c \in Rows(t) : Sweep(t).last[c] = last[c]
<1>1. Rows(t) \subseteq Children BY DEF Rows, Heard, Live
<1>2. [c \in Rows(t) |-> last[c]] \in [Rows(t) -> Times] BY <1>1 DEF TypeOK
<1>3. [c \in Rows(t) |-> last[c]] \in Read BY <1>1, <1>2 DEF Read
<1> QED BY <1>1, <1>3 DEF Sweep, Sweeps, TypeOK

LEMMA BecomesHand ==
  ASSUME TypeOK, NEW t \in Timers, NEW h \in Sweeps, Becomes(t, h)
  PROVE  /\ hand' \in [Timers -> {Idle} \cup Sweeps]
         /\ hand'[t] = IF Finished(h) THEN Idle ELSE h
         /\ \A u \in Timers : u # t => hand'[u] = hand[u]
  BY DEF Becomes, TypeOK

(* The watchdog's memory.                                                  *)
Entries == [attempt : 0 .. Len(Ladder) + 1, seen : Times]

LEMMA NextAttemptType ==
  ASSUME NEW n \in 0 .. Len(Ladder) + 1
  PROVE  NextAttempt(n) \in 0 .. Len(Ladder) + 1 /\ NextAttempt(n) <= n + 1 /\ NextAttempt(n) >= n
  BY TimersAssumption DEF NextAttempt

LEMMA KeptMemory ==
  ASSUME NEW m \in [Children -> Entries], NEW h \in Sweeps
  PROVE  /\ Kept(m, h) \in [Children -> Entries]
         /\ \A c \in Children :
              Kept(m, h)[c] = IF Finished(h) /\ c \notin DOMAIN h.last THEN Afresh ELSE m[c]
<1>1. Afresh \in Entries BY TimersAssumption DEF Afresh, Entries, Times
<1> QED BY <1>1 DEF Kept

LEMMA RecallEntry ==
  ASSUME NEW m \in Entries, NEW heardAt \in Times
  PROVE  /\ Recall(m, heardAt) \in Entries
         /\ heardAt > m.seen => Recall(m, heardAt).attempt = 0 /\ Recall(m, heardAt).seen = heardAt
         /\ ~(heardAt > m.seen) => Recall(m, heardAt) = m
  BY TimersAssumption DEF Recall, Entries, Times
-----------------------------------------------------------------------------
(* Types.                                                                  *)

(* A child in hand, and what the sweep read of it.                         *)
LEMMA InHand ==
  ASSUME TypeOK, HandsRead, NEW t \in Timers, NEW c \in Children, Scanning(t, c) \/ Acting(t, c)
  PROVE  /\ hand[t] # Idle /\ hand[t] \in Sweeps /\ HandRead(hand[t])
         /\ c \in DOMAIN hand[t].last /\ hand[t].last[c] \in Times /\ hand[t].at \in Times
<1>1. hand[t] # Idle /\ hand[t] \in Sweeps BY DEF Scanning, Acting, TypeOK
<1>2. HandRead(hand[t]) BY <1>1 DEF HandsRead
<1> QED BY <1>1, <1>2, RowsRead DEF Scanning, Acting, HandRead

(* Weigh with the record it leaves.                                        *)
Weighed(c) ==
  IF IsQuiet(c, hand["watch"].at) THEN memory[c] ELSE Recall(memory[c], hand["watch"].last[c])
Reaches(c) ==
  ~IsQuiet(c, hand["watch"].at)
    /\ hand["watch"].at - hand["watch"].last[c] >= Threshold(Weighed(c).attempt + 1)

LEMMA WeighEffect ==
  ASSUME TypeOK, HandsRead, NEW c \in Children, Weigh(c)
  PROVE  LET g == LookedAt(hand["watch"], c, Reaches(c)) IN
           /\ g \in Sweeps /\ Becomes("watch", g)
           /\ Weighed(c) \in Entries
           /\ [memory EXCEPT ![c] = Weighed(c)] \in [Children -> Entries]
           /\ memory' = Kept([memory EXCEPT ![c] = Weighed(c)], g)
<1> "watch" \in Timers BY DEF Timers
<1>1. hand["watch"] \in Sweeps /\ hand["watch"].last[c] \in Times BY InHand DEF Weigh
<1>2. memory \in [Children -> Entries] BY DEF TypeOK, Entries
<1>3. Weighed(c) \in Entries BY <1>1, <1>2, RecallEntry DEF Weighed
<1>4. Reaches(c) \in BOOLEAN BY DEF Reaches
<1> QED BY <1>1, <1>2, <1>3, <1>4, LookedAtSweep DEF Weigh, Weighed, Reaches

LEMMA SilenceOver ==
  ASSUME TypeOK, HandsRead, NEW c \in Children, Wake(c) \/ WakeFails(c)
  PROVE  /\ hand["watch"] # Idle /\ hand["watch"] \in Sweeps
         /\ Acted(hand["watch"]) \in Sweeps /\ Becomes("watch", Acted(hand["watch"]))
         /\ [memory EXCEPT ![c].attempt = NextAttempt(@)] \in [Children -> Entries]
<1> "watch" \in Timers BY DEF Timers
<1>1. hand["watch"] # Idle /\ hand["watch"] \in Sweeps BY InHand DEF Wake, WakeFails
<1>2. memory \in [Children -> Entries] BY DEF TypeOK, Entries
<1>3. [memory[c] EXCEPT !.attempt = NextAttempt(@)] \in Entries
  BY <1>2, NextAttemptType DEF Entries
<1> QED BY <1>1, <1>2, <1>3, ActedSweep DEF Wake, WakeFails

(* Every step keeps the types.                                             *)
LEMMA TypeStep ==
  ASSUME TypeOK, Clocked, HandsRead, [Next]_vars
  PROVE  TypeOK'
<1> USE TimersAssumption DEF clock, family, store, history
<1>t. "watch" \in Timers /\ "reap" \in Timers /\ "checkup" \in Timers BY DEF Timers
<1>1. ASSUME NEW c \in Children, Spawn(c) \/ Emit(c) \/ End(c) PROVE TypeOK'
  <2>1. CASE Spawn(c)
    BY <2>1 DEF Spawn, Heeds, TypeOK
  <2>2. CASE Emit(c)
    BY <2>2 DEF Emit, Heeds, TypeOK
  <2>3. CASE End(c)
    BY <2>3 DEF End, TypeOK
  <2> QED BY <1>1, <2>1, <2>2, <2>3
<1>2. CASE ParentEnds
  BY <1>2 DEF ParentEnds, TypeOK
<1>3. ASSUME NEW c \in Children, NEW n \in Hints, Hint(c, n) PROVE TypeOK'
  <2>1. now + n \in Nat /\ Until(c, n) \in Nat BY DEF Until, TypeOK, Times
  <2> QED BY <1>3, <2>1 DEF Hint, TypeOK
<1>4. ASSUME NEW t \in Timers, Fire(t) PROVE TypeOK'
  <2>1. CASE hand[t] # Idle
    BY <1>4, <2>1 DEF Fire, TypeOK
  <2>2. CASE hand[t] = Idle
    <3>1. Sweep(t) \in Sweeps /\ Becomes(t, Sweep(t)) BY <1>4, <2>2, BeginsSweep DEF Fire
    <3>2. hand' \in [Timers -> {Idle} \cup Sweeps] BY <3>1, BecomesHand
    <3>3. memory' \in [Children -> Entries]
      <4>1. memory \in [Children -> Entries] BY DEF TypeOK, Entries
      <4>2. Kept(memory, Sweep(t)) \in [Children -> Entries] BY <3>1, <4>1, KeptMemory
      <4> QED BY <1>4, <2>2, <4>1, <4>2 DEF Fire
    <3>4. glanced' \in Times BY <1>4, <2>2 DEF Fire, TypeOK, Times
    <3> QED BY <1>4, <3>2, <3>3, <3>4 DEF Fire, TypeOK, Entries
  <2> QED BY <2>1, <2>2
<1>5. ASSUME NEW c \in Children, Weigh(c) PROVE TypeOK'
  <2>1. hand' \in [Timers -> {Idle} \cup Sweeps] /\ memory' \in [Children -> Entries]
    <3> DEFINE g == LookedAt(hand["watch"], c, Reaches(c))
               m == [memory EXCEPT ![c] = Weighed(c)]
    <3>1. g \in Sweeps /\ Becomes("watch", g) /\ m \in [Children -> Entries] /\ memory' = Kept(m, g)
      BY <1>5, WeighEffect
    <3> HIDE DEF g, m
    <3> QED BY <1>t, <3>1, BecomesHand, KeptMemory
  <2>2. quiet' \in [Children -> Nat] BY <1>5 DEF Weigh, LookAtHint, TypeOK
  <2> QED BY <1>5, <2>1, <2>2 DEF Weigh, LookAtHint, TypeOK, Entries
<1>6. ASSUME NEW c \in Children, Wake(c) PROVE TypeOK'
  <2>1. hand' \in [Timers -> {Idle} \cup Sweeps] /\ memory' \in [Children -> Entries]
    <3> DEFINE g == Acted(hand["watch"])
               m == [memory EXCEPT ![c].attempt = NextAttempt(@)]
    <3>1. g \in Sweeps /\ Becomes("watch", g) /\ m \in [Children -> Entries] BY <1>6, SilenceOver
    <3>2. memory' = Kept(m, g) BY <1>6 DEF Wake
    <3> HIDE DEF g, m
    <3> QED BY <1>t, <3>1, <3>2, BecomesHand, KeptMemory
  <2>2. told' \in [Children -> 0 .. Len(Ladder) + 1] /\ warned' \subseteq Children
    <3>1. NextAttempt(told[c]) \in 0 .. Len(Ladder) + 1 BY NextAttemptType DEF TypeOK
    <3>2. [told EXCEPT ![c] = NextAttempt(@)] \in [Children -> 0 .. Len(Ladder) + 1]
      BY <3>1 DEF TypeOK
    <3>3. told' = told \/ told' = [told EXCEPT ![c] = NextAttempt(@)] BY <1>6 DEF Wake
    <3>4. warned' \subseteq warned \cup {c} BY <1>6 DEF Wake
    <3> QED BY <3>2, <3>3, <3>4 DEF TypeOK
  <2> QED BY <1>6, <2>1, <2>2 DEF Wake, TypeOK, Entries
<1>7. ASSUME NEW c \in Children, WakeFails(c) PROVE TypeOK'
  <2>1. hand' \in [Timers -> {Idle} \cup Sweeps] /\ memory' \in [Children -> Entries]
    <3> DEFINE g == Acted(hand["watch"])
    <3>1. g \in Sweeps /\ Becomes("watch", g) BY <1>7, SilenceOver
    <3>2. memory' = Kept(memory, g) BY <1>7 DEF WakeFails
    <3>3. memory \in [Children -> Entries] BY DEF TypeOK, Entries
    <3> HIDE DEF g
    <3> QED BY <1>t, <3>1, <3>2, <3>3, BecomesHand, KeptMemory
  <2> QED BY <1>7, <2>1 DEF WakeFails, TypeOK, Entries
<1>8. ASSUME NEW c \in Children, Condemn(c) PROVE TypeOK'
  <2>1. hand["reap"] \in Sweeps BY <1>8, <1>t, InHand DEF Condemn
  <2>2. PICK acts \in BOOLEAN : Becomes("reap", LookedAt(hand["reap"], c, acts))
    BY <1>8 DEF Condemn
  <2>3. hand' \in [Timers -> {Idle} \cup Sweeps]
    BY <1>t, <2>1, <2>2, LookedAtSweep, BecomesHand
  <2>4. quiet' \in [Children -> Nat] BY <1>8 DEF Condemn, LookAtHint, TypeOK
  <2> QED BY <1>8, <2>3, <2>4 DEF Condemn, LookAtHint, TypeOK
<1>9. ASSUME NEW c \in Children, Reap(c) \/ ReapFails(c) PROVE TypeOK'
  <2>1. hand["reap"] \in Sweeps BY <1>9, <1>t, InHand DEF Reap, ReapFails
  <2>2. hand' \in [Timers -> {Idle} \cup Sweeps]
    BY <1>9, <1>t, <2>1, ActedSweep, BecomesHand DEF Reap, ReapFails
  <2> QED BY <1>9, <2>2 DEF Reap, ReapFails, TypeOK
<1>10. CASE Checkup \/ CheckupFails
  <2>1. hand["checkup"] \in Sweeps BY <1>10, <1>t DEF Checkup, CheckupFails, TypeOK
  <2>2. hand["checkup"].at \in Times BY <2>1, RowsRead
  <2> QED BY <1>10, <2>2 DEF Checkup, CheckupFails, TypeOK
<1>11. ASSUME NEW t \in Timers, SweepFails(t) PROVE TypeOK'
  BY <1>11 DEF SweepFails, TypeOK
<1>12. CASE TimePasses
  <2>1. now' \in Times /\ up' \in Times /\ hindered' \in Times
    BY <1>12 DEF TimePasses, Clocked, TypeOK, Times
  <2> QED BY <1>12, <2>1 DEF TimePasses, TypeOK
<1>13. CASE Restart
  <2>1. Afresh \in Entries BY DEF Afresh, Entries, Times
  <2>2. up' \in Times /\ glanced' \in Times BY <1>13 DEF Restart, Times
  <2> QED BY <1>13, <2>1, <2>2 DEF Restart, TypeOK, Entries
<1>14. CASE UNCHANGED vars
  BY <1>14 DEF vars, TypeOK
<1> QED
  BY <1>1, <1>2, <1>3, <1>4, <1>5, <1>6, <1>7, <1>8, <1>9, <1>10, <1>11, <1>12, <1>13,
     <1>14 DEF Next
-----------------------------------------------------------------------------
(* The clocks.                                                             *)

LEMMA ClockStep ==
  ASSUME TypeOK, Clocked, [Next]_vars
  PROVE  Clocked'
<1> USE DEF clock, family, store, history
<1>1. ASSUME NEW c \in Children, Spawn(c) \/ Emit(c) PROVE Clocked'
  <2>1. last' = [last EXCEPT ![c] = now] /\ UNCHANGED <<now, up>>
    BY <1>1 DEF Spawn, Emit, Heeds
  <2> QED BY <2>1 DEF Clocked, TypeOK, Times
<1>2. CASE TimePasses
  <2>1. now' = now + 1 /\ up' = up + 1 /\ last' = last
    BY <1>2 DEF TimePasses
  <2>2. now \in Nat /\ up \in Nat /\ \A c \in Children : last[c] \in Nat
    BY DEF TypeOK, Times
  <2> QED BY <2>1, <2>2 DEF Clocked
<1>3. CASE Restart
  <2>1. up' = 0 /\ up < now /\ up \in Nat /\ now \in Nat /\ UNCHANGED <<now, last>>
    BY <1>3 DEF Restart, Clocked, TypeOK, Times
  <2> QED BY <2>1 DEF Clocked
<1>4. CASE UNCHANGED <<now, up, last>>
  BY <1>4 DEF Clocked
<1>5. ASSUME NEW c \in Children,
             \/ End(c) \/ Weigh(c) \/ Wake(c) \/ WakeFails(c) \/ Condemn(c) \/ Reap(c)
             \/ ReapFails(c) \/ \E n \in Hints : Hint(c, n)
      PROVE  UNCHANGED <<now, up, last>>
  BY <1>5 DEF End, Weigh, Wake, WakeFails, Condemn, Reap, ReapFails, Hint
<1>6. ASSUME NEW t \in Timers, Fire(t) \/ SweepFails(t)
      PROVE  UNCHANGED <<now, up, last>>
  BY <1>6 DEF Fire, SweepFails
<1>7. ASSUME ParentEnds \/ Checkup \/ CheckupFails
      PROVE  UNCHANGED <<now, up, last>>
  BY <1>7 DEF ParentEnds, Checkup, CheckupFails
<1> QED BY <1>1, <1>2, <1>3, <1>4, <1>5, <1>6, <1>7 DEF Next, vars

(* A record that a sweep had or begins with, and later clocks.             *)
LEMMA ReadOn ==
  ASSUME TypeOK, NEW t \in Timers, hand[t] # Idle => HandRead(hand[t]),
         NEW h \in Sweeps, Becomes(t, h), UNCHANGED <<now, last>>,
         \/ h = Sweep(t)
         \/ /\ hand[t] # Idle /\ h.at = hand[t].at /\ h.last = hand[t].last
            /\ h.todo \subseteq hand[t].todo /\ h.acting \subseteq hand[t].todo
  PROVE  hand'[t] # Idle => HandRead(hand[t])'
<1>1. hand'[t] # Idle => hand'[t] = h BY BecomesHand
<1>2. CASE h = Sweep(t)
  <2>1. Rows(t) \subseteq Children BY DEF Rows, Heard, Live
  <2>2. /\ h.at = now /\ h.todo = Rows(t) /\ h.acting = {} /\ DOMAIN h.last = Rows(t)
        /\ \A c \in Rows(t) : h.last[c] = last[c]
    BY <1>2, BeginsSweep
  <2> QED BY <1>1, <2>1, <2>2 DEF HandRead, TypeOK, Times
<1>3. CASE h # Sweep(t)
  BY <1>1, <1>3 DEF HandRead
<1> QED BY <1>2, <1>3

LEMMA HandsStep ==
  ASSUME TypeOK, Clocked, HandsRead, [Next]_vars
  PROVE  HandsRead'
<1> USE DEF clock, family, store, history
<1>t. "watch" \in Timers /\ "reap" \in Timers /\ "checkup" \in Timers BY DEF Timers
<1>1. ASSUME NEW t \in Timers, NEW h \in Sweeps, Becomes(t, h), UNCHANGED <<now, last>>,
             \/ h = Sweep(t)
             \/ /\ hand[t] # Idle /\ h.at = hand[t].at /\ h.last = hand[t].last
                /\ h.todo \subseteq hand[t].todo /\ h.acting \subseteq hand[t].todo
      PROVE  HandsRead'
  <2>1. hand'[t] # Idle => HandRead(hand[t])' BY <1>1, ReadOn DEF HandsRead
  <2>2. \A u \in Timers : u # t => hand'[u] = hand[u] BY <1>1, BecomesHand
  <2>3. \A u \in Timers : u # t /\ hand'[u] # Idle => HandRead(hand[u])'
    BY <1>1, <2>2 DEF HandsRead, HandRead
  <2> QED BY <2>1, <2>3 DEF HandsRead
<1>2. ASSUME NEW c \in Children, Weigh(c) PROVE HandsRead'
  <2>1. hand["watch"] # Idle /\ hand["watch"] \in Sweeps /\ c \in hand["watch"].todo
    BY <1>2, <1>t, InHand DEF Weigh, Scanning
  <2> DEFINE g == LookedAt(hand["watch"], c, Reaches(c))
  <2>2. g \in Sweeps /\ Becomes("watch", g) BY <1>2, WeighEffect
  <2>3. Reaches(c) \in BOOLEAN BY DEF Reaches
  <2>4. /\ g.at = hand["watch"].at /\ g.last = hand["watch"].last
        /\ g.todo \subseteq hand["watch"].todo /\ g.acting \subseteq hand["watch"].todo
    BY <2>1, <2>3, LookedAtSweep
  <2>5. UNCHANGED <<now, last>> BY <1>2 DEF Weigh
  <2> HIDE DEF g
  <2> QED BY <1>1, <1>t, <2>1, <2>2, <2>4, <2>5
<1>3. ASSUME NEW c \in Children, Wake(c) \/ WakeFails(c) PROVE HandsRead'
  <2> DEFINE g == Acted(hand["watch"])
  <2>1. hand["watch"] # Idle /\ hand["watch"] \in Sweeps /\ g \in Sweeps /\ Becomes("watch", g)
    BY <1>3, SilenceOver
  <2>2. /\ g.at = hand["watch"].at /\ g.last = hand["watch"].last
        /\ g.todo \subseteq hand["watch"].todo /\ g.acting \subseteq hand["watch"].todo
    BY <2>1, ActedSweep
  <2>3. UNCHANGED <<now, last>> BY <1>3 DEF Wake, WakeFails
  <2> HIDE DEF g
  <2> QED BY <1>1, <1>t, <2>1, <2>2, <2>3
<1>4. ASSUME NEW c \in Children, Condemn(c) PROVE HandsRead'
  <2>1. hand["reap"] # Idle /\ hand["reap"] \in Sweeps /\ c \in hand["reap"].todo
    BY <1>4, <1>t, InHand DEF Condemn, Scanning
  <2>2. PICK acts \in BOOLEAN : Becomes("reap", LookedAt(hand["reap"], c, acts))
    BY <1>4 DEF Condemn
  <2> DEFINE g == LookedAt(hand["reap"], c, acts)
  <2>3. /\ g \in Sweeps /\ g.at = hand["reap"].at /\ g.last = hand["reap"].last
        /\ g.todo \subseteq hand["reap"].todo /\ g.acting \subseteq hand["reap"].todo
    BY <2>1, LookedAtSweep
  <2>4. UNCHANGED <<now, last>> BY <1>4 DEF Condemn
  <2> HIDE DEF g
  <2>5. Becomes("reap", g) BY <2>2 DEF g
  <2> QED BY <1>1, <1>t, <2>1, <2>3, <2>4, <2>5
<1>5. ASSUME NEW c \in Children, Reap(c) \/ ReapFails(c) PROVE HandsRead'
  <2> DEFINE g == Acted(hand["reap"])
  <2>1. hand["reap"] # Idle /\ hand["reap"] \in Sweeps BY <1>5, <1>t, InHand DEF Reap, ReapFails
  <2>2. /\ g \in Sweeps /\ g.at = hand["reap"].at /\ g.last = hand["reap"].last
        /\ g.todo \subseteq hand["reap"].todo /\ g.acting \subseteq hand["reap"].todo
    BY <2>1, ActedSweep
  <2>3. UNCHANGED <<now, last>> /\ Becomes("reap", g) BY <1>5 DEF Reap, ReapFails
  <2> HIDE DEF g
  <2> QED BY <1>1, <1>t, <2>1, <2>2, <2>3
<1>6. ASSUME NEW t \in Timers, Fire(t) PROVE HandsRead'
  <2>1. UNCHANGED <<now, last>> BY <1>6 DEF Fire
  <2>2. CASE hand[t] # Idle
    BY <1>6, <2>1, <2>2 DEF Fire, HandsRead, HandRead
  <2>3. CASE hand[t] = Idle
    BY <1>1, <1>6, <2>1, <2>3, BeginsSweep DEF Fire
  <2> QED BY <2>2, <2>3
<1>7. ASSUME UNCHANGED <<now, last>>,
             \A t \in Timers : hand'[t] # Idle => hand'[t] = hand[t]
      PROVE  HandsRead'
  BY <1>7 DEF HandsRead, HandRead
<1>8. ASSUME NEW c \in Children, Spawn(c) \/ Emit(c) PROVE HandsRead'
  <2>1. last' = [last EXCEPT ![c] = now] /\ UNCHANGED <<now, hand>>
    BY <1>8 DEF Spawn, Emit, Heeds
  <2>2. \A d \in Children : last[d] <= last'[d] /\ last[d] \in Times /\ last'[d] \in Times
    <3>1. last \in [Children -> Times] /\ now \in Times BY DEF TypeOK
    <3>2. ASSUME NEW d \in Children
          PROVE  last[d] <= last'[d] /\ last[d] \in Times /\ last'[d] \in Times
      <4>1. CASE d = c BY <2>1, <3>1, <4>1 DEF Clocked
      <4>2. CASE d # c
        <5>1. last'[d] = last[d] BY <2>1, <3>1, <4>2
        <5>2. last[d] \in Nat BY <3>1, TimersAssumption DEF Times
        <5> QED BY <3>1, <5>1, <5>2
      <4> QED BY <4>1, <4>2
    <3> QED BY <3>2
  <2>3. ASSUME NEW t \in Timers, hand[t] # Idle PROVE HandRead(hand[t])'
    <3>1. hand[t] \in Sweeps BY <2>3 DEF TypeOK
    <3> QED BY <2>1, <2>2, <2>3, <3>1, RowsRead DEF HandsRead, HandRead, Times
  <2> QED BY <2>1, <2>3 DEF HandsRead
<1>9. CASE TimePasses
  <2>1. now' = now + 1 /\ UNCHANGED <<last, hand>> BY <1>9 DEF TimePasses
  <2>2. \A t \in Timers : hand[t] # Idle => hand[t].at \in Times
    BY RowsRead DEF TypeOK
  <2> QED BY <2>1, <2>2 DEF HandsRead, HandRead, TypeOK, Times
<1>10. CASE Restart
  BY <1>10 DEF Restart, HandsRead
<1>11. ASSUME NEW c \in Children, End(c) PROVE HandsRead'
  BY <1>7, <1>11 DEF End
<1>12. ASSUME NEW c \in Children, NEW n \in Hints, Hint(c, n) PROVE HandsRead'
  BY <1>7, <1>12 DEF Hint
<1>13. CASE ParentEnds \/ UNCHANGED vars
  BY <1>7, <1>13 DEF ParentEnds, vars
<1>14. CASE Checkup \/ CheckupFails
  BY <1>7, <1>14 DEF Checkup, CheckupFails, TypeOK
<1>15. ASSUME NEW t \in Timers, SweepFails(t) PROVE HandsRead'
  BY <1>7, <1>15 DEF SweepFails, TypeOK
<1> QED
  BY <1>2, <1>3, <1>4, <1>5, <1>6, <1>8, <1>9, <1>10, <1>11, <1>12, <1>13, <1>14, <1>15
  DEF Next
-----------------------------------------------------------------------------
(* What steps do to the watchdog.                                          *)

(* Nothing: the family shrinks, or another timer is busy.                  *)
Calm ==
  /\ UNCHANGED <<now, last, memory, told>> /\ hand'["watch"] = hand["watch"]
  /\ parent' => parent
  /\ Live' \subseteq Live

(* A child is heard from.                                                  *)
HeardFrom(c) ==
  /\ last' = [last EXCEPT ![c] = now] /\ told' = [told EXCEPT ![c] = 0]
  /\ UNCHANGED <<now, memory, hand, parent>>
  /\ Live' \subseteq Live \cup {c}

(* The sweep goes on with c, and may end and forget those it did not read. *)
Moved(c) ==
  LET h == hand["watch"] IN
    /\ h # Idle /\ h \in Sweeps /\ HandRead(h) /\ c \in DOMAIN h.last
    /\ hand'["watch"] # Idle =>
         /\ hand'["watch"] \in Sweeps /\ hand'["watch"].at = h.at /\ hand'["watch"].last = h.last
         /\ hand'["watch"].acting \subseteq {c}
    /\ \A d \in Children : d # c =>
         \/ memory'[d] = memory[d]
         \/ memory'[d] = Afresh /\ hand'["watch"] = Idle /\ d \notin DOMAIN h.last
    /\ UNCHANGED <<now, last, parent, status>>

LEMMA WeighMoves ==
  ASSUME TypeOK, HandsRead, NEW c \in Children, Weigh(c)
  PROVE  /\ Moved(c) /\ memory'[c] = Weighed(c) /\ told' = told
         /\ hand'["watch"] # Idle /\ c \in hand'["watch"].acting => Reaches(c)
<1>t. "watch" \in Timers BY DEF Timers
<1> DEFINE h == hand["watch"]
           g == LookedAt(h, c, Reaches(c))
           m == [memory EXCEPT ![c] = Weighed(c)]
<1>1. h # Idle /\ h \in Sweeps /\ HandRead(h) /\ c \in DOMAIN h.last BY <1>t, InHand DEF Weigh
<1>2. g \in Sweeps /\ Becomes("watch", g) /\ m \in [Children -> Entries] /\ memory' = Kept(m, g)
  BY WeighEffect
<1>3. Reaches(c) \in BOOLEAN BY DEF Reaches
<1>4. g.at = h.at /\ g.last = h.last /\ g.acting \subseteq {c} /\ (g.acting # {} => Reaches(c))
  BY <1>1, <1>3, LookedAtSweep
<1>5. m[c] = Weighed(c) /\ \A d \in Children : d # c => m[d] = memory[d] BY DEF TypeOK
<1>6. UNCHANGED <<now, last, parent, status, told>> BY DEF Weigh, clock, family, history
<1> HIDE DEF g, m
<1>7. hand'["watch"] = IF Finished(g) THEN Idle ELSE g BY <1>t, <1>2, BecomesHand
<1>8. \A d \in Children :
        memory'[d] = IF Finished(g) /\ d \notin DOMAIN g.last THEN Afresh ELSE m[d]
  BY <1>2, KeptMemory
<1> QED BY <1>1, <1>2, <1>4, <1>5, <1>6, <1>7, <1>8 DEF Moved

LEMMA WakeMoves ==
  ASSUME TypeOK, HandsRead, NEW c \in Children, Wake(c) \/ WakeFails(c)
  PROVE  /\ Moved(c) /\ c \in hand["watch"].acting
         /\ hand'["watch"] # Idle => hand'["watch"].acting = {}
         /\ \/ told' = told /\ memory'[c] = memory[c]
            \/ /\ memory'[c].seen = memory[c].seen
               /\ memory'[c].attempt = NextAttempt(memory[c].attempt)
               /\ \/ told' = told
                  \/ /\ hand["watch"].last[c] = last[c]
                     /\ told' = [told EXCEPT ![c] = NextAttempt(@)]
<1>t. "watch" \in Timers BY DEF Timers
<1> DEFINE h == hand["watch"]
           g == Acted(h)
           m == [memory EXCEPT ![c].attempt = NextAttempt(@)]
<1>1. h # Idle /\ h \in Sweeps /\ HandRead(h) /\ c \in DOMAIN h.last /\ c \in h.acting
  BY <1>t, InHand DEF Wake, WakeFails, Acting
<1>2. g \in Sweeps /\ Becomes("watch", g) /\ m \in [Children -> Entries]
  BY SilenceOver
<1>3. memory \in [Children -> Entries] BY DEF TypeOK, Entries
<1>4. g.at = h.at /\ g.last = h.last /\ g.acting = {} BY <1>1, ActedSweep
<1>5. /\ m[c].seen = memory[c].seen /\ m[c].attempt = NextAttempt(memory[c].attempt)
      /\ \A d \in Children : d # c => m[d] = memory[d]
  BY <1>3 DEF Entries
<1>6. UNCHANGED <<now, last, parent, status>>
  BY DEF Wake, WakeFails, clock, family
<1>7. \/ memory' = Kept(memory, g) /\ told' = told
      \/ /\ memory' = Kept(m, g)
         /\ \/ told' = told
            \/ h.last[c] = last[c] /\ told' = [told EXCEPT ![c] = NextAttempt(@)]
  BY DEF Wake, WakeFails
<1> HIDE DEF g, m
<1>8. hand'["watch"] = IF Finished(g) THEN Idle ELSE g BY <1>t, <1>2, BecomesHand
<1>9. ASSUME NEW k \in [Children -> Entries], memory' = Kept(k, g),
             \A d \in Children : d # c => k[d] = memory[d]
      PROVE  /\ memory'[c] = k[c]
             /\ \A d \in Children : d # c =>
                  \/ memory'[d] = memory[d]
                  \/ memory'[d] = Afresh /\ hand'["watch"] = Idle /\ d \notin DOMAIN h.last
  <2>1. \A d \in Children :
          memory'[d] = IF Finished(g) /\ d \notin DOMAIN g.last THEN Afresh ELSE k[d]
    BY <1>2, <1>9, KeptMemory
  <2> QED BY <1>1, <1>4, <1>8, <1>9, <2>1
<1>10. CASE memory' = Kept(memory, g) /\ told' = told
  BY <1>1, <1>2, <1>3, <1>4, <1>6, <1>8, <1>9, <1>10 DEF Moved
<1>11. CASE /\ memory' = Kept(m, g)
            /\ \/ told' = told
               \/ h.last[c] = last[c] /\ told' = [told EXCEPT ![c] = NextAttempt(@)]
  BY <1>1, <1>2, <1>4, <1>5, <1>6, <1>8, <1>9, <1>11 DEF Moved
<1> QED BY <1>7, <1>10, <1>11

(* The sweep begins: with all children of a parent that listens.           *)
Begins ==
  /\ hand["watch"] = Idle
  /\ hand'["watch"] # Idle =>
       /\ hand'["watch"].acting = {} /\ DOMAIN hand'["watch"].last = Heard
       /\ \A d \in Heard : hand'["watch"].last[d] = last[d]
  /\ \A d \in Children : memory'[d] = memory[d] \/ (memory'[d] = Afresh /\ d \notin Heard)
  /\ UNCHANGED <<now, last, parent, status, told>>

LEMMA FireBegins ==
  ASSUME TypeOK, Fire("watch"), hand["watch"] = Idle
  PROVE  Begins
<1>t. "watch" \in Timers BY DEF Timers
<1> DEFINE g == Sweep("watch")
<1>1. Rows("watch") = Heard BY DEF Rows
<1>2. /\ g \in Sweeps /\ g.acting = {} /\ DOMAIN g.last = Heard
      /\ \A d \in Heard : g.last[d] = last[d]
  BY <1>t, <1>1, BeginsSweep
<1>3. Becomes("watch", g) /\ memory' = Kept(memory, g) BY DEF Fire
<1>4. memory \in [Children -> Entries] BY DEF TypeOK, Entries
<1>5. UNCHANGED <<now, last, parent, status, told>> BY DEF Fire, clock, family, history
<1> HIDE DEF g
<1>6. hand'["watch"] = IF Finished(g) THEN Idle ELSE g BY <1>t, <1>2, <1>3, BecomesHand
<1>7. \A d \in Children :
        memory'[d] = IF Finished(g) /\ d \notin DOMAIN g.last THEN Afresh ELSE memory[d]
  BY <1>2, <1>3, <1>4, KeptMemory
<1> QED BY <1>2, <1>5, <1>6, <1>7 DEF Begins

LEMMA OtherTimer ==
  ASSUME TypeOK, NEW t \in Timers, t # "watch", NEW h \in Sweeps, Becomes(t, h)
  PROVE  hand'["watch"] = hand["watch"]
  BY BecomesHand DEF Timers

LEMMA StepCases ==
  ASSUME TypeOK, HandsRead, [Next]_vars
  PROVE  \/ Calm \/ Begins \/ TimePasses \/ Restart
         \/ \E c \in Children : HeardFrom(c) \/ Weigh(c) \/ Wake(c) \/ WakeFails(c)
         \/ SweepFails("watch")
<1> USE DEF clock, family, store, history
<1>t. "watch" \in Timers /\ "reap" \in Timers /\ "checkup" \in Timers BY DEF Timers
<1>1. ASSUME NEW c \in Children, Spawn(c) \/ Emit(c) PROVE HeardFrom(c)
  BY <1>1 DEF Spawn, Emit, Heeds, HeardFrom, Live, TypeOK
<1>2. ASSUME NEW c \in Children, End(c) PROVE Calm
  BY <1>2 DEF End, Calm, Live, TypeOK
<1>3. ASSUME NEW c \in Children, NEW n \in Hints, Hint(c, n) PROVE Calm
  BY <1>3 DEF Hint, Calm, Live
<1>4. CASE ParentEnds \/ UNCHANGED vars
  BY <1>4 DEF ParentEnds, vars, Calm, Live
<1>5. ASSUME NEW c \in Children, Condemn(c) PROVE Calm
  <2>1. hand["reap"] \in Sweeps BY <1>5, <1>t, InHand DEF Condemn
  <2>2. PICK acts \in BOOLEAN : Becomes("reap", LookedAt(hand["reap"], c, acts))
    BY <1>5 DEF Condemn
  <2>3. hand'["watch"] = hand["watch"] BY <1>t, <2>1, <2>2, LookedAtSweep, OtherTimer
  <2> QED BY <1>5, <2>3 DEF Condemn, Calm, Live
<1>6. ASSUME NEW c \in Children, Reap(c) \/ ReapFails(c) PROVE Calm
  <2>1. hand["reap"] \in Sweeps BY <1>6, <1>t, InHand DEF Reap, ReapFails
  <2>2. hand'["watch"] = hand["watch"]
    BY <1>6, <1>t, <2>1, ActedSweep, OtherTimer DEF Reap, ReapFails
  <2> QED BY <1>6, <2>2 DEF Reap, ReapFails, Calm, Live, TypeOK
<1>7. CASE Checkup \/ CheckupFails
  BY <1>7, <1>t DEF Checkup, CheckupFails, Calm, Live, TypeOK
<1>8. ASSUME NEW t \in Timers, SweepFails(t) PROVE Calm \/ SweepFails("watch")
  <2>1. CASE t = "watch"
    BY <1>8, <2>1
  <2>2. CASE t # "watch"
    <3>1. hand'["watch"] = hand["watch"] BY <1>8, <1>t, <2>2 DEF SweepFails, TypeOK
    <3>2. UNCHANGED <<now, last, memory, told, parent, status>> BY <1>8 DEF SweepFails
    <3> QED BY <3>1, <3>2 DEF Calm, Live
  <2> QED BY <2>1, <2>2
<1>9. ASSUME NEW t \in Timers, Fire(t) PROVE Calm \/ Begins
  <2>1. CASE hand[t] # Idle
    BY <1>9, <2>1 DEF Fire, Calm, Live
  <2>2. CASE hand[t] = Idle /\ t = "watch"
    BY <1>9, <2>2, FireBegins
  <2>3. CASE hand[t] = Idle /\ t # "watch"
    <3>1. hand'["watch"] = hand["watch"] BY <1>9, <2>3, BeginsSweep, OtherTimer DEF Fire
    <3> QED BY <1>9, <2>3, <3>1 DEF Fire, Calm, Live
  <2> QED BY <2>1, <2>2, <2>3
<1> QED BY <1>1, <1>2, <1>3, <1>4, <1>5, <1>6, <1>7, <1>8, <1>9 DEF Next
-----------------------------------------------------------------------------
(* The watchdog's memory.                                                  *)

LEMMA SeenStep ==
  ASSUME TypeOK, Clocked, HandsRead, SeenPast, [Next]_vars
  PROVE  SeenPast'
<1>0. \A c \in Children : memory[c].seen \in Times /\ last[c] \in Times /\ last[c] <= now
  BY DEF TypeOK, Clocked
<1>a. Afresh.seen = 0 BY DEF Afresh
<1>1. ASSUME NEW c \in Children, Moved(c), memory'[c].seen <= last[c] PROVE SeenPast'
  <2>1. UNCHANGED last BY <1>1 DEF Moved
  <2>2. ASSUME NEW d \in Children, d # c PROVE memory'[d].seen <= last[d]
    BY <1>0, <1>1, <1>a, <2>2 DEF Moved, SeenPast, Times
  <2> QED BY <1>1, <2>1, <2>2 DEF SeenPast
<1>2. ASSUME NEW c \in Children, Weigh(c) PROVE SeenPast'
  <2>t. "watch" \in Timers BY DEF Timers
  <2>1. Moved(c) /\ memory'[c] = Weighed(c) BY <1>2, WeighMoves
  <2>2. /\ hand["watch"].last[c] \in Times /\ hand["watch"].last[c] <= last[c]
    BY <1>2, <2>t, InHand DEF Weigh, HandRead
  <2>3. memory[c] \in Entries BY DEF TypeOK, Entries
  <2>4. Weighed(c).seen <= last[c]
    BY <2>2, <2>3, RecallEntry DEF Weighed, SeenPast
  <2> QED BY <1>1, <2>1, <2>4
<1>3. ASSUME NEW c \in Children, Wake(c) \/ WakeFails(c) PROVE SeenPast'
  <2>1. Moved(c) /\ memory'[c].seen = memory[c].seen BY <1>3, WakeMoves
  <2> QED BY <1>1, <2>1 DEF SeenPast
<1>4. ASSUME NEW c \in Children, HeardFrom(c) PROVE SeenPast'
  <2>1. memory' = memory BY <1>4 DEF HeardFrom
  <2>2. last' = [last EXCEPT ![c] = now] BY <1>4 DEF HeardFrom
  <2>3. last \in [Children -> Times] BY DEF TypeOK
  <2>4. ASSUME NEW d \in Children PROVE memory[d].seen <= last'[d]
    <3>1. memory[d].seen <= last[d] /\ last[d] <= now BY <1>0 DEF SeenPast
    <3>2. CASE d = c
      <4>1. last'[d] = now BY <2>2, <2>3, <3>2
      <4>2. memory[d].seen \in Nat /\ last[d] \in Nat /\ now \in Nat
        BY <1>0 DEF TypeOK, Times
      <4> QED BY <3>1, <4>1, <4>2
    <3>3. CASE d # c
      <4>1. last'[d] = last[d] BY <2>2, <2>3, <3>3
      <4> QED BY <3>1, <4>1
    <3> QED BY <3>2, <3>3
  <2> QED BY <2>1, <2>4 DEF SeenPast
<1>5. CASE Begins
  BY <1>0, <1>5, <1>a DEF Begins, SeenPast, Times
<1>6. CASE Calm \/ SweepFails("watch") \/ TimePasses
  <2>1. UNCHANGED <<memory, last>>
    BY <1>6 DEF Calm, SweepFails, TimePasses, family
  <2> QED BY <2>1 DEF SeenPast
<1>7. CASE Restart
  <2>1. memory' = [c \in Children |-> Afresh] /\ UNCHANGED last
    BY <1>7 DEF Restart, family
  <2> QED BY <1>0, <1>a, <2>1 DEF SeenPast, Times
<1> QED BY <1>2, <1>3, <1>4, <1>5, <1>6, <1>7, StepCases

LEMMA ReachedStep ==
  ASSUME TypeOK, HandsRead, WakeReached, [Next]_vars
  PROVE  WakeReached'
<1>t. "watch" \in Timers BY DEF Timers
<1>1. ASSUME NEW c \in Children, Weigh(c) PROVE WakeReached'
  <2> DEFINE h == hand["watch"]
  <2>1. /\ Moved(c) /\ memory'[c] = Weighed(c)
        /\ hand'["watch"] # Idle /\ c \in hand'["watch"].acting => Reaches(c)
    BY <1>1, WeighMoves
  <2>2. h.last[c] \in Times /\ memory[c] \in Entries
    BY <1>1, <1>t, InHand DEF Weigh, TypeOK, Entries
  <2>3. ASSUME Reaches(c)
        PROVE  /\ Weighed(c).seen >= h.last[c]
               /\ h.at - h.last[c] >= Threshold(Weighed(c).attempt + 1)
    <3>1. Weighed(c) = Recall(memory[c], h.last[c]) BY <2>3 DEF Reaches, Weighed
    <3>2. /\ h.last[c] > memory[c].seen => Recall(memory[c], h.last[c]).seen = h.last[c]
          /\ ~(h.last[c] > memory[c].seen) => Recall(memory[c], h.last[c]) = memory[c]
      BY <2>2, RecallEntry
    <3>3. memory[c].seen \in Nat /\ h.last[c] \in Nat BY <2>2 DEF Entries, Times
    <3> HIDE DEF h
    <3>4. Weighed(c).seen >= h.last[c] BY <3>1, <3>2, <3>3
    <3> QED BY <2>3, <3>4 DEF Reaches, h
  <2>4. CASE hand'["watch"] # Idle
    <3>1. /\ hand'["watch"].at = h.at /\ hand'["watch"].last = h.last
          /\ hand'["watch"].acting \subseteq {c}
      BY <2>1, <2>4 DEF Moved
    <3> QED BY <2>1, <2>3, <2>4, <3>1 DEF WakeReached, Reached
  <2> QED BY <2>4 DEF WakeReached
<1>2. ASSUME NEW c \in Children, Wake(c) \/ WakeFails(c) PROVE WakeReached'
  <2>1. hand'["watch"] # Idle => hand'["watch"].acting = {} BY <1>2, WakeMoves
  <2> QED BY <2>1 DEF WakeReached
<1>3. CASE \/ Calm \/ TimePasses \/ \E c \in Children : HeardFrom(c)
  <2>1. UNCHANGED memory /\ hand'["watch"] = hand["watch"]
    BY <1>3 DEF Calm, TimePasses, HeardFrom
  <2> QED BY <2>1 DEF WakeReached, Reached
<1>4. CASE Begins
  BY <1>4 DEF Begins, WakeReached
<1>5. CASE SweepFails("watch") \/ Restart
  <2>1. hand'["watch"] = Idle BY <1>5, <1>t DEF SweepFails, Restart, TypeOK
  <2> QED BY <2>1 DEF WakeReached
<1> QED BY <1>1, <1>2, <1>3, <1>4, <1>5, StepCases

LEMMA UnreadStep ==
  ASSUME TypeOK, HandsRead, UnreadUntold, [Next]_vars
  PROVE  UnreadUntold'
<1>t. "watch" \in Timers BY DEF Timers
<1>1. ASSUME NEW c \in Children, Moved(c), \A d \in Children : d # c => told'[d] = told[d]
      PROVE  UnreadUntold'
  BY <1>1 DEF Moved, UnreadUntold, Live
<1>2. ASSUME NEW c \in Children, Weigh(c) PROVE UnreadUntold'
  BY <1>1, <1>2, WeighMoves
<1>3. ASSUME NEW c \in Children, Wake(c) \/ WakeFails(c) PROVE UnreadUntold'
  <2>1. Moved(c) /\ (told' = told \/ told' = [told EXCEPT ![c] = NextAttempt(@)])
    BY <1>3, WakeMoves
  <2>2. \A d \in Children : d # c => told'[d] = told[d] BY <2>1 DEF TypeOK
  <2> QED BY <1>1, <2>1, <2>2
<1>4. ASSUME NEW c \in Children, HeardFrom(c) PROVE UnreadUntold'
  BY <1>4 DEF HeardFrom, UnreadUntold, TypeOK, Live
<1>5. CASE Begins
  BY <1>5 DEF Begins, UnreadUntold, Heard, Live
<1>6. CASE Calm
  BY <1>6 DEF Calm, UnreadUntold
<1>7. CASE TimePasses
  BY <1>7 DEF TimePasses, UnreadUntold, Live, family
<1>8. CASE SweepFails("watch") \/ Restart
  <2>1. hand'["watch"] = Idle BY <1>8, <1>t DEF SweepFails, Restart, TypeOK
  <2> QED BY <2>1 DEF UnreadUntold
<1> QED BY <1>2, <1>3, <1>4, <1>5, <1>6, <1>7, <1>8, StepCases

(* A wake that is counted was still to be counted by the watchdog.         *)
LEMMA NextInOrder ==
  ASSUME NEW m \in 0 .. Len(Ladder) + 1, NEW n \in 0 .. Len(Ladder) + 1, m <= n
  PROVE  NextAttempt(m) <= NextAttempt(n)
  BY TimersAssumption DEF NextAttempt

LEMMA CountedStep ==
  ASSUME TypeOK, Clocked, HandsRead, SeenPast, WakeReached, UnreadUntold, WakesCounted, [Next]_vars
  PROVE  WakesCounted'
<1>t. "watch" \in Timers BY DEF Timers
<1>0. \A c \in Children : /\ told[c] \in 0 .. Len(Ladder) + 1 /\ last[c] \in Times
                          /\ memory[c].attempt \in 0 .. Len(Ladder) + 1 /\ memory[c].seen \in Times
  BY DEF TypeOK
<1>1. ASSUME NEW c \in Children, Moved(c), \A d \in Children : d # c => told'[d] = told[d],
             c \in Live => told'[c] = 0 \/ Remembered(c)'
      PROVE  WakesCounted'
  <2> DEFINE h == hand["watch"]
  <2>1. Live' = Live /\ UNCHANGED <<last, parent>> BY <1>1 DEF Moved, Live
  <2>2. ASSUME NEW d \in Live, d # c PROVE told'[d] = 0 \/ Remembered(d)' \/ Unheard(d)'
    <3>1. d \in Children /\ told'[d] = told[d] BY <1>1, <2>2 DEF Live
    <3>2. CASE memory'[d] = memory[d]
      <4>1. Remembered(d) => Remembered(d)' BY <2>1, <3>1, <3>2 DEF Remembered
      <4>2. Unheard(d) => Unheard(d)' BY <1>1, <2>1 DEF Unheard, Moved
      <4> QED BY <2>2, <3>1, <4>1, <4>2 DEF WakesCounted
    <3>3. CASE hand'["watch"] = Idle /\ d \notin DOMAIN h.last
      <4>1. h # Idle BY <1>1 DEF Moved
      <4>2. CASE parent
        BY <2>2, <3>1, <3>3, <4>1, <4>2 DEF UnreadUntold
      <4>3. CASE ~parent
        BY <2>1, <3>3, <4>3 DEF Unheard
      <4> QED BY <4>2, <4>3
    <3> QED BY <1>1, <2>2, <3>1, <3>2, <3>3 DEF Moved
  <2> QED BY <1>1, <2>1, <2>2 DEF WakesCounted
<1>2. ASSUME NEW c \in Children, Weigh(c) PROVE WakesCounted'
  <2>1. Moved(c) /\ memory'[c] = Weighed(c) /\ told' = told BY <1>2, WeighMoves
  <2>2. hand["watch"].last[c] \in Times /\ hand["watch"].last[c] <= last[c]
    BY <1>2, <1>t, InHand DEF Weigh, HandRead
  <2>3. memory[c] \in Entries BY DEF TypeOK, Entries
  <2>4. ASSUME Remembered(c) PROVE Remembered(c)'
    <3>1. ~(hand["watch"].last[c] > memory[c].seen)
      BY <1>0, <2>2, <2>4 DEF Remembered, Times
    <3>2. Weighed(c) = memory[c] BY <2>2, <2>3, <3>1, RecallEntry DEF Weighed
    <3> QED BY <2>1, <2>4, <3>2 DEF Remembered, Moved
  <2>5. ~Unheard(c) BY <2>1 DEF Unheard, Moved
  <2> QED BY <1>1, <2>1, <2>4, <2>5 DEF WakesCounted
<1>3. ASSUME NEW c \in Children, Wake(c) \/ WakeFails(c) PROVE WakesCounted'
  <2> DEFINE h == hand["watch"]
  <2>1. /\ Moved(c) /\ c \in h.acting
        /\ \/ told' = told /\ memory'[c] = memory[c]
           \/ /\ memory'[c].seen = memory[c].seen
              /\ memory'[c].attempt = NextAttempt(memory[c].attempt)
              /\ \/ told' = told
                 \/ h.last[c] = last[c] /\ told' = [told EXCEPT ![c] = NextAttempt(@)]
    BY <1>3, WakeMoves
  <2>2. \A d \in Children : d # c => told'[d] = told[d] BY <2>1 DEF TypeOK
  <2>3. ~Unheard(c) /\ UNCHANGED last BY <2>1 DEF Unheard, Moved
  <2>4. NextAttempt(memory[c].attempt) >= memory[c].attempt BY <1>0, NextAttemptType
  <2>5. CASE told' = told
    <3>1. Remembered(c) => Remembered(c)'
      <4>1. memory'[c].seen = memory[c].seen BY <2>1
      <4>2. memory'[c].attempt >= memory[c].attempt /\ memory'[c].attempt \in Nat
        <5>1. memory[c].attempt \in Nat /\ NextAttempt(memory[c].attempt) \in Nat
          BY <1>0, NextAttemptType
        <5>2. memory'[c].attempt \in {memory[c].attempt, NextAttempt(memory[c].attempt)}
          BY <2>1
        <5> QED BY <2>4, <5>1, <5>2
      <4> QED BY <1>0, <2>3, <2>5, <4>1, <4>2 DEF Remembered
    <3> QED BY <1>1, <2>1, <2>2, <2>3, <2>5, <3>1 DEF WakesCounted
  <2>6. CASE h.last[c] = last[c] /\ told' = [told EXCEPT ![c] = NextAttempt(@)]
    <3>1. told'[c] = NextAttempt(told[c]) BY <2>6 DEF TypeOK
    <3>2. Reached(h, c) BY <2>1 DEF WakeReached, Moved
    <3>3. memory[c].seen = last[c] BY <1>0, <2>6, <3>2 DEF Reached, SeenPast, Times
    <3>4. CASE c \in Live
      <4>1. told[c] <= memory[c].attempt BY <1>0, <2>3, <3>4 DEF WakesCounted, Remembered
      <4>2. CASE /\ memory'[c].seen = memory[c].seen
                 /\ memory'[c].attempt = NextAttempt(memory[c].attempt)
        BY <1>0, <1>1, <2>1, <2>2, <2>3, <3>1, <3>3, <4>1, <4>2, NextInOrder DEF Remembered
      <4>3. CASE told' = told /\ memory'[c] = memory[c]
        BY <2>5, <4>3
      <4> QED BY <2>1, <4>2, <4>3
    <3> QED BY <1>1, <2>1, <2>2, <3>4
  <2> QED BY <2>1, <2>5, <2>6
<1>4. ASSUME NEW c \in Children, HeardFrom(c) PROVE WakesCounted'
  <2>1. told'[c] = 0 /\ \A d \in Children : d # c => told'[d] = told[d] /\ last'[d] = last[d]
    BY <1>4 DEF HeardFrom, TypeOK
  <2>2. UNCHANGED <<memory, hand, parent>> /\ Live' \subseteq Live \cup {c} BY <1>4 DEF HeardFrom
  <2>3. Live \subseteq Children BY DEF Live
  <2> QED BY <2>1, <2>2, <2>3 DEF WakesCounted, Remembered, Unheard
<1>5. CASE Begins
  <2>1. ASSUME NEW d \in Live PROVE told'[d] = 0 \/ Remembered(d)' \/ Unheard(d)'
    <3>1. d \in Children BY DEF Live
    <3>2. CASE parent
      <4>1. memory'[d] = memory[d] BY <1>5, <3>1, <3>2 DEF Begins, Heard
      <4> QED BY <1>5, <3>2, <4>1 DEF Begins, WakesCounted, Remembered, Unheard
    <3>3. CASE ~parent
      BY <1>5, <3>3 DEF Begins, Heard, Unheard
    <3> QED BY <3>2, <3>3
  <2> QED BY <1>5, <2>1 DEF Begins, WakesCounted, Live
<1>6. CASE Calm
  BY <1>6 DEF Calm, WakesCounted, Remembered, Unheard
<1>7. CASE TimePasses
  BY <1>7 DEF TimePasses, WakesCounted, Remembered, Unheard, Live, family
<1>8. CASE SweepFails("watch")
  <2>1. hand'["watch"] = Idle BY <1>8, <1>t DEF SweepFails, TypeOK
  <2> QED BY <1>8, <2>1 DEF SweepFails, WakesCounted, Remembered, Unheard, Live, family
<1>9. CASE Restart
  <2>1. told' = [c \in Children |-> 0] BY <1>9 DEF Restart
  <2> QED BY <2>1 DEF WakesCounted, Live
<1> QED BY <1>2, <1>3, <1>4, <1>5, <1>6, <1>7, <1>8, <1>9, StepCases
-----------------------------------------------------------------------------
(* The ladder.                                                             *)

Passed(n) == {k \in 1 .. Len(Ladder) : Ladder[k] <= n}   \* the rungs below a silence

LEMMA PassedFinite ==
  ASSUME NEW n
  PROVE  IsFiniteSet(Passed(n)) /\ Cardinality(Passed(n)) \in Nat
<1>1. IsFiniteSet(1 .. Len(Ladder)) BY FS_Interval, TimersAssumption
<1>2. Passed(n) \subseteq 1 .. Len(Ladder) BY DEF Passed
<1> QED BY <1>1, <1>2, FS_Subset, FS_CardinalityType

LEMMA MorePassed ==
  ASSUME NEW m \in Nat, NEW n \in Nat, m <= n
  PROVE  Cardinality(Passed(m)) <= Cardinality(Passed(n))
<1>1. \A k \in 1 .. Len(Ladder) : Ladder[k] \in Nat BY TimersAssumption
<1>2. Passed(m) \subseteq Passed(n) BY <1>1 DEF Passed
<1> QED BY <1>2, PassedFinite, FS_Subset

(* Who waited for the rung of an attempt has as many rungs behind it.      *)
LEMMA RungPassed ==
  ASSUME NEW n \in 1 .. Len(Ladder) + 2, NEW silence \in Nat,
         silence >= Threshold(n), silence < Ladder[Len(Ladder)]
  PROVE  n <= Cardinality(Passed(silence))
<1>1. Len(Ladder) \in Nat \ {0} /\ \A k \in 1 .. Len(Ladder) : Ladder[k] \in Nat
  BY TimersAssumption
<1>2. n < Len(Ladder)
  <2>1. n >= Len(Ladder) => Threshold(n) = Ladder[Len(Ladder)] BY <1>1 DEF Threshold, Rung
  <2> QED BY <1>1, <2>1
<1>3. Ladder[n] <= silence BY <1>1, <1>2 DEF Threshold, Rung
<1>4. 1 .. n \subseteq Passed(silence)
  <2>1. ASSUME NEW k \in 1 .. n, k # n PROVE Ladder[k] < Ladder[n]
    <3>1. k \in 1 .. Len(Ladder) /\ n \in 1 .. Len(Ladder) /\ k < n BY <1>1, <1>2, <2>1
    <3> QED BY <3>1, TimersAssumption
  <2> QED BY <1>1, <1>2, <1>3, <2>1 DEF Passed
<1>5. Cardinality(1 .. n) = n BY FS_Interval
<1> QED BY <1>4, <1>5, PassedFinite, FS_Subset

LEMMA LadderStep ==
  ASSUME TypeOK, Clocked, HandsRead, SeenPast, WakeReached, WakesCounted, LadderClimbed,
         [Next]_vars
  PROVE  LadderClimbed'
<1> USE DEF Passed
<1>t. "watch" \in Timers BY DEF Timers
<1>0. \A c \in Children : /\ told[c] \in Nat /\ last[c] \in Nat /\ last[c] <= now
                          /\ memory[c].attempt \in 0 .. Len(Ladder) + 1 /\ memory[c].seen \in Nat
                          /\ Silence(c) \in Nat
  BY DEF TypeOK, Clocked, Times, Silence
<1>a. now \in Nat /\ Ladder[Len(Ladder)] \in Nat BY TimersAssumption DEF TypeOK, Times
<1>1. ASSUME NEW c, UNCHANGED <<now, last>>, Live' \subseteq Live \cup {c},
             \A d \in Children : d # c => told'[d] = told[d],
             c \in Live' /\ Silence(c)' < Ladder[Len(Ladder)] =>
               told'[c] <= Cardinality(Passed(Silence(c)'))
      PROVE  LadderClimbed'
  <2>1. Live \subseteq Children BY DEF Live
  <2>2. \A d \in Live : Silence(d)' = Silence(d) BY <1>1 DEF Silence
  <2> QED BY <1>1, <2>1, <2>2 DEF LadderClimbed
<1>2. ASSUME UNCHANGED <<now, last, told>>, Live' \subseteq Live PROVE LadderClimbed'
  BY <1>2 DEF LadderClimbed, Silence
<1>3. ASSUME NEW c \in Children, Weigh(c) PROVE LadderClimbed'
  <2>1. Moved(c) /\ told' = told BY <1>3, WeighMoves
  <2> QED BY <1>2, <2>1 DEF Moved, Live
<1>4. ASSUME NEW c \in Children, Wake(c) \/ WakeFails(c) PROVE LadderClimbed'
  <2> DEFINE h == hand["watch"]
  <2>1. /\ Moved(c) /\ c \in h.acting
        /\ \/ told' = told
           \/ h.last[c] = last[c] /\ told' = [told EXCEPT ![c] = NextAttempt(@)]
    BY <1>4, WakeMoves
  <2>2. Live' = Live /\ UNCHANGED <<now, last>> BY <2>1 DEF Moved, Live
  <2>3. CASE told' = told
    BY <1>2, <2>2, <2>3
  <2>4. CASE h.last[c] = last[c] /\ told' = [told EXCEPT ![c] = NextAttempt(@)]
    <3>1. told'[c] = NextAttempt(told[c]) /\ \A d \in Children : d # c => told'[d] = told[d]
      BY <2>4 DEF TypeOK
    <3>2. told'[c] \in Nat /\ told'[c] <= told[c] + 1
      <4>1. told[c] \in 0 .. Len(Ladder) + 1 BY DEF TypeOK
      <4> QED BY <3>1, <4>1, NextAttemptType
    <3>3. ASSUME c \in Live, Silence(c) < Ladder[Len(Ladder)]
          PROVE  told'[c] <= Cardinality(Passed(Silence(c)))
      <4> DEFINE n == memory[c].attempt + 1
      <4>1. h # Idle /\ h \in Sweeps /\ HandRead(h) BY <2>1 DEF Moved
      <4>2. h.at \in Nat /\ h.at <= now BY <4>1, RowsRead DEF HandRead, Times
      <4>3. Reached(h, c) BY <2>1, <4>1 DEF WakeReached
      <4>4. h.at - last[c] >= Threshold(n) BY <2>4, <4>3 DEF Reached
      <4>5. n \in 1 .. Len(Ladder) + 2 BY <1>0, TimersAssumption
      <4>6. Threshold(n) \in Nat BY <4>5, TimersAssumption DEF Threshold, Rung
      <4> HIDE DEF h, n
      <4>7. Silence(c) >= Threshold(n)
        BY <1>0, <1>a, <4>2, <4>4, <4>6 DEF Silence
      <4>8. n <= Cardinality(Passed(Silence(c)))
        BY <1>0, <3>3, <4>5, <4>7, RungPassed DEF Silence
      <4>9. told[c] <= memory[c].attempt
        <5>1. h # Idle /\ c \in DOMAIN h.last BY <2>1 DEF Moved, h
        <5>2. ~Unheard(c) BY <5>1 DEF Unheard, h
        <5> QED BY <1>0, <3>3, <5>2 DEF WakesCounted, Remembered
      <4> HIDE DEF Passed
      <4>10. Cardinality(Passed(Silence(c))) \in Nat BY PassedFinite
      <4>11. memory[c].attempt \in Nat BY <1>0
      <4> QED BY <1>0, <3>2, <4>8, <4>9, <4>10, <4>11 DEF n
    <3>4. Silence(c)' = Silence(c) BY <2>2 DEF Silence
    <3> QED BY <1>1, <2>2, <3>1, <3>3, <3>4
  <2> QED BY <2>1, <2>3, <2>4
<1>5. ASSUME NEW c \in Children, HeardFrom(c) PROVE LadderClimbed'
  <2>1. /\ told'[c] = 0 /\ UNCHANGED now
        /\ \A d \in Children : d # c => told'[d] = told[d] /\ last'[d] = last[d]
    BY <1>5 DEF HeardFrom, TypeOK
  <2>2. Live' \subseteq Live \cup {c} /\ Live \subseteq Children BY <1>5 DEF HeardFrom, Live
  <2>3. told'[c] <= Cardinality(Passed(Silence(c)'))
    <3>1. Cardinality(Passed(Silence(c)')) \in Nat BY PassedFinite
    <3> QED BY <2>1, <3>1
  <2>4. ASSUME NEW d \in Live', d # c, Silence(d)' < Ladder[Len(Ladder)]
        PROVE  told'[d] <= Cardinality(Passed(Silence(d)'))
    <3>1. d \in Live /\ told'[d] = told[d] /\ Silence(d)' = Silence(d)
      BY <2>1, <2>2, <2>4 DEF Silence
    <3> QED BY <2>4, <3>1 DEF LadderClimbed
  <2> QED BY <2>3, <2>4 DEF LadderClimbed
<1>6. CASE Calm \/ Begins \/ SweepFails("watch")
  <2>1. UNCHANGED <<now, last, told>> /\ Live' \subseteq Live
    BY <1>6 DEF Calm, Begins, SweepFails, clock, family, Live
  <2> QED BY <1>2, <2>1
<1>7. CASE TimePasses
  <2>1. now' = now + 1 /\ UNCHANGED <<last, told>> /\ Live' = Live
    BY <1>7 DEF TimePasses, family, Live
  <2>2. ASSUME NEW d \in Live, Silence(d)' < Ladder[Len(Ladder)]
        PROVE  told[d] <= Cardinality(Passed(Silence(d)'))
    <3>1. d \in Children BY DEF Live
    <3>2. Silence(d)' = Silence(d) + 1 BY <1>0, <1>a, <2>1, <3>1 DEF Silence
    <3>3. Silence(d) \in Nat /\ Silence(d)' \in Nat BY <1>0, <3>1, <3>2
    <3> HIDE DEF Passed
    <3>4. Cardinality(Passed(Silence(d))) <= Cardinality(Passed(Silence(d)'))
      BY <3>2, <3>3, MorePassed
    <3>5. told[d] <= Cardinality(Passed(Silence(d)))
      BY <1>a, <2>2, <3>2, <3>3 DEF LadderClimbed, Passed
    <3>6. Cardinality(Passed(Silence(d))) \in Nat /\ Cardinality(Passed(Silence(d)')) \in Nat
      BY PassedFinite
    <3> QED BY <1>0, <3>1, <3>4, <3>5, <3>6
  <2> QED BY <2>1, <2>2 DEF LadderClimbed
<1>8. CASE Restart
  <2>1. \A d \in Children : told'[d] = 0 BY <1>8 DEF Restart
  <2>2. \A d \in Children : Cardinality(Passed(Silence(d)')) \in Nat BY PassedFinite
  <2>3. Live' \subseteq Children BY DEF Live
  <2> QED BY <2>1, <2>2, <2>3 DEF LadderClimbed
<1> QED BY <1>3, <1>4, <1>5, <1>6, <1>7, <1>8, StepCases
-----------------------------------------------------------------------------
(* The invariant.                                                          *)

LEMMA InitInvariant == Init => TInv
<1> SUFFICES ASSUME Init PROVE TInv OBVIOUS
<1> USE TimersAssumption
<1>0. Live = {} BY DEF Init, Live
<1>1. \A t \in Timers : hand[t] = Idle BY DEF Init
<1>2. TypeOK
  <2>1. memory \in [Children -> [attempt : 0 .. Len(Ladder) + 1, seen : Times]]
    BY DEF Init, Afresh, Times
  <2> QED BY <2>1 DEF Init, TypeOK, Times
<1>3. Clocked BY DEF Init, Clocked
<1>4. SeenPast BY DEF Init, SeenPast, Afresh
<1>5. "watch" \in Timers BY DEF Timers
<1> QED BY <1>0, <1>1, <1>2, <1>3, <1>4, <1>5
        DEF TInv, HandsRead, WakeReached, UnreadUntold, WakesCounted, LadderClimbed

LEMMA StepInvariant == TInv /\ [Next]_vars => TInv'
  BY TypeStep, ClockStep, HandsStep, SeenStep, ReachedStep, UnreadStep, CountedStep, LadderStep
  DEF TInv

LEMMA Invariance == Spec => []TInv
  BY InitInvariant, StepInvariant, PTL DEF Spec

(* The sweeps' memories, hands and counters keep their types, whatever the *)
(* ladder and the family.                                                  *)
THEOREM TimerTypes == Spec => []TypeOK
<1>1. TInv => TypeOK BY DEF TInv
<1> QED BY <1>1, Invariance, PTL

(* The watchdog's back-off holds below its last rung: one silence gives    *)
(* the parent no more wakes than the rungs it has outlasted, however the   *)
(* sweeps, their awaits, the events and the restarts interleave.           *)
THEOREM LadderIsClimbed == Spec => []LadderClimbed
<1>1. TInv => LadderClimbed BY DEF TInv
<1> QED BY <1>1, Invariance, PTL
=============================================================================
