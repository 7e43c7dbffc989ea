--------------------- MODULE OrchestratorDeadlines_proofs ---------------------
(***************************************************************************)
(* The promises of OrchestratorTimers that have a deadline, for any number *)
(* of children, any ladder, thresholds, cadence and hints, any deployment  *)
(* and any set of faults.                                                  *)
(*                                                                         *)
(* The argument is the same for the three timers.  A child that this       *)
(* minute's sweep is done with (Done) is within its limit, or excused      *)
(* until this minute (Covered without slack); the clock moves only when    *)
(* every sweep is done with every child, or blames a slow sweep; hence one *)
(* minute of slack, or the reaper's two, is never exceeded.                *)
(***************************************************************************)
EXTENDS OrchestratorTimers_proofs

(* A sweep belongs to this minute, or something is to blame.               *)
HandTimed ==
  \A t \in Timers : hand[t] # Idle => (t \notin due /\ hand[t].at = now) \/ now <= hindered

(* It acts on one child at a time.                                         *)
OneAtATime == \A t \in Timers : hand[t] # Idle => \A c, d \in hand[t].acting : c = d

(* What it did not read as it is now was heard from since it began.        *)
Listening(t) == t = "reap" \/ parent
Known(t, c) == c \in DOMAIN hand[t].last /\ hand[t].last[c] = last[c]
RowsKnown ==
  \A t \in Timers : hand[t] # Idle /\ Listening(t) =>
    \A c \in Live : Known(t, c) \/ hand[t].at <= last[c]

HintsHeld == \A c \in Children : quiet[c] <= hushed[c]

BInv == TInv /\ HandTimed /\ OneAtATime /\ RowsKnown /\ HintsHeld

(* This minute's sweep is done with c.                                     *)
Done(t, c) ==
  t \notin due /\ (hand[t] # Idle => c \notin hand[t].todo /\ c \notin hand[t].acting)

Covered(c, limit, slack) ==
  \/ now < last[c] + limit + slack
  \/ now <= hushed[c] + slack
  \/ now <= hindered + slack
-----------------------------------------------------------------------------
(* What a step does to a child: nothing that brings its limit nearer.      *)
Onward ==
  /\ UNCHANGED <<enabled, now, up>> /\ (parent' => parent)
  /\ hindered' = hindered \/ hindered' = now
Keeps(c) ==
  /\ hushed'[c] = hushed[c] \/ hushed'[c] >= now
  /\ \/ last'[c] = now
     \/ last'[c] = last[c] /\ (c \in Live' => c \in Live) /\ (c \in warned => c \in warned')
  /\ (c \in Live' => c \in Live /\ born'[c] = born[c]) \/ born'[c] = now

LEMMA StepKeeps ==
  ASSUME TypeOK, [Next]_vars, ~TimePasses, ~Restart
  PROVE  Onward /\ \A c \in Children : Keeps(c)
<1> USE DEF clock, family, store, history, Onward
<1>1. ASSUME NEW d \in Children, Spawn(d) \/ Emit(d)
      PROVE  Onward /\ \A c \in Children : Keeps(c)
  <2>1. /\ UNCHANGED <<enabled, now, up, parent, hushed, hindered>>
        /\ last' = [last EXCEPT ![d] = now] /\ warned' = warned \ {d}
    BY <1>1 DEF Spawn, Emit, Heeds
  <2>2. \/ UNCHANGED <<status, born>>
        \/ status' = [status EXCEPT ![d] = "live"] /\ born' = [born EXCEPT ![d] = now]
    BY <1>1 DEF Spawn, Emit
  <2>3. ASSUME NEW c \in Children PROVE Keeps(c)
    BY <2>1, <2>2 DEF Keeps, Live, TypeOK
  <2> QED BY <2>1, <2>3
<1>2. ASSUME NEW d \in Children, NEW n \in Hints, Hint(d, n)
      PROVE  Onward /\ \A c \in Children : Keeps(c)
  <2>1. now + n >= now /\ n \in Nat BY TimersAssumption DEF TypeOK, Times
  <2> QED BY <1>2, <2>1 DEF Hint, Keeps, Live, TypeOK
<1>3. ASSUME UNCHANGED <<now, last, hushed, born, warned>>, Live' \subseteq Live
      PROVE  \A c \in Children : Keeps(c)
  BY <1>3 DEF Keeps
<1>4. ASSUME NEW d \in Children, End(d) \/ Reap(d) \/ ReapFails(d)
      PROVE  Onward /\ \A c \in Children : Keeps(c)
  BY <1>3, <1>4 DEF End, Reap, ReapFails, Live, TypeOK
<1>5. ASSUME NEW d \in Children, Weigh(d) \/ WakeFails(d) \/ Condemn(d)
      PROVE  Onward /\ \A c \in Children : Keeps(c)
  BY <1>3, <1>5 DEF Weigh, WakeFails, Condemn, LookAtHint, Live
<1>6. ASSUME NEW d \in Children, Wake(d)
      PROVE  Onward /\ \A c \in Children : Keeps(c)
  <2>1. /\ UNCHANGED <<enabled, now, up, parent, last, hushed, born, status, hindered>>
        /\ warned \subseteq warned'
    BY <1>6 DEF Wake
  <2> QED BY <2>1 DEF Keeps, Live
<1>7. ASSUME NEW t \in Timers, Fire(t) \/ SweepFails(t)
      PROVE  Onward /\ \A c \in Children : Keeps(c)
  BY <1>3, <1>7 DEF Fire, SweepFails, Live
<1>8. ASSUME ParentEnds \/ Checkup \/ CheckupFails \/ UNCHANGED vars
      PROVE  Onward /\ \A c \in Children : Keeps(c)
  BY <1>3, <1>8 DEF ParentEnds, Checkup, CheckupFails, vars, Live
<1> QED BY <1>1, <1>2, <1>4, <1>5, <1>6, <1>7, <1>8 DEF Next

(* A limit that covered a child still does.                                *)
LEMMA StaysCovered ==
  ASSUME TypeOK, TypeOK', NEW c \in Children, Onward, Keeps(c),
         NEW limit \in Nat \ {0}, NEW slack \in Nat,
         Covered(c, limit, slack)
  PROVE  Covered(c, limit, slack)'
<1>1. /\ now \in Nat /\ last[c] \in Nat /\ hushed[c] \in Nat /\ hindered \in Nat
      /\ hushed'[c] \in Nat
  BY DEF TypeOK, Times
<1>a. now' = now BY DEF Onward
<1>2. CASE hindered' = now BY <1>1, <1>a, <1>2 DEF Covered
<1>3. CASE hindered' = hindered
  <2>1. CASE last'[c] = now BY <1>1, <1>a, <2>1 DEF Covered
  <2>2. CASE last'[c] = last[c] /\ hushed'[c] = hushed[c]
    BY <1>1, <1>a, <1>3, <2>2 DEF Covered
  <2>3. CASE last'[c] = last[c] /\ hushed'[c] >= now
    BY <1>1, <1>a, <2>3 DEF Covered
  <2> QED BY <2>1, <2>2, <2>3 DEF Keeps
<1> QED BY <1>2, <1>3 DEF Onward
-----------------------------------------------------------------------------
(* What a step does to a sweep.                                            *)

Looks(t, c) == (t = "watch" /\ Weigh(c)) \/ (t = "reap" /\ Condemn(c))
Acts(t, c) ==
  \/ t = "watch" /\ (Wake(c) \/ WakeFails(c))
  \/ t = "reap" /\ (Reap(c) \/ ReapFails(c))

LEMMA TimerSteps ==
  ASSUME TypeOK, HandsRead, [Next]_vars, ~TimePasses, ~Restart, NEW t \in Timers
  PROVE  \/ Fire(t)
         \/ /\ t \in due' <=> t \in due
            /\ \/ hand'[t] = hand[t]
               \/ hand'[t] = Idle /\ hindered' = now
               \/ t = "checkup" /\ Checkup
               \/ due' = due /\ \E c \in Children : Looks(t, c) \/ Acts(t, c)
<1> USE DEF clock, family, store, history
<1>t. "watch" \in Timers /\ "reap" \in Timers /\ "checkup" \in Timers BY DEF Timers
<1>1. ASSUME NEW c \in Children,
             \/ Spawn(c) \/ Emit(c) \/ End(c) \/ \E n \in Hints : Hint(c, n)
      PROVE  UNCHANGED <<hand, due>>
  BY <1>1 DEF Spawn, Emit, End, Hint
<1>2. ASSUME NEW c \in Children, Weigh(c), t # "watch" PROVE hand'[t] = hand[t] /\ due' = due
  <2>1. hand["watch"] \in Sweeps BY <1>2, <1>t, InHand DEF Weigh
  <2>2. PICK h \in Sweeps : Becomes("watch", h) BY <1>2, WeighEffect
  <2> QED BY <1>2, <1>t, <2>2, BecomesHand DEF Weigh
<1>3. ASSUME NEW c \in Children, Wake(c) \/ WakeFails(c), t # "watch"
      PROVE  hand'[t] = hand[t] /\ due' = due
  <2>1. PICK h \in Sweeps : Becomes("watch", h) BY <1>3, SilenceOver
  <2> QED BY <1>3, <1>t, <2>1, BecomesHand DEF Wake, WakeFails
<1>4. ASSUME NEW c \in Children, Condemn(c), t # "reap" PROVE hand'[t] = hand[t] /\ due' = due
  <2>1. hand["reap"] \in Sweeps BY <1>4, <1>t, InHand DEF Condemn
  <2>2. PICK acts \in BOOLEAN : Becomes("reap", LookedAt(hand["reap"], c, acts))
    BY <1>4 DEF Condemn
  <2> QED BY <1>4, <1>t, <2>1, <2>2, LookedAtSweep, BecomesHand DEF Condemn
<1>5. ASSUME NEW c \in Children, Reap(c) \/ ReapFails(c), t # "reap"
      PROVE  hand'[t] = hand[t] /\ due' = due
  <2>1. hand["reap"] \in Sweeps BY <1>5, <1>t, InHand DEF Reap, ReapFails
  <2> QED BY <1>5, <1>t, <2>1, ActedSweep, BecomesHand DEF Reap, ReapFails
<1>6. ASSUME NEW c \in Children,
             Weigh(c) \/ Wake(c) \/ WakeFails(c) \/ Condemn(c) \/ Reap(c) \/ ReapFails(c)
      PROVE  due' = due /\ (hand'[t] = hand[t] \/ Looks(t, c) \/ Acts(t, c))
  <2>1. due' = due BY <1>6 DEF Weigh, Wake, WakeFails, Condemn, Reap, ReapFails
  <2>2. CASE Weigh(c)
    <3>1. t = "watch" => Looks(t, c) BY <2>2 DEF Looks
    <3> QED BY <1>2, <2>1, <2>2, <3>1
  <2>3. CASE Wake(c) \/ WakeFails(c)
    <3>1. t = "watch" => Acts(t, c) BY <2>3 DEF Acts
    <3> QED BY <1>3, <2>1, <2>3, <3>1
  <2>4. CASE Condemn(c)
    <3>1. t = "reap" => Looks(t, c) BY <2>4 DEF Looks
    <3> QED BY <1>4, <2>1, <2>4, <3>1
  <2>5. CASE Reap(c) \/ ReapFails(c)
    <3>1. t = "reap" => Acts(t, c) BY <2>5 DEF Acts
    <3> QED BY <1>5, <2>1, <2>5, <3>1
  <2> QED BY <1>6, <2>2, <2>3, <2>4, <2>5
<1>7. ASSUME NEW u \in Timers, Fire(u), u # t
      PROVE  hand'[t] = hand[t] /\ (t \in due' <=> t \in due)
  <2>1. CASE hand[u] # Idle BY <1>7, <2>1 DEF Fire
  <2>2. CASE hand[u] = Idle
    BY <1>7, <2>2, BeginsSweep, BecomesHand DEF Fire
  <2> QED BY <2>1, <2>2
<1>8. ASSUME NEW u \in Timers, SweepFails(u)
      PROVE  due' = due /\ (hand'[t] = hand[t] \/ (hand'[t] = Idle /\ hindered' = now))
  BY <1>8 DEF SweepFails, TypeOK
<1>9. CASE Checkup
  BY <1>9, <1>t DEF Checkup, TypeOK
<1>10. CASE CheckupFails
  BY <1>10, <1>t DEF CheckupFails, TypeOK
<1>11. CASE ParentEnds \/ UNCHANGED vars
  BY <1>11 DEF ParentEnds, vars
<1> QED BY <1>1, <1>6, <1>7, <1>8, <1>9, <1>10, <1>11 DEF Next

(* A sweep goes on, with no more than some of the children in hand.        *)
GoesOn(t, some) ==
  /\ hand[t] # Idle
  /\ hand'[t] # Idle =>
       /\ hand'[t].at = hand[t].at /\ hand'[t].last = hand[t].last
       /\ hand'[t].acting \subseteq some

LEMMA LookingAt ==
  ASSUME TypeOK, NEW t \in Timers, NEW c \in Children, Scanning(t, c), due' = due,
         NEW acts \in BOOLEAN, Becomes(t, LookedAt(hand[t], c, acts))
  PROVE  /\ GoesOn(t, {c})
         /\ \A d \in Children : Done(t, d)' => IF d = c THEN ~acts ELSE Done(t, d)
<1> DEFINE h == hand[t]
           g == LookedAt(h, c, acts)
<1>1. h # Idle /\ h \in Sweeps /\ h.acting = {} BY DEF Scanning, TypeOK
<1>2. g \in Sweeps /\ g.at = h.at /\ g.last = h.last /\ g.todo = h.todo \ {c}
  BY <1>1, LookedAtSweep
<1>3. g.acting = IF acts THEN {c} ELSE {} BY <1>1 DEF LookedAt, Sweeps
<1> HIDE DEF g
<1>4. hand'[t] = IF Finished(g) THEN Idle ELSE g BY <1>2, BecomesHand DEF g
<1>5. GoesOn(t, {c}) BY <1>1, <1>2, <1>3, <1>4 DEF GoesOn
<1>6. ASSUME NEW d \in Children, Done(t, d)' PROVE IF d = c THEN ~acts ELSE Done(t, d)
  <2>1. CASE Finished(g) BY <1>1, <1>2, <1>3, <1>6, <2>1 DEF Finished, Done
  <2>2. CASE ~Finished(g)
    <3>1. g # Idle BY <1>2, <2>2 DEF Finished, Idle, Sweeps
    <3> QED BY <1>1, <1>2, <1>3, <1>4, <1>6, <2>2, <3>1 DEF Done
  <2> QED BY <2>1, <2>2
<1> QED BY <1>5, <1>6

LEMMA ActingOn ==
  ASSUME TypeOK, OneAtATime, NEW t \in Timers, NEW c \in Children, Acting(t, c), due' = due,
         Becomes(t, Acted(hand[t]))
  PROVE  /\ GoesOn(t, {})
         /\ \A d \in Children : Done(t, d)' => d = c \/ Done(t, d)
<1> DEFINE h == hand[t]
           g == Acted(h)
<1>1. h # Idle /\ h \in Sweeps /\ h.acting = {c} BY DEF Acting, OneAtATime, TypeOK
<1>2. g \in Sweeps /\ g.at = h.at /\ g.last = h.last /\ g.todo = h.todo /\ g.acting = {}
  BY <1>1, ActedSweep
<1> HIDE DEF g
<1>3. hand'[t] = IF Finished(g) THEN Idle ELSE g BY <1>2, BecomesHand DEF g
<1>4. GoesOn(t, {}) BY <1>1, <1>2, <1>3 DEF GoesOn
<1>5. ASSUME NEW d \in Children, Done(t, d)' PROVE d = c \/ Done(t, d)
  <2>1. CASE Finished(g) BY <1>1, <1>2, <1>5, <2>1 DEF Finished, Done
  <2>2. CASE ~Finished(g)
    <3>1. g # Idle BY <1>2, <2>2 DEF Finished, Idle, Sweeps
    <3> QED BY <1>1, <1>2, <1>3, <1>5, <2>2, <3>1 DEF Done
  <2> QED BY <2>1, <2>2
<1> QED BY <1>4, <1>5

(* What Looks and Acts do to their sweep.                                  *)
LEMMA LooksOn ==
  ASSUME TypeOK, NEW t \in Timers, NEW c \in Children, Looks(t, c)
  PROVE  Scanning(t, c) /\ due' = due
         /\ \E acts \in BOOLEAN : Becomes(t, LookedAt(hand[t], c, acts))
  BY DEF Looks, Weigh, Condemn

LEMMA ActsOn ==
  ASSUME TypeOK, NEW t \in Timers, NEW c \in Children, Acts(t, c)
  PROVE  Acting(t, c) /\ due' = due /\ Becomes(t, Acted(hand[t]))
  BY DEF Acts, Wake, WakeFails, Reap, ReapFails

(* A timer that fires begins with all its rows, or finds its last sweep.   *)
LEMMA Fires ==
  ASSUME TypeOK, NEW t \in Timers, Fire(t), hand[t] = Idle
  PROVE  /\ t \notin due' /\ UNCHANGED <<now, last, status, parent, hindered>>
         /\ hand'[t] = Idle => Rows(t) = {}
         /\ hand'[t] # Idle =>
              /\ hand'[t].at = now /\ hand'[t].todo = Rows(t) /\ hand'[t].acting = {}
              /\ DOMAIN hand'[t].last = Rows(t)
              /\ \A c \in Rows(t) : hand'[t].last[c] = last[c]
<1>1. Becomes(t, Sweep(t)) /\ t \notin due' /\ UNCHANGED <<now, last, status, parent, hindered>>
  BY DEF Fire, clock, family, history
<1>2. hand'[t] = IF Finished(Sweep(t)) THEN Idle ELSE Sweep(t) BY <1>1, BeginsSweep, BecomesHand
<1>3. Sweep(t) # Idle \/ Rows(t) = {}
  BY BeginsSweep DEF Sweeps, Idle
<1> QED BY <1>1, <1>2, <1>3, BeginsSweep DEF Finished
-----------------------------------------------------------------------------
(* The sweeps keep to their minute and to their rows.                      *)

LEMMA TimedStep ==
  ASSUME TypeOK, HandsRead, OneAtATime, HandTimed, [Next]_vars
  PROVE  HandTimed'
<1>0. now \in Nat /\ hindered \in Nat BY DEF TypeOK, Times
<1>1. CASE TimePasses
  <2>1. hand' = hand /\ now' = now + 1 BY <1>1 DEF TimePasses
  <2>2. Busy => hindered' = now' BY <1>1 DEF TimePasses
  <2> QED BY <1>0, <2>1, <2>2 DEF Busy, HandTimed
<1>2. CASE Restart
  BY <1>2 DEF Restart, HandTimed
<1>3. ASSUME ~TimePasses, ~Restart, NEW t \in Timers, hand'[t] # Idle
      PROVE  (t \notin due' /\ hand'[t].at = now') \/ now' <= hindered'
  <2>1. now' = now /\ (hindered' = hindered \/ hindered' = now)
    BY <1>3, StepKeeps DEF Onward
  <2>2. CASE Fire(t) /\ hand[t] = Idle BY <1>3, <2>1, <2>2, Fires
  <2>3. CASE Fire(t) /\ hand[t] # Idle
    <3>1. now <= hindered BY <2>3 DEF HandTimed, Fire
    <3> QED BY <1>0, <2>1, <3>1
  <2>4. CASE (t \in due' <=> t \in due) /\ (hand'[t] = hand[t] \/ GoesOn(t, Children))
    BY <1>0, <1>3, <2>1, <2>4 DEF GoesOn, HandTimed
  <2>5. ASSUME NEW c \in Children, due' = due, Looks(t, c) \/ Acts(t, c) PROVE GoesOn(t, Children)
    <3>1. CASE Looks(t, c) BY <3>1, LooksOn, LookingAt DEF GoesOn
    <3>2. CASE Acts(t, c) BY <3>2, ActsOn, ActingOn DEF GoesOn
    <3> QED BY <2>5, <3>1, <3>2
  <2>6. CASE t = "checkup" /\ Checkup BY <1>3, <2>6 DEF Checkup, TypeOK
  <2> QED BY <1>3, <2>2, <2>3, <2>4, <2>5, <2>6, TimerSteps
<1> QED BY <1>1, <1>2, <1>3 DEF HandTimed

(* The record a sweep goes on with, whatever step is taken.                *)
LEMMA SweepGoes ==
  ASSUME TypeOK, HandsRead, OneAtATime, [Next]_vars, NEW t \in Timers, hand'[t] # Idle
  PROVE  \/ hand'[t] = hand[t]
         \/ \E c \in Children : GoesOn(t, {c})
         \/ hand[t] = Idle /\ Fire(t)
<1>1. ~Restart BY DEF Restart
<1>2. CASE TimePasses BY <1>2 DEF TimePasses
<1>3. CASE ~TimePasses
  <2>1. CASE Fire(t) /\ hand[t] # Idle BY <2>1 DEF Fire
  <2>2. ASSUME NEW c \in Children, due' = due, Looks(t, c) \/ Acts(t, c)
        PROVE  GoesOn(t, {c})
    <3>1. CASE Looks(t, c) BY <3>1, LooksOn, LookingAt
    <3>2. CASE Acts(t, c) BY <3>2, ActsOn, ActingOn DEF GoesOn
    <3> QED BY <2>2, <3>1, <3>2
  <2>3. CASE t = "checkup" /\ Checkup BY <2>3 DEF Checkup, TypeOK
  <2> QED BY <1>1, <1>3, <2>1, <2>2, <2>3, TimerSteps
<1> QED BY <1>2, <1>3

LEMMA OneStep ==
  ASSUME TypeOK, HandsRead, OneAtATime, [Next]_vars
  PROVE  OneAtATime'
<1>1. ASSUME NEW t \in Timers, hand'[t] # Idle
      PROVE  \A c, d \in hand'[t].acting : c = d
  <2>1. CASE hand'[t] = hand[t] BY <1>1, <2>1 DEF OneAtATime
  <2>2. CASE \E c \in Children : GoesOn(t, {c}) BY <1>1, <2>2 DEF GoesOn
  <2>3. CASE hand[t] = Idle /\ Fire(t) BY <1>1, <2>3, Fires
  <2> QED BY <1>1, <2>1, <2>2, <2>3, SweepGoes
<1> QED BY <1>1 DEF OneAtATime

LEMMA RowsStep ==
  ASSUME TypeOK, TypeOK', HandsRead, OneAtATime, RowsKnown, [Next]_vars
  PROVE  RowsKnown'
<1>1. ASSUME NEW t \in Timers, hand'[t] # Idle, Listening(t)', NEW c \in Live'
      PROVE  Known(t, c)' \/ hand'[t].at <= last'[c]
  <2>1. c \in Children /\ ~Restart BY <1>1 DEF Live, Restart
  <2>2. ASSUME hand'[t] = hand[t] \/ GoesOn(t, Children)
        PROVE  Known(t, c)' \/ hand'[t].at <= last'[c]
    <3>1. hand[t] # Idle /\ hand'[t].at = hand[t].at /\ hand'[t].last = hand[t].last
      BY <1>1, <2>2 DEF GoesOn
    <3>2. hand[t].at <= now BY <3>1 DEF HandsRead, HandRead
    <3>3. CASE TimePasses
      <4>1. UNCHANGED <<parent, status, last>> BY <3>3 DEF TimePasses, family
      <4> QED BY <1>1, <3>1, <4>1 DEF RowsKnown, Known, Listening, Live
    <3>4. CASE ~TimePasses
      <4>1. Keeps(c) /\ (parent' => parent) BY <2>1, <3>4, StepKeeps DEF Onward
      <4>2. CASE last'[c] = now BY <3>1, <3>2, <4>2
      <4>3. CASE last'[c] = last[c] /\ c \in Live
        BY <1>1, <3>1, <4>1, <4>3 DEF RowsKnown, Known, Listening
      <4> QED BY <1>1, <4>1, <4>2, <4>3 DEF Keeps
    <3> QED BY <3>3, <3>4
  <2>3. CASE hand[t] = Idle /\ Fire(t)
    <3>1. /\ UNCHANGED <<last, status, parent>> /\ DOMAIN hand'[t].last = Rows(t)
          /\ \A d \in Rows(t) : hand'[t].last[d] = last[d]
      BY <1>1, <2>3, Fires
    <3>2. c \in Rows(t) BY <1>1, <3>1 DEF Rows, Heard, Live, Listening
    <3> QED BY <3>1, <3>2 DEF Known
  <2>4. ASSUME NEW d \in Children, GoesOn(t, {d}) PROVE GoesOn(t, Children)
    BY <2>4 DEF GoesOn
  <2> QED BY <1>1, <2>2, <2>3, <2>4, SweepGoes
<1> QED BY <1>1 DEF RowsKnown

LEMMA HintsStep ==
  ASSUME TypeOK, HintsHeld, [Next]_vars
  PROVE  HintsHeld'
<1> USE DEF clock, family, store, history
<1>0. \A c \in Children : quiet[c] \in Nat /\ hushed[c] \in Nat BY DEF TypeOK
<1>1. ASSUME NEW c \in Children, NEW n \in Hints, Hint(c, n) PROVE HintsHeld'
  <2>1. Until(c, n) <= now + n BY TimersAssumption DEF Until, TypeOK, Times
  <2> QED BY <1>1, <2>1 DEF Hint, HintsHeld, TypeOK
<1>2. ASSUME NEW c \in Children, Weigh(c) \/ Condemn(c) PROVE HintsHeld'
  <2>1. PICK at : LookAtHint(c, at) BY <1>2 DEF Weigh, Condemn
  <2>2. /\ hushed' = hushed
        /\ \A d \in Children : quiet'[d] = quiet[d] \/ quiet'[d] = 0
    BY <2>1 DEF LookAtHint, TypeOK
  <2> QED BY <1>0, <2>2 DEF HintsHeld
<1>3. CASE Restart
  BY <1>3 DEF Restart, HintsHeld
<1>4. CASE UNCHANGED <<quiet, hushed>>
  BY <1>4 DEF HintsHeld
<1>5. ASSUME NEW c \in Children,
             \/ Spawn(c) \/ Emit(c) \/ End(c) \/ Wake(c) \/ WakeFails(c) \/ Reap(c) \/ ReapFails(c)
      PROVE  UNCHANGED <<quiet, hushed>>
  BY <1>5 DEF Spawn, Emit, End, Wake, WakeFails, Reap, ReapFails
<1>6. ASSUME NEW t \in Timers, Fire(t) \/ SweepFails(t) PROVE UNCHANGED <<quiet, hushed>>
  BY <1>6 DEF Fire, SweepFails
<1>7. ASSUME ParentEnds \/ Checkup \/ CheckupFails \/ TimePasses \/ UNCHANGED vars
      PROVE  UNCHANGED <<quiet, hushed>>
  BY <1>7 DEF ParentEnds, Checkup, CheckupFails, TimePasses, vars
<1> QED BY <1>1, <1>2, <1>3, <1>4, <1>5, <1>6, <1>7 DEF Next

LEMMA BaseInit == Init => BInv
<1> SUFFICES ASSUME Init PROVE BInv OBVIOUS
<1>1. \A t \in Timers : hand[t] = Idle BY DEF Init
<1> QED BY <1>1, InitInvariant DEF Init, BInv, HandTimed, OneAtATime, RowsKnown, HintsHeld

LEMMA BaseStep == BInv /\ [Next]_vars => BInv'
<1> SUFFICES ASSUME BInv, [Next]_vars PROVE BInv' OBVIOUS
<1>1. TInv' /\ TypeOK /\ TypeOK' /\ HandsRead BY StepInvariant DEF BInv, TInv
<1> QED BY <1>1, TimedStep, OneStep, RowsStep, HintsStep DEF BInv
-----------------------------------------------------------------------------
(* The checkup timer.                                                      *)

Recent(c, slack) ==
  \/ now <= born[c] + slack
  \/ now <= hindered + slack
  \/ glanced # 0 /\ now < glanced + Cadence + slack
Glancing ==
  \A c \in Live : "checkup" \in enabled /\ parent =>
    Recent(c, IF "checkup" \notin due /\ hand["checkup"] = Idle THEN 0 ELSE 1)

LEMMA Whiles ==
  ASSUME TypeOK, NEW c \in Children, NEW k \in {0, 1}, Recent(c, k)
  PROVE  Recent(c, 1)
  BY TimersAssumption DEF Recent, TypeOK, Times

LEMMA GlancingStep ==
  ASSUME BInv, Glancing, [Next]_vars
  PROVE  Glancing'
<1> SUFFICES ASSUME NEW c \in Live', ("checkup" \in enabled)', parent'
             PROVE  Recent(c, IF "checkup" \notin due /\ hand["checkup"] = Idle THEN 0 ELSE 1)'
  BY DEF Glancing
<1>t. "checkup" \in Timers BY DEF Timers
<1>0. TypeOK /\ HandsRead /\ OneAtATime /\ HandTimed /\ Clocked /\ c \in Children
  BY DEF BInv, TInv, Live
<1>1. /\ now \in Nat \ {0} /\ born[c] \in Nat /\ hindered \in Nat /\ glanced \in Nat
      /\ Cadence \in Nat \ {0}
  BY <1>0, TimersAssumption DEF Clocked, TypeOK, Times
<1>2. CASE TimePasses
  <2>1. /\ now' = now + 1 /\ hindered' = IF Busy THEN now' ELSE hindered
        /\ UNCHANGED <<enabled, parent, status, born, glanced, hand>>
        /\ due = {} /\ due' = {t \in enabled : up' % Every[t] = 0}
    BY <1>2 DEF TimePasses, family
  <2>2. CASE Busy BY <1>1, <2>1, <2>2 DEF Recent
  <2>3. CASE ~Busy
    <3>1. hand["checkup"] = Idle BY <1>t, <2>3 DEF Busy
    <3>2. Recent(c, 0) BY <2>1, <3>1 DEF Glancing, Live
    <3>3. "checkup" \in due'
      <4>1. up' \in Nat /\ Every["checkup"] = 1
        BY <1>2, <1>0, <1>t DEF TimePasses, Every, TypeOK, Times
      <4> QED BY <2>1, <4>1
    <3> QED BY <1>1, <2>1, <2>3, <3>2, <3>3 DEF Recent
  <2> QED BY <2>2, <2>3
<1>3. CASE Restart
  BY <1>1, <1>3 DEF Restart, Recent
<1>4. CASE ~TimePasses /\ ~Restart
  <2>1. Onward /\ Keeps(c) BY <1>0, <1>4, StepKeeps
  <2>2. now' = now BY <2>1 DEF Onward
  <2>3. ASSUME hindered' = now \/ born'[c] = now \/ (now <= hindered /\ hindered' = hindered)
        PROVE  Recent(c, IF "checkup" \notin due /\ hand["checkup"] = Idle THEN 0 ELSE 1)'
    BY <1>1, <2>2, <2>3 DEF Recent
  <2>4. CASE hindered' = hindered /\ c \in Live /\ born'[c] = born[c]
    <3>1. "checkup" \in enabled /\ parent BY <2>1 DEF Onward
    <3>2. ASSUME NEW k \in {0, 1}, Recent(c, k), glanced' = glanced PROVE Recent(c, k)'
      BY <2>2, <2>4, <3>2 DEF Recent
    <3>3. CASE Fire("checkup")
      <4>1. CASE hand["checkup"] # Idle
        BY <1>0, <1>t, <2>3, <2>4, <3>3, <4>1 DEF HandTimed, Fire
      <4>2. CASE hand["checkup"] = Idle
        <5>1. Rows("checkup") # {} BY <2>4, <3>1 DEF Rows, Heard
        <5>2. hand'["checkup"] # Idle BY <1>0, <1>t, <3>3, <4>2, <5>1, Fires
        <5>3. glanced' = glanced BY <3>3, <4>2, <5>1 DEF Fire, Rows
        <5>4. "checkup" \in due BY <3>3 DEF Fire
        <5>5. Recent(c, 1) BY <2>4, <3>1, <5>4 DEF Glancing
        <5> QED BY <3>2, <5>2, <5>3, <5>5
      <4> QED BY <4>1, <4>2
    <3>4. CASE Checkup
      <4>1. /\ hand["checkup"] # Idle
            /\ glanced' = IF IsDue(hand["checkup"].at) THEN hand["checkup"].at ELSE glanced
        BY <3>4 DEF Checkup
      <4>2. CASE now <= hindered BY <2>3, <2>4, <4>2
      <4>3. CASE hand["checkup"].at = now
        <5>1. Recent(c, 0)' BY <1>1, <2>2, <4>1, <4>3 DEF IsDue, Recent
        <5>2. Recent(c, 1)' BY <1>1, <2>2, <4>1, <4>3 DEF IsDue, Recent
        <5> QED BY <5>1, <5>2
      <4> QED BY <1>0, <1>t, <4>1, <4>2, <4>3 DEF HandTimed
    <3>5. CASE ~Fire("checkup") /\ ~Checkup
      <4>1. glanced' = glanced
        <5>1. ASSUME NEW t \in Timers, t # "checkup", Fire(t) PROVE glanced' = glanced
          BY <5>1 DEF Fire
        <5> QED BY <1>4, <3>5, <5>1
          DEF Next, vars, Spawn, Emit, End, Hint, ParentEnds, Weigh, Wake, WakeFails, Condemn, Reap,
              ReapFails, CheckupFails, SweepFails
      <4>2. /\ "checkup" \in due' <=> "checkup" \in due
            /\ hand'["checkup"] = hand["checkup"] \/ hindered' = now
        BY <1>0, <1>4, <1>t, <3>5, TimerSteps DEF Looks, Acts
      <4>3. CASE hindered' = now BY <2>3, <4>3
      <4>4. CASE hand'["checkup"] = hand["checkup"]
        BY <2>4, <3>1, <3>2, <4>1, <4>2, <4>4 DEF Glancing
      <4> QED BY <4>2, <4>3, <4>4
    <3> QED BY <3>3, <3>4, <3>5
  <2> QED BY <2>1, <2>3, <2>4 DEF Onward, Keeps
<1> QED BY <1>2, <1>3, <1>4

(* An orchestrator whose api is up gets to look at its children at every   *)
(* cadence: no sweep, failure or restart delays it by more than two        *)
(* minutes, whatever the cadence and however many children come and go.    *)
THEOREM CheckupsOnTime == Spec => []GlancedInTime
<1>1. Init => BInv /\ Glancing
  BY BaseInit DEF Init, Glancing, Live
<1>2. (BInv /\ Glancing) /\ [Next]_vars => (BInv /\ Glancing)'
  BY BaseStep, GlancingStep
<1>3. BInv /\ Glancing => GlancedInTime
  <2> SUFFICES ASSUME BInv, Glancing, NEW c \in Live, "checkup" \in enabled, parent,
                      now > 1 + Longest(born[c], hindered)
               PROVE  glanced # 0 /\ now - glanced <= Cadence
    BY DEF GlancedInTime
  <2>1. /\ now \in Nat /\ born[c] \in Nat /\ hindered \in Nat /\ glanced \in Nat /\ Cadence \in Nat
    BY TimersAssumption DEF BInv, TInv, Live, TypeOK, Times
  <2>2. Recent(c, 1)
    BY Whiles DEF BInv, TInv, Glancing, Live
  <2> QED BY <2>1, <2>2 DEF Recent, Longest
<1> QED BY <1>1, <1>2, <1>3, PTL DEF Spec
-----------------------------------------------------------------------------
(* How a sweep gets done with a child.                                     *)

Spares(t, c) ==
  Looks(t, c) /\ \A acts \in BOOLEAN : Becomes(t, LookedAt(hand[t], c, acts)) => ~acts

LEMMA DoneBy ==
  ASSUME BInv, [Next]_vars, ~TimePasses, ~Restart, NEW t \in Timers, t # "checkup",
         NEW c \in Live, Listening(t), Done(t, c)'
  PROVE  Done(t, c) \/ now <= hindered' \/ Spares(t, c) \/ Acts(t, c)
<1>0. TypeOK /\ HandsRead /\ OneAtATime /\ HandTimed /\ c \in Children
  BY DEF BInv, TInv, Live
<1>1. now \in Nat BY <1>0 DEF TypeOK, Times
<1>2. CASE Fire(t)
  <2>1. CASE hand[t] # Idle
    BY <1>0, <1>2, <2>1 DEF HandTimed, Fire, history
  <2>2. CASE hand[t] = Idle
    <3>1. c \in Rows(t) BY DEF Rows, Heard, Listening
    <3> QED BY <1>0, <1>2, <2>2, <3>1, Fires DEF Done
  <2> QED BY <2>1, <2>2
<1>3. ASSUME NEW d \in Children, Looks(t, d) PROVE Done(t, c) \/ Spares(t, c)
  <2>1. PICK acts \in BOOLEAN : Becomes(t, LookedAt(hand[t], d, acts)) BY <1>0, <1>3, LooksOn
  <2>2. d # c => Done(t, c) BY <1>0, <1>3, <2>1, LooksOn, LookingAt
  <2>3. d = c => \A some \in BOOLEAN : Becomes(t, LookedAt(hand[t], c, some)) => ~some
    BY <1>0, <1>3, LooksOn, LookingAt
  <2> QED BY <1>3, <2>2, <2>3 DEF Spares
<1>4. ASSUME NEW d \in Children, Acts(t, d) PROVE Done(t, c) \/ Acts(t, c)
  BY <1>0, <1>4, ActsOn, ActingOn
<1>5. CASE (t \in due' <=> t \in due) /\ hand'[t] = hand[t]
  BY <1>5 DEF Done
<1>6. CASE hindered' = now BY <1>1, <1>6
<1> QED BY <1>0, <1>2, <1>3, <1>4, <1>5, <1>6, TimerSteps

(* The sweep that spares c does so at the minute it began, on a hint or    *)
(* on what it read.                                                        *)
LEMMA InTime ==
  ASSUME BInv, NEW t \in Timers, NEW c \in Children, Scanning(t, c),
         NEW limit \in Nat \ {0},
         IsQuiet(c, hand[t].at) \/ hand[t].at - hand[t].last[c] < limit
  PROVE  Covered(c, limit, 0)
<1>0. TypeOK /\ HandsRead /\ HandTimed /\ HintsHeld BY DEF BInv, TInv
<1>1. /\ hand[t] # Idle /\ c \in DOMAIN hand[t].last /\ HandRead(hand[t])
      /\ hand[t].last[c] \in Nat /\ hand[t].at \in Nat
  BY <1>0, InHand DEF Times
<1>2. /\ now \in Nat /\ last[c] \in Nat /\ hushed[c] \in Nat /\ hindered \in Nat /\ quiet[c] \in Nat
  BY <1>0 DEF TypeOK, Times
<1>3. hand[t].last[c] <= last[c] BY <1>1 DEF HandRead
<1>4. hand[t].at = now \/ now <= hindered BY <1>0, <1>1 DEF HandTimed
<1>5. quiet[c] <= hushed[c] BY <1>0 DEF HintsHeld
<1> QED BY <1>1, <1>2, <1>3, <1>4, <1>5 DEF Covered, IsQuiet

(* More slack covers more, a minute costs one, and some things cover       *)
(* whatever the slack; the arithmetic of it, away from the variables.      *)
CoveredAt(n, l, h, d, limit, slack) ==
  n < l + limit + slack \/ n <= h + slack \/ n <= d + slack

LEMMA Arithmetic ==
  /\ \A n, l, h, d, limit, j, k \in Nat :
       j <= k /\ CoveredAt(n, l, h, d, limit, j) => CoveredAt(n, l, h, d, limit, k)
  /\ \A n, l, h, d, limit, k \in Nat :
       n <= d \/ (limit > 0 /\ n = l) => CoveredAt(n, l, h, d, limit, k)
  BY DEF CoveredAt

LEMMA Slackens ==
  ASSUME TypeOK, NEW c \in Children, NEW limit \in Nat, NEW j \in Nat, NEW k \in Nat,
         j <= k, Covered(c, limit, j)
  PROVE  Covered(c, limit, k)
<1>1. now \in Nat /\ last[c] \in Nat /\ hushed[c] \in Nat /\ hindered \in Nat
  BY DEF TypeOK, Times
<1>2. \A n \in Nat :
        Covered(c, limit, n) <=> CoveredAt(now, last[c], hushed[c], hindered, limit, n)
  BY DEF Covered, CoveredAt
<1> QED BY <1>1, <1>2, Arithmetic

LEMMA SlackensNext ==
  ASSUME TypeOK', NEW c \in Children, NEW limit \in Nat, NEW j \in Nat, NEW k \in Nat,
         j <= k, Covered(c, limit, j)'
  PROVE  Covered(c, limit, k)'
<1>1. now' \in Nat /\ last'[c] \in Nat /\ hushed'[c] \in Nat /\ hindered' \in Nat
  BY DEF TypeOK, Times
<1>2. \A n \in Nat :
        Covered(c, limit, n)' <=> CoveredAt(now', last'[c], hushed'[c], hindered', limit, n)
  BY DEF Covered, CoveredAt
<1> QED BY <1>1, <1>2, Arithmetic

LEMMA Excuses ==
  ASSUME TypeOK', NEW c \in Children, NEW limit \in Nat, NEW k \in Nat,
         now' <= hindered' \/ (limit > 0 /\ last'[c] = now')
  PROVE  Covered(c, limit, k)'
<1>1. now' \in Nat /\ last'[c] \in Nat /\ hushed'[c] \in Nat /\ hindered' \in Nat
  BY DEF TypeOK, Times
<1>2. CoveredAt(now', last'[c], hushed'[c], hindered', limit, k)
  BY <1>1, Arithmetic
<1> QED BY <1>2 DEF Covered, CoveredAt

LEMMA MinuteCosts ==
  ASSUME TypeOK, TypeOK', TimePasses, NEW c \in Children, NEW limit \in Nat, NEW k \in Nat,
         ~Busy => Covered(c, limit, k)
  PROVE  Covered(c, limit, k + 1)'
<1>1. /\ now' = now + 1 /\ hindered' = (IF Busy THEN now' ELSE hindered)
      /\ UNCHANGED <<last, hushed>>
  BY DEF TimePasses, family, store
<1>2. now \in Nat /\ last[c] \in Nat /\ hushed[c] \in Nat /\ hindered \in Nat
  BY DEF TypeOK, Times
<1> QED BY <1>1, <1>2 DEF Covered
-----------------------------------------------------------------------------
(* The reaper.                                                             *)

Left(c) == IF up % 2 # 0 THEN 1 ELSE IF Done("reap", c) THEN 0 ELSE 2
Reaping == \A c \in Live \cap Workers : "reap" \in enabled => Covered(c, ReapAfter, Left(c))

LEMMA ReapingStep ==
  ASSUME BInv, Reaping, [Next]_vars
  PROVE  Reaping'
<1> SUFFICES ASSUME NEW c \in Live', c \in Workers, ("reap" \in enabled)'
             PROVE  Covered(c, ReapAfter, Left(c))'
  BY DEF Reaping
<1>t. "reap" \in Timers BY DEF Timers
<1>l. ReapAfter \in Nat \ {0}
  BY TimersAssumption
<1>0. TypeOK /\ TypeOK' /\ HandsRead /\ OneAtATime /\ HandTimed /\ c \in Children
  BY BaseStep DEF BInv, TInv, Live
<1>1. now \in Nat /\ last[c] \in Nat /\ hushed[c] \in Nat /\ hindered \in Nat /\ up \in Nat
  BY <1>0 DEF TypeOK, Times
<1>2. CASE TimePasses
  <2>1. /\ up' = up + 1 /\ UNCHANGED <<enabled, status, hand>>
        /\ due = {} /\ due' = {t \in enabled : up' % Every[t] = 0}
    BY <1>2 DEF TimePasses, family
  <2>2. ~Busy => Covered(c, ReapAfter, Left(c)) /\ Done("reap", c)
    BY <1>t, <2>1 DEF Busy, Done, Reaping, Live
  <2>3. CASE up % 2 # 0
    <3>1. up' % 2 = 0 BY <1>1, <2>1, <2>3
    <3>2. "reap" \in due' BY <2>1, <1>t, <3>1 DEF Every
    <3>3. Left(c) = 1 /\ Left(c)' = 2 BY <2>3, <3>1, <3>2 DEF Left, Done
    <3>4. Covered(c, ReapAfter, 1 + 1)' BY <1>0, <1>2, <1>l, <2>2, <3>3, MinuteCosts
    <3> QED BY <3>3, <3>4
  <2>4. CASE up % 2 = 0
    <3>1. up' % 2 # 0 BY <1>1, <2>1, <2>4
    <3>2. (~Busy => Left(c) = 0) /\ Left(c)' = 1 BY <2>2, <2>4, <3>1 DEF Left
    <3>3. Covered(c, ReapAfter, 0 + 1)' BY <1>0, <1>2, <1>l, <2>2, <3>2, MinuteCosts
    <3> QED BY <3>2, <3>3
  <2> QED BY <2>3, <2>4
<1>3. CASE Restart
  <2>1. hindered' = now' BY <1>3 DEF Restart
  <2>2. Left(c)' \in Nat BY DEF Left
  <2> QED BY <1>0, <1>1, <2>1, <2>2 DEF Covered, TypeOK, Times
<1>4. CASE ~TimePasses /\ ~Restart
  <2>1. Onward /\ Keeps(c) BY <1>0, <1>4, StepKeeps
  <2>2. now' = now /\ up' = up BY <2>1 DEF Onward
  <2>3. Left(c) \in {0, 1, 2} /\ Left(c)' \in {0, 1, 2} BY DEF Left
  <2>a. Covered(c, ReapAfter, 0)' => Covered(c, ReapAfter, 1)'
    BY <1>0, <1>l, SlackensNext
  <2>b. Covered(c, ReapAfter, 1)' => Covered(c, ReapAfter, 2)'
    BY <1>0, <1>l, SlackensNext
  <2>c. ASSUME NEW k \in {0, 1, 2}, k <= Left(c)', Covered(c, ReapAfter, k)'
        PROVE  Covered(c, ReapAfter, Left(c))'
    <3>1. CASE Left(c)' = 0
      <4>1. Covered(c, ReapAfter, 0)' BY <2>c, <3>1
      <4> QED BY <3>1, <4>1
    <3>2. CASE Left(c)' = 1
      <4>1. k = 0 \/ k = 1 BY <2>c, <3>2
      <4>2. Covered(c, ReapAfter, 1)' BY <2>a, <2>c, <4>1
      <4> QED BY <3>2, <4>2
    <3>3. CASE Left(c)' = 2
      <4>1. Covered(c, ReapAfter, 2)' BY <2>a, <2>b, <2>c
      <4> QED BY <3>3, <4>1
    <3> QED BY <2>3, <3>1, <3>2, <3>3
  <2>d. ASSUME Covered(c, ReapAfter, 0)' PROVE Covered(c, ReapAfter, Left(c))'
    BY <2>3, <2>c, <2>d
  <2>4. CASE last'[c] = now
    <3>1. Covered(c, ReapAfter, 0)' BY <1>0, <1>l, <2>2, <2>4, Excuses
    <3> QED BY <2>d, <3>1
  <2>5. CASE now <= hindered'
    <3>1. Covered(c, ReapAfter, 0)' BY <1>0, <1>l, <2>2, <2>5, Excuses
    <3> QED BY <2>d, <3>1
  <2>6. ASSUME c \in Live, NEW k \in {0, 1, 2}, k <= Left(c)', Covered(c, ReapAfter, k)
        PROVE  Covered(c, ReapAfter, Left(c))'
    <3>1. Covered(c, ReapAfter, k)' BY <1>0, <1>l, <2>1, <2>6, StaysCovered
    <3> QED BY <2>6, <2>c, <3>1
  <2>7. CASE c \in Live /\ Left(c) <= Left(c)'
    <3>1. Covered(c, ReapAfter, Left(c)) BY <2>1, <2>7 DEF Reaping, Onward
    <3> QED BY <2>3, <2>6, <2>7, <3>1
  <2>8. CASE c \in Live /\ ~(Left(c) <= Left(c)')
    <3>1. Done("reap", c)' /\ ~Done("reap", c) BY <2>2, <2>3, <2>8 DEF Left
    <3>2. CASE Spares("reap", c)
      <4>1. Condemn(c) BY <3>2 DEF Spares, Looks
      <4>2. IsQuiet(c, hand["reap"].at) \/ ~(hand["reap"].at - hand["reap"].last[c] >= ReapAfter)
        BY <3>2, <4>1 DEF Spares, Condemn
      <4>3. hand["reap"].at \in Nat /\ hand["reap"].last[c] \in Nat
        BY <1>0, <1>t, <4>1, InHand DEF Condemn, Times
      <4>4. Covered(c, ReapAfter, 0) BY <1>0, <1>t, <1>l, <4>1, <4>2, <4>3, InTime DEF Condemn
      <4> QED BY <2>3, <2>6, <2>8, <4>4
    <3>3. CASE Acts("reap", c)
      <4>1. Reap(c) \/ ReapFails(c) BY <3>3 DEF Acts
      <4>2. ~Reap(c) BY <1>0 DEF Reap, Live, TypeOK
      <4>3. hindered' = now BY <4>1, <4>2 DEF ReapFails
      <4> QED BY <1>1, <2>5, <4>3
    <3> QED BY <1>4, <1>t, <2>5, <2>8, <3>1, <3>2, <3>3, DoneBy DEF Listening
  <2> QED BY <2>1, <2>4, <2>7, <2>8 DEF Keeps
<1> QED BY <1>2, <1>3, <1>4

(* A silent worker does not hold its slot for ever: whatever sweeps,       *)
(* hints, failures and restarts do, it is ended within the reaper's        *)
(* interval of its threshold or of the last thing that excused it.         *)
THEOREM SilentWorkersReaped == Spec => []ReapedInTime
<1>1. Init => BInv /\ Reaping
  BY BaseInit DEF Init, Reaping, Live
<1>2. (BInv /\ Reaping) /\ [Next]_vars => (BInv /\ Reaping)'
  BY BaseStep, ReapingStep
<1>3. BInv /\ Reaping => ReapedInTime
  <2> SUFFICES ASSUME BInv, Reaping, NEW c \in Live \cap Workers, "reap" \in enabled
               PROVE  now <= Every["reap"] + Longest(Longest(last[c] + ReapAfter, hushed[c]), hindered)
    BY DEF ReapedInTime
  <2>1. /\ now \in Nat /\ last[c] \in Nat /\ hushed[c] \in Nat /\ hindered \in Nat
        /\ ReapAfter \in Nat /\ Every["reap"] = 2
    BY TimersAssumption DEF BInv, TInv, Live, TypeOK, Times, Every, Timers
  <2>2. Covered(c, ReapAfter, 2)
    BY <2>1, Slackens DEF BInv, TInv, Reaping, Live, Left
  <2> QED BY <2>1, <2>2 DEF Covered, Longest
<1> QED BY <1>1, <1>2, <1>3, PTL DEF Spec
-----------------------------------------------------------------------------
(* The watchdog.                                                           *)

(* What it remembers of a child it read is not younger than what it read,  *)
(* and a rung it climbed was about a silence the parent was told of, or    *)
(* that is over.                                                           *)
SeenRead ==
  hand["watch"] # Idle =>
    \A c \in DOMAIN hand["watch"].last : memory[c].seen <= hand["watch"].last[c]
RungSpent ==
  \A c \in Children : memory[c].attempt > 0 =>
    memory[c].seen < now /\ (memory[c].seen = last[c] => c \in warned)
Watching ==
  \A c \in Live : "watch" \in enabled /\ parent =>
    c \in warned \/ Covered(c, Ladder[1], IF Done("watch", c) THEN 0 ELSE 1)

WInv == BInv /\ SeenRead /\ RungSpent /\ Watching

LEMMA Rungs ==
  /\ Ladder[1] \in Nat \ {0} /\ Threshold(1) = Ladder[1]
  /\ \A n \in Nat : Threshold(n) \in Nat \ {0}
<1>1. \A k \in 1 .. Len(Ladder) : Ladder[k] \in Nat \ {0} BY TimersAssumption
<1>2. Len(Ladder) \in Nat \ {0} BY TimersAssumption
<1> QED BY <1>1, <1>2 DEF Threshold, Rung

LEMMA SeenReadStep ==
  ASSUME TypeOK, TypeOK', Clocked, HandsRead, SeenPast, SeenRead, [Next]_vars
  PROVE  SeenRead'
<1>t. "watch" \in Timers BY DEF Timers
<1>0. \A d \in Children : memory[d] \in Entries /\ memory[d].seen \in Nat
  BY DEF TypeOK, Entries, Times
<1>a. Afresh.seen = 0 BY DEF Afresh
<1>1. ASSUME NEW c \in Children, Moved(c),
             memory'[c].seen = memory[c].seen \/ memory'[c].seen <= hand["watch"].last[c]
      PROVE  SeenRead'
  <2> SUFFICES ASSUME hand'["watch"] # Idle, NEW d \in DOMAIN hand'["watch"].last
               PROVE  memory'[d].seen <= hand'["watch"].last[d]
    BY DEF SeenRead
  <2>1. /\ hand["watch"] # Idle /\ hand["watch"] \in Sweeps
        /\ hand'["watch"].last = hand["watch"].last
    BY <1>1 DEF Moved
  <2>2. d \in Children BY <2>1, RowsRead
  <2>3. memory[d].seen <= hand["watch"].last[d] BY <2>1 DEF SeenRead
  <2>4. d # c => memory'[d] = memory[d] BY <1>1, <2>2 DEF Moved
  <2> QED BY <1>1, <2>1, <2>3, <2>4
<1>2. ASSUME NEW c \in Children, Weigh(c) PROVE SeenRead'
  <2>1. Moved(c) /\ memory'[c] = Weighed(c) BY <1>2, WeighMoves
  <2>2. hand["watch"].last[c] \in Times BY <1>2, <1>t, InHand DEF Weigh
  <2>3. CASE hand["watch"].last[c] > memory[c].seen /\ ~IsQuiet(c, hand["watch"].at)
    <3>1. memory'[c].seen = hand["watch"].last[c]
      BY <1>0, <2>1, <2>2, <2>3, RecallEntry DEF Weighed
    <3>2. hand["watch"].last[c] \in Nat BY <2>2 DEF Times
    <3> QED BY <1>1, <2>1, <3>1, <3>2
  <2>4. CASE ~(hand["watch"].last[c] > memory[c].seen /\ ~IsQuiet(c, hand["watch"].at))
    <3>1. memory'[c] = memory[c] BY <1>0, <2>1, <2>2, <2>4, RecallEntry DEF Weighed
    <3> QED BY <1>1, <2>1, <3>1
  <2> QED BY <2>3, <2>4
<1>3. ASSUME NEW c \in Children, Wake(c) \/ WakeFails(c) PROVE SeenRead'
  <2>1. Moved(c) /\ memory'[c].seen = memory[c].seen BY <1>3, WakeMoves
  <2> QED BY <1>1, <2>1
<1>4. CASE Begins
  <2> SUFFICES ASSUME hand'["watch"] # Idle, NEW d \in DOMAIN hand'["watch"].last
               PROVE  memory'[d].seen <= hand'["watch"].last[d]
    BY DEF SeenRead
  <2>1. d \in Heard /\ d \in Children /\ hand'["watch"].last[d] = last[d] /\ memory'[d] = memory[d]
    BY <1>4 DEF Begins, Heard, Live
  <2> QED BY <2>1 DEF SeenPast
<1>5. CASE UNCHANGED memory /\ hand'["watch"] = hand["watch"]
  BY <1>5 DEF SeenRead
<1>6. Calm \/ (\E c \in Children : HeardFrom(c)) \/ TimePasses
        => UNCHANGED memory /\ hand'["watch"] = hand["watch"]
  BY DEF Calm, HeardFrom, TimePasses
<1>7. Restart \/ SweepFails("watch") => hand'["watch"] = Idle
  BY <1>t DEF Restart, SweepFails, TypeOK
<1>8. CASE hand'["watch"] = Idle BY <1>8 DEF SeenRead
<1> QED BY <1>2, <1>3, <1>4, <1>5, <1>6, <1>7, <1>8, StepCases

LEMMA RungStep ==
  ASSUME BInv, TypeOK', SeenRead, RungSpent, [Next]_vars
  PROVE  RungSpent'
<1>t. "watch" \in Timers BY DEF Timers
<1>0. TypeOK /\ Clocked /\ HandsRead /\ WakeReached BY DEF BInv, TInv
<1>a. /\ now \in Nat /\ \A d \in Children : memory[d].seen \in Nat /\ last[d] \in Nat
      /\ \A d \in Children : memory[d].attempt \in Nat
  <2>1. now \in Nat /\ \A d \in Children : memory[d] \in Entries /\ last[d] \in Nat
    BY <1>0 DEF TypeOK, Times, Entries
  <2>2. \A m \in Entries : m.seen \in Nat /\ m.attempt \in Nat
    BY TimersAssumption DEF Entries, Times
  <2> QED BY <2>1, <2>2
<1>1. CASE TimePasses
  <2>1. now' = now + 1 /\ UNCHANGED <<memory, last, warned>> BY <1>1 DEF TimePasses, family
  <2> QED BY <1>a, <2>1 DEF RungSpent
<1>2. CASE Restart
  BY <1>2 DEF Restart, RungSpent, Afresh
<1>3. CASE ~TimePasses /\ ~Restart
  <2>1. now' = now /\ \A d \in Children : Keeps(d) BY <1>0, <1>3, StepKeeps DEF Onward
  <2>2. ASSUME NEW d \in Children, memory'[d] = memory[d], memory[d].attempt > 0
        PROVE  memory'[d].seen < now' /\ (memory'[d].seen = last'[d] => d \in warned')
    <3>1. memory[d].seen < now /\ (memory[d].seen = last[d] => d \in warned)
      BY <2>2 DEF RungSpent
    <3>2. CASE last'[d] = now BY <1>a, <2>1, <2>2, <3>1, <3>2
    <3>3. CASE last'[d] = last[d] /\ (d \in warned => d \in warned')
      BY <2>1, <2>2, <3>1, <3>3
    <3> QED BY <2>1, <3>2, <3>3 DEF Keeps
  <2>3. ASSUME \A d \in Children : memory'[d] = memory[d] \/ memory'[d].attempt = 0
        PROVE  RungSpent'
    <3> SUFFICES ASSUME NEW d \in Children, memory'[d].attempt > 0
                 PROVE  memory'[d].seen < now' /\ (memory'[d].seen = last'[d] => d \in warned')
      BY DEF RungSpent
    <3>1. memory'[d] = memory[d] BY <2>3
    <3> QED BY <2>2, <3>1
  <2>a. Afresh.attempt = 0 BY DEF Afresh
  <2>4. CASE Calm \/ (\E c \in Children : HeardFrom(c)) \/ SweepFails("watch")
    <3>1. memory' = memory BY <2>4 DEF Calm, HeardFrom, SweepFails
    <3> QED BY <2>3, <3>1
  <2>5. CASE Begins
    BY <2>3, <2>5, <2>a DEF Begins
  <2>6. ASSUME NEW c \in Children, Weigh(c) PROVE RungSpent'
    <3>1. Moved(c) /\ memory'[c] = Weighed(c) BY <1>0, <2>6, WeighMoves
    <3>2. hand["watch"].last[c] \in Times BY <1>0, <2>6, <1>t, InHand DEF Weigh
    <3>3. memory[c] \in Entries BY <1>0 DEF TypeOK, Entries
    <3>4. memory'[c] = memory[c] \/ memory'[c].attempt = 0
      BY <3>1, <3>2, <3>3, RecallEntry DEF Weighed
    <3>5. \A d \in Children : d # c => memory'[d] = memory[d] \/ memory'[d].attempt = 0
      BY <3>1, <2>a DEF Moved
    <3> QED BY <2>3, <3>4, <3>5
  <2>7. ASSUME NEW c \in Children, Wake(c) \/ WakeFails(c) PROVE RungSpent'
    <3>1. /\ Moved(c) /\ c \in hand["watch"].acting /\ memory'[c].seen = memory[c].seen
      BY <1>0, <2>7, WakeMoves
    <3> DEFINE h == hand["watch"]
    <3>2. h # Idle /\ h \in Sweeps /\ HandRead(h) /\ c \in DOMAIN h.last BY <3>1 DEF Moved
    <3>3. h.last[c] \in Nat /\ h.at \in Nat /\ h.at <= now
      BY <3>2, RowsRead DEF HandRead, Times
    <3>4. memory[c].seen >= h.last[c] /\ h.at - h.last[c] >= Threshold(memory[c].attempt + 1)
      BY <1>0, <3>1, <3>2 DEF WakeReached, Reached
    <3>5. memory[c].seen = h.last[c] BY <1>a, <3>2, <3>3, <3>4 DEF SeenRead
    <3>6. Threshold(memory[c].attempt + 1) \in Nat \ {0} BY <1>a, Rungs
    <3>7. memory[c].seen < now BY <1>a, <3>3, <3>4, <3>5, <3>6
    <3>8. Wake(c) => (last' = last /\ (h.last[c] = last[c] => c \in warned'))
      BY DEF Wake, family
    <3>9. \A d \in Children : d # c => memory'[d] = memory[d] \/ memory'[d].attempt = 0
      BY <3>1, <2>a DEF Moved
    <3>10. CASE Wake(c)
      <4> SUFFICES ASSUME NEW d \in Children, memory'[d].attempt > 0
                   PROVE  memory'[d].seen < now' /\ (memory'[d].seen = last'[d] => d \in warned')
        BY DEF RungSpent
      <4>1. CASE d = c BY <2>1, <3>1, <3>5, <3>7, <3>8, <3>10, <4>1
      <4>2. CASE d # c
        <5>1. memory'[d] = memory[d] BY <3>9, <4>2
        <5> QED BY <2>2, <5>1
      <4> QED BY <4>1, <4>2
    <3>11. CASE WakeFails(c)
      <4>1. memory' = Kept(memory, Acted(h)) BY <3>11 DEF WakeFails
      <4>2. Acted(h) \in Sweeps /\ Acted(h).last = h.last BY <3>2, ActedSweep
      <4>3. memory \in [Children -> Entries] BY <1>0 DEF TypeOK, Entries
      <4>4. memory'[c] = memory[c] BY <3>2, <4>1, <4>2, <4>3, KeptMemory
      <4> QED BY <2>3, <3>9, <4>4
    <3> QED BY <2>7, <3>10, <3>11
  <2> QED BY <1>0, <1>3, <2>4, <2>5, <2>6, <2>7, StepCases
<1> QED BY <1>1, <1>2, <1>3

(* What the watchdog read of a child that was heard from since is this     *)
(* minute's news.                                                          *)
LEMMA Outdated ==
  ASSUME BInv, parent, NEW c \in Live, hand["watch"] # Idle, hand["watch"].last[c] # last[c]
  PROVE  last[c] = now \/ now <= hindered
<1>t. "watch" \in Timers BY DEF Timers
<1>1. TypeOK /\ Clocked /\ c \in Children BY DEF BInv, TInv, Live
<1>2. hand["watch"].at <= last[c] BY <1>t DEF BInv, RowsKnown, Known, Listening
<1>3. hand["watch"].at = now \/ now <= hindered BY <1>t DEF BInv, HandTimed
<1>4. last[c] <= now /\ last[c] \in Nat /\ now \in Nat BY <1>1 DEF Clocked, TypeOK, Times
<1> QED BY <1>2, <1>3, <1>4

LEMMA WatchingStep ==
  ASSUME WInv, TypeOK', [Next]_vars
  PROVE  Watching'
<1> SUFFICES ASSUME NEW c \in Live', ("watch" \in enabled)', parent', c \notin warned'
             PROVE  Covered(c, Ladder[1], IF Done("watch", c) THEN 0 ELSE 1)'
  BY DEF Watching
<1>t. "watch" \in Timers BY DEF Timers
<1>l. Ladder[1] \in Nat \ {0} BY Rungs
<1>0. TypeOK /\ TypeOK' /\ Clocked /\ HandsRead /\ OneAtATime /\ HandTimed /\ c \in Children
  BY DEF WInv, BInv, TInv, Live
<1>1. now \in Nat /\ last[c] \in Nat /\ memory[c] \in Entries
  BY <1>0 DEF TypeOK, Times, Entries
<1>a. ASSUME Covered(c, Ladder[1], 0)'
      PROVE  Covered(c, Ladder[1], IF Done("watch", c) THEN 0 ELSE 1)'
  BY <1>a, <1>0, <1>l, SlackensNext
<1>2. CASE TimePasses
  <2>1. /\ up' = up + 1 /\ UNCHANGED <<enabled, parent, status, hand, warned>>
        /\ due = {} /\ due' = {t \in enabled : up' % Every[t] = 0}
    BY <1>2 DEF TimePasses, family
  <2>2. ~Busy => Covered(c, Ladder[1], 0)
    BY <1>t, <2>1 DEF Busy, Done, WInv, Watching, Live
  <2>3. "watch" \in due'
    <3>1. up' \in Nat /\ Every["watch"] = 1 BY <1>0, <1>t, <2>1 DEF Every, TypeOK, Times
    <3> QED BY <2>1, <3>1
  <2>4. Covered(c, Ladder[1], 0 + 1)' BY <1>0, <1>2, <1>l, <2>2, MinuteCosts
  <2> QED BY <2>3, <2>4 DEF Done
<1>3. CASE Restart
  <2>1. hindered' = now' BY <1>3 DEF Restart
  <2>2. now' \in Nat BY <1>0 DEF TypeOK, Times
  <2> QED BY <1>0, <1>a, <1>l, <2>1, <2>2, Excuses
<1>4. CASE ~TimePasses /\ ~Restart
  <2>1. Onward /\ Keeps(c) BY <1>0, <1>4, StepKeeps
  <2>2. now' = now /\ parent /\ "watch" \in enabled BY <2>1 DEF Onward
  <2>3. CASE last'[c] = now BY <1>0, <1>a, <1>l, <2>2, <2>3, Excuses
  <2>4. CASE now <= hindered' BY <1>0, <1>a, <1>l, <2>2, <2>4, Excuses
  <2>5. CASE /\ ~(now <= hindered') /\ last'[c] = last[c] /\ last[c] # now
             /\ c \in Live /\ c \notin warned
    <3>1. ~(now <= hindered)
      BY <1>1, <2>1, <2>5 DEF Onward
    <3>2. ASSUME Covered(c, Ladder[1], 0)
          PROVE  Covered(c, Ladder[1], IF Done("watch", c) THEN 0 ELSE 1)'
      BY <1>0, <1>a, <1>l, <2>1, <3>2, StaysCovered
    <3>3. Covered(c, Ladder[1], IF Done("watch", c) THEN 0 ELSE 1)
      BY <2>2, <2>5 DEF WInv, Watching
    <3>4. CASE Done("watch", c) BY <3>2, <3>3, <3>4
    <3>5. CASE ~Done("watch", c) /\ ~Done("watch", c)'
      <4>1. Covered(c, Ladder[1], 1) BY <3>3, <3>5
      <4>2. Covered(c, Ladder[1], 1)' BY <1>0, <1>l, <2>1, <4>1, StaysCovered
      <4> QED BY <3>5, <4>2
    <3>6. CASE ~Done("watch", c) /\ Done("watch", c)'
      <4>1. Spares("watch", c) \/ Acts("watch", c)
        BY <1>4, <1>t, <2>2, <2>5, <3>6, DoneBy DEF WInv, Listening
      <4> DEFINE h == hand["watch"]
      <4>2. h # Idle => h.last[c] = last[c]
        BY <2>2, <2>5, <3>1, Outdated DEF WInv
      <4>3. CASE Spares("watch", c)
        <5>1. Weigh(c) /\ ~Reaches(c)
          BY <1>0, <4>3, WeighEffect DEF Spares, Looks, Reaches
        <5>2. h # Idle /\ c \in DOMAIN h.last /\ h.last[c] \in Times /\ h.at \in Times
          BY <1>0, <1>t, <5>1, InHand DEF Weigh
        <5>3. CASE IsQuiet(c, h.at) \/ h.at - h.last[c] < Ladder[1]
          <6>1. Covered(c, Ladder[1], 0)
            BY <1>0, <1>t, <1>l, <5>1, <5>3, InTime DEF Weigh, WInv
          <6> QED BY <3>2, <6>1
        <5>4. CASE ~IsQuiet(c, h.at) /\ ~(h.at - h.last[c] < Ladder[1])
          <6>1. Weighed(c) = Recall(memory[c], h.last[c]) BY <5>4 DEF Weighed
          <6>2. Weighed(c).attempt # 0
            <7>1. Weighed(c).attempt = 0 => Reaches(c)
              BY <1>l, <5>2, <5>4, Rungs DEF Reaches, Times
            <7> QED BY <5>1, <7>1
          <6>3. ~(h.last[c] > memory[c].seen) /\ memory[c].attempt # 0
            BY <1>1, <5>2, <6>1, <6>2, RecallEntry
          <6>4. memory[c].attempt > 0 /\ memory[c].seen \in Nat /\ h.last[c] \in Nat
            BY <1>1, <5>2, <6>3, TimersAssumption DEF Entries, Times
          <6>5. memory[c].seen <= h.last[c] BY <5>2 DEF WInv, SeenRead
          <6>6. memory[c].seen = last[c] BY <4>2, <5>2, <6>3, <6>4, <6>5
          <6> QED BY <1>0, <2>5, <6>4, <6>6 DEF WInv, RungSpent
        <5> QED BY <5>3, <5>4
      <4>4. CASE Acts("watch", c)
        <5>1. Wake(c) \/ WakeFails(c) BY <4>4 DEF Acts
        <5>2. CASE Wake(c) BY <4>2, <5>2 DEF Wake, Acting
        <5>3. CASE WakeFails(c) BY <1>1, <2>4, <5>3 DEF WakeFails
        <5> QED BY <5>1, <5>2, <5>3
      <4> QED BY <4>1, <4>3, <4>4
    <3> QED BY <3>4, <3>5, <3>6
  <2>6. c \in warned => last'[c] = now BY <2>1 DEF Keeps
  <2> QED BY <2>1, <2>3, <2>4, <2>5, <2>6 DEF Keeps
<1> QED BY <1>2, <1>3, <1>4

LEMMA WatchInit == Init => WInv
<1> SUFFICES ASSUME Init PROVE WInv OBVIOUS
<1>1. hand["watch"] = Idle /\ (\A c \in Children : memory[c].attempt = 0) /\ Live = {}
  BY DEF Init, Timers, Afresh, Live
<1> QED BY <1>1, BaseInit DEF WInv, SeenRead, RungSpent, Watching

LEMMA WatchStep == WInv /\ [Next]_vars => WInv'
<1> SUFFICES ASSUME WInv, [Next]_vars PROVE WInv' OBVIOUS
<1>1. BInv' /\ TypeOK' BY BaseStep DEF WInv, BInv, TInv
<1>2. TypeOK /\ Clocked /\ HandsRead /\ SeenPast BY DEF WInv, BInv, TInv
<1> QED BY <1>1, <1>2, SeenReadStep, RungStep, WatchingStep DEF WInv

LEMMA Watched ==
  ASSUME WInv, NEW c \in Live, "watch" \in enabled, parent, c \notin warned
  PROVE  Covered(c, Ladder[1], 1)
<1>1. TypeOK /\ c \in Children BY DEF WInv, BInv, TInv, Live
<1>2. Covered(c, Ladder[1], 0) \/ Covered(c, Ladder[1], 1) BY DEF WInv, Watching
<1>3. Ladder[1] \in Nat BY Rungs
<1> QED BY <1>1, <1>2, <1>3, Slackens

(* A child that falls silent does not go unnoticed: however sweeps, hints, *)
(* activity, failures and restarts interleave, its parent is told within a *)
(* minute of the first rung or of the last thing that excused it.          *)
THEOREM SilenceReported == Spec => []ReportedInTime
<1>1. WInv => ReportedInTime
  <2> SUFFICES ASSUME WInv, NEW c \in Live, "watch" \in enabled, parent, c \notin warned
               PROVE  now <= 1 + Longest(Longest(last[c] + Ladder[1], hushed[c]), hindered)
    BY DEF ReportedInTime
  <2>1. /\ now \in Nat /\ last[c] \in Nat /\ hushed[c] \in Nat /\ hindered \in Nat
    BY DEF WInv, BInv, TInv, Live, TypeOK, Times
  <2>2. Ladder[1] \in Nat BY Rungs
  <2>3. Covered(c, Ladder[1], 1) BY Watched
  <2> QED BY <2>1, <2>2, <2>3 DEF Covered, Longest
<1> QED BY <1>1, WatchInit, WatchStep, PTL DEF Spec

(* The reaper never comes before the warning: a worker that it may end was *)
(* reported to the parent, unless something kept the watchdog from it      *)
(* until a minute ago; for every threshold beyond the first rung.          *)
THEOREM NoneReapedUnwarned == Spec => []WarnedBeforeReaped
<1>1. WInv => WarnedBeforeReaped
  <2> SUFFICES ASSUME WInv, NEW c \in Live, "watch" \in enabled, parent, c \notin warned,
                      Silence(c) >= ReapAfter
               PROVE  now <= 1 + Longest(hushed[c], hindered)
    BY DEF WarnedBeforeReaped
  <2>1. /\ now \in Nat /\ last[c] \in Nat /\ hushed[c] \in Nat /\ hindered \in Nat
    BY DEF WInv, BInv, TInv, Live, TypeOK, Times
  <2>2. Ladder[1] \in Nat /\ ReapAfter \in Nat /\ Ladder[1] < ReapAfter
    BY Rungs, TimersAssumption
  <2>3. ~(now < last[c] + Ladder[1] + 1) BY <2>1, <2>2 DEF Silence
  <2>4. Covered(c, Ladder[1], 1) BY Watched
  <2> QED BY <2>1, <2>3, <2>4 DEF Covered, Longest
<1> QED BY <1>1, WatchInit, WatchStep, PTL DEF Spec
=============================================================================
