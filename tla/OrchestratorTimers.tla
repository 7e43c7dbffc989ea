-------------------------- MODULE OrchestratorTimers --------------------------
(***************************************************************************)
(* The api's three sweeps over the children of an orchestrator's session:  *)
(* the activity watchdog, which tells the parent of a silent child and     *)
(* backs off, the silent-worker reaper, which ends a worker that stays     *)
(* silent, and the checkup timer, which lets the parent look at its        *)
(* children now and then; and the "expect quiet" hints that the first two  *)
(* respect.                                                                *)
(*                                                                         *)
(* A sweep reads its rows once, then works through them with awaits in     *)
(* between, on what it read; its memory and the hints are the process's    *)
(* own and a restart forgets them.  The clock counts minutes.  A timer     *)
(* fires at every multiple of its interval since the process started, and  *)
(* its sweep ends within the minute unless something is slow.              *)
(*                                                                         *)
(* Left out: a parent that is no orchestrator (it is never woken), what a  *)
(* wake says, the deletion of the reaped worker's Job and the races of its *)
(* row (SessionLifecycle), a second replica (the chart runs one).          *)
(***************************************************************************)
EXTENDS Naturals, Sequences, FiniteSets

Timers == {"watch", "reap", "checkup"}

CONSTANTS
  Children,    \* the sessions the parent may spawn
  Workers,     \* those of a worker agent; the others are nested orchestrators
  Ladder,      \* BACKOFF_MINUTES
  ReapAfter,   \* silenceThresholdMs
  Cadence,     \* checkupCadenceMs
  Hints,       \* what expect_quiet_for may be called with, in minutes
  Deployments, \* the sets of timers that the environment may leave enabled
  Horizon,     \* bound: how far the clock runs
  Faults       \* which of "nats", "db", "slow", "restart" may happen

Times == 0 .. Horizon
Every == [t \in Timers |-> IF t = "reap" THEN 2 ELSE 1]

ASSUME TimersAssumption ==
  /\ Workers \subseteq Children /\ Deployments \subseteq SUBSET Timers
  /\ Ladder \in Seq(Nat \ {0}) /\ Len(Ladder) > 0
  /\ \A i, j \in 1 .. Len(Ladder) : i < j => Ladder[i] < Ladder[j]
  /\ ReapAfter \in Nat /\ ReapAfter > Ladder[1]
  /\ Cadence \in Nat \ {0} /\ Hints \subseteq Nat /\ Horizon \in Nat \ {0}
  /\ Faults \subseteq {"nats", "db", "slow", "restart"}

VARIABLES
  enabled,  \* the timers of this deployment
  now,      \* the clock, from 1: 0 stands for never
  up,       \* for how long the process has been running
  parent,   \* the parent's session is pending or running
  status,   \* "none", "live" (pending or running) or "over", of each child
  born,     \* triggered_at
  last,     \* COALESCE(MAX(session_events.timestamp), triggered_at)
  quiet,    \* QuietHintStore: until when, 0 without a hint
  memory,   \* the watchdog's state map; no entry is the same as Afresh
  glanced,  \* the checkup timer's lastFiredAt, 0 without an entry
  due,      \* the timers that still have to fire this minute
  hand,     \* what each sweep is in the middle of
  told,     \* wakes about the present silence since the process started
  warned,   \* the children whose present silence the parent was told of
  hushed,   \* until when a hint was to keep the timers from a child
  hindered  \* when a sweep last failed or took too long, or the process began

family  == <<parent, status, born, last>>
store   == <<quiet, hushed>>
clock   == <<enabled, now, up>>
history == <<told, warned, hindered>>
vars == <<clock, family, store, memory, glanced, due, hand, history>>

Idle   == [at |-> 0]
Afresh == [attempt |-> 0, seen |-> 0]

Live  == {c \in Children : status[c] = "live"}
Heard == IF parent THEN Live ELSE {}   \* JOIN sessions p ... p.status IN (...)

Init ==
  /\ enabled \in Deployments /\ now = 1 /\ up = 0 /\ parent = TRUE
  /\ status = [c \in Children |-> "none"]
  /\ born = [c \in Children |-> 0] /\ last = [c \in Children |-> 0]
  /\ quiet = [c \in Children |-> 0] /\ hushed = [c \in Children |-> 0]
  /\ memory = [c \in Children |-> Afresh]
  /\ glanced = 0 /\ due = {}
  /\ hand = [t \in Timers |-> Idle]
  /\ told = [c \in Children |-> 0] /\ warned = {} /\ hindered = 1
-----------------------------------------------------------------------------
(* The sessions.                                                           *)

(* A child is heard from: it is spawned, or an event of it is persisted.   *)
Heeds(c) ==
  /\ last' = [last EXCEPT ![c] = now]
  /\ told' = [told EXCEPT ![c] = 0]
  /\ warned' = warned \ {c}

Spawn(c) ==
  /\ parent /\ status[c] = "none"
  /\ status' = [status EXCEPT ![c] = "live"]
  /\ born' = [born EXCEPT ![c] = now]
  /\ Heeds(c)
  /\ UNCHANGED <<clock, parent, store, memory, glanced, due, hand, hindered>>

Emit(c) ==
  /\ status[c] = "live"
  /\ Heeds(c)
  /\ UNCHANGED <<clock, parent, status, born, store, memory, glanced, due, hand, hindered>>

End(c) ==
  /\ status[c] = "live"
  /\ status' = [status EXCEPT ![c] = "over"]
  /\ UNCHANGED <<clock, parent, born, last, store, memory, glanced, due, hand, history>>

ParentEnds ==
  /\ parent /\ parent' = FALSE
  /\ UNCHANGED <<clock, status, born, last, store, memory, glanced, due, hand, history>>

(* POST /sessions/:id/quiet-hint: a hint replaces the one before it, and   *)
(* one of no length clears it.                                             *)
Stacked(c, n) == IF n = 0 THEN 0 ELSE n + (IF quiet[c] > now THEN quiet[c] ELSE now)   \* mutant
Until(c, n) == IF n = 0 THEN 0 ELSE now + n
Hint(c, n) ==
  /\ status[c] = "live" /\ (n = 0 => quiet[c] # 0)
  /\ quiet' = [quiet EXCEPT ![c] = Until(c, n)]
  /\ hushed' = [hushed EXCEPT ![c] = now + n]
  /\ UNCHANGED <<clock, family, memory, glanced, due, hand, history>>
-----------------------------------------------------------------------------
(* The sweeps.                                                             *)

(* hand[t]: when the sweep began, the children it still has to look at,    *)
(* the one it is about to act on, and the rows it read.                    *)
Finished(h) == h.todo = {} /\ h.acting = {}
Becomes(t, h) == hand' = [hand EXCEPT ![t] = IF Finished(h) THEN Idle ELSE h]

LookedAt(h, c, acts) ==
  [h EXCEPT !.todo = @ \ {c}, !.acting = IF acts THEN {c} ELSE {}]
Acted(h) == [h EXCEPT !.acting = {}]
Scanning(t, c) == hand[t] # Idle /\ hand[t].acting = {} /\ c \in hand[t].todo
Acting(t, c)   == hand[t] # Idle /\ c \in hand[t].acting

(* A sweep of the watchdog ends by forgetting the children it did not read.*)
Kept(m, h) ==
  IF Finished(h) THEN [c \in Children |-> IF c \in DOMAIN h.last THEN m[c] ELSE Afresh] ELSE m

(* A timer that fires while its last sweep is still going is dropped;      *)
(* otherwise the sweep takes the time and reads its rows.                  *)
NeedParent(t) == Heard   \* mutant
Rows(t) == IF t = "reap" THEN Live ELSE Heard
Sweep(t) ==
  [at |-> now, todo |-> Rows(t), acting |-> {}, last |-> [c \in Rows(t) |-> last[c]]]
Fire(t) ==
  /\ t \in due
  /\ due' = due \ {t}
  /\ IF hand[t] # Idle
       THEN UNCHANGED <<hand, memory, glanced>>
       ELSE /\ Becomes(t, Sweep(t))
            /\ memory' = IF t = "watch" THEN Kept(memory, Sweep(t)) ELSE memory
            /\ glanced' = IF t = "checkup" /\ Heard = {} THEN 0 ELSE glanced
  /\ UNCHANGED <<clock, family, store, history>>

(* isQuiet: a hint that has expired is forgotten when it is looked at.     *)
IsQuiet(c, at) == quiet[c] > at
LookAtHint(c, at) ==
  /\ quiet' = [quiet EXCEPT ![c] = IF @ <= at THEN 0 ELSE @]
  /\ UNCHANGED hushed

(* thresholdSecondsForAttempt.                                             *)
Rung(n) == Ladder[IF n < 1 THEN 1 ELSE IF n < Len(Ladder) THEN n ELSE Len(Ladder)]
LadderFromZero(attempt) == Rung(attempt - 1)   \* mutant
Threshold(attempt) == Rung(attempt)

(* The attempts are counted up to one past the ladder: the threshold no    *)
(* longer changes.                                                         *)
NextAttempt(n) == IF n <= Len(Ladder) THEN n + 1 ELSE n

(* Activity since the last sweep starts the ladder again.                  *)
Unreset(m, heardAt) == [m EXCEPT !.seen = heardAt]   \* mutant
Recall(m, heardAt) == IF heardAt > m.seen THEN [attempt |-> 0, seen |-> heardAt] ELSE m

Weigh(c) ==
  /\ Scanning("watch", c)
  /\ LET h == hand["watch"]
         m == IF IsQuiet(c, h.at) THEN memory[c] ELSE Recall(memory[c], h.last[c])
         g == LookedAt(h, c, ~IsQuiet(c, h.at) /\ h.at - h.last[c] >= Threshold(m.attempt + 1))
     IN /\ Becomes("watch", g)
        /\ memory' = Kept([memory EXCEPT ![c] = m], g)
        /\ LookAtHint(c, h.at)
  /\ UNCHANGED <<clock, family, glanced, due, history>>

(* publishWatchdogWake.  The wake is about the silence the sweep read: the *)
(* child may have been heard from since.                                   *)
Wake(c) ==
  /\ Acting("watch", c)
  /\ LET h == hand["watch"] IN
       /\ Becomes("watch", Acted(h))
       /\ memory' = Kept([memory EXCEPT ![c].attempt = NextAttempt(@)], Acted(h))
       /\ IF h.last[c] = last[c]
            THEN told' = [told EXCEPT ![c] = NextAttempt(@)] /\ warned' = warned \cup {c}
            ELSE UNCHANGED <<told, warned>>
  /\ UNCHANGED <<clock, family, store, glanced, due, hindered>>

WakeFails(c) ==
  /\ "nats" \in Faults /\ Acting("watch", c)
  /\ Becomes("watch", Acted(hand["watch"]))
  /\ memory' = Kept(memory, Acted(hand["watch"]))
  /\ hindered' = now
  /\ UNCHANGED <<clock, family, store, glanced, due, told, warned>>

Condemn(c) ==
  /\ Scanning("reap", c)
  /\ LET h == hand["reap"] IN
       /\ Becomes("reap", LookedAt(h, c, ~IsQuiet(c, h.at) /\ c \in Workers
                                           /\ h.at - h.last[c] >= ReapAfter))
       /\ LookAtHint(c, h.at)
  /\ UNCHANGED <<clock, family, memory, glanced, due, history>>

(* reapWorker: a row that became terminal meanwhile is left alone.         *)
Reap(c) ==
  /\ Acting("reap", c)
  /\ status' = [status EXCEPT ![c] = "over"]
  /\ Becomes("reap", Acted(hand["reap"]))
  /\ UNCHANGED <<clock, parent, born, last, store, memory, glanced, due, history>>

ReapFails(c) ==
  /\ "db" \in Faults /\ Acting("reap", c)
  /\ Becomes("reap", Acted(hand["reap"]))
  /\ hindered' = now
  /\ UNCHANGED <<clock, family, store, memory, glanced, due, told, warned>>

(* One checkup for all of the parent's children, at most every Cadence; an *)
(* orchestrator without children was forgotten as the sweep began.         *)
OverDue(at) == glanced = 0 \/ at - glanced > Cadence   \* mutant
IsDue(at) == glanced = 0 \/ at - glanced >= Cadence
Checkup ==
  /\ hand["checkup"] # Idle
  /\ glanced' = IF IsDue(hand["checkup"].at) THEN hand["checkup"].at ELSE glanced
  /\ hand' = [hand EXCEPT !["checkup"] = Idle]
  /\ UNCHANGED <<clock, family, store, memory, due, history>>

CheckupFails ==
  /\ "nats" \in Faults
  /\ hand["checkup"] # Idle /\ IsDue(hand["checkup"].at)
  /\ hindered' = now
  /\ hand' = [hand EXCEPT !["checkup"] = Idle]
  /\ UNCHANGED <<clock, family, store, memory, glanced, due, told, warned>>

(* A query that fails ends the sweep: nothing is forgotten.                *)
SweepFails(t) ==
  /\ "db" \in Faults /\ hand[t] # Idle
  /\ hindered' = now
  /\ hand' = [hand EXCEPT ![t] = Idle]
  /\ UNCHANGED <<clock, family, store, memory, glanced, due, told, warned>>
-----------------------------------------------------------------------------
(* The clock and the process.                                              *)

Busy == \E t \in Timers : hand[t] # Idle

TimePasses ==
  /\ now < Horizon /\ \E c \in Children : status[c] # "over"
  /\ due = {} /\ (Busy => "slow" \in Faults)
  /\ now' = now + 1 /\ up' = up + 1
  /\ due' = {t \in enabled : up' % Every[t] = 0}
  /\ hindered' = IF Busy THEN now' ELSE hindered
  /\ UNCHANGED <<enabled, family, store, memory, glanced, hand, told, warned>>

(* The memory, the hints and the sweeps are gone; the timers start over.   *)
Restart ==
  /\ "restart" \in Faults
  /\ up > 0 /\ up' = 0
  /\ quiet' = [c \in Children |-> 0] /\ hushed' = quiet'
  /\ memory' = [c \in Children |-> Afresh]
  /\ glanced' = 0 /\ due' = {}
  /\ hand' = [t \in Timers |-> Idle]
  /\ told' = [c \in Children |-> 0]
  /\ hindered' = now
  /\ UNCHANGED <<enabled, now, family, warned>>

Next ==
  \/ \E c \in Children :
       \/ Spawn(c) \/ Emit(c) \/ End(c)
       \/ Weigh(c) \/ Wake(c) \/ WakeFails(c) \/ Condemn(c) \/ Reap(c) \/ ReapFails(c)
       \/ \E n \in Hints : Hint(c, n)
  \/ ParentEnds
  \/ \E t \in Timers : Fire(t) \/ SweepFails(t)
  \/ Checkup \/ CheckupFails
  \/ TimePasses \/ Restart

Spec == Init /\ [][Next]_vars
-----------------------------------------------------------------------------
(* Properties.                                                             *)

(* Every variable keeps its type.                                          *)
Read   == UNION {[some -> Times] : some \in SUBSET Children}
Sweeps == [at : Times, todo : SUBSET Children, acting : SUBSET Children, last : Read]
TypeOK ==
  /\ enabled \subseteq Timers
  /\ now \in Times /\ up \in Times /\ parent \in BOOLEAN
  /\ status \in [Children -> {"none", "live", "over"}]
  /\ born \in [Children -> Times] /\ last \in [Children -> Times]
  /\ quiet \in [Children -> Nat] /\ hushed \in [Children -> Nat]
  /\ memory \in [Children -> [attempt : 0 .. Len(Ladder) + 1, seen : Times]]
  /\ glanced \in Times /\ due \subseteq Timers /\ hand \in [Timers -> {Idle} \cup Sweeps]
  /\ told \in [Children -> 0 .. Len(Ladder) + 1]
  /\ warned \subseteq Children /\ hindered \in Times

Longest(a, b) == IF a > b THEN a ELSE b
Silence(c) == now - last[c]

(* The parent is told about one silence no oftener than the ladder has     *)
(* rungs below it, until the last rung, however sweeps, hints, activity    *)
(* and restarts interleave: activity read late never leaves the count of   *)
(* an older silence behind.                                                *)
LadderClimbed ==
  \A c \in Live : Silence(c) < Ladder[Len(Ladder)] =>
    told[c] <= Cardinality({k \in 1 .. Len(Ladder) : Ladder[k] <= Silence(c)})

(* A silent child is reported within a minute of the first rung, or of the *)
(* end of the hint, the failure, the slow sweep or the restart that came   *)
(* in between.                                                             *)
ReportedInTime ==
  \A c \in Live : "watch" \in enabled /\ parent =>
    \/ c \in warned
    \/ now <= 1 + Longest(Longest(last[c] + Ladder[1], hushed[c]), hindered)

(* "The hard termination after the parent has had a chance to react": when *)
(* the reaper is about to read a worker it would end, the parent has been  *)
(* told, unless a hint, a failure or a restart kept it from being told     *)
(* until a minute ago.                                                     *)
WarnedBeforeReaped ==
  \A c \in Live : {"watch", "reap"} \subseteq enabled /\ parent
                     /\ "reap" \in due /\ Silence(c) >= ReapAfter =>
    c \in warned \/ now <= 1 + Longest(hushed[c], hindered)

(* A worker that says nothing does not outlive the threshold by more than  *)
(* the reaper's interval; hints, failures and restarts delay it by no more *)
(* than that again.                                                        *)
ReapedInTime ==
  \A c \in Live \cap Workers : "reap" \in enabled =>
    now <= Every["reap"] + Longest(Longest(last[c] + ReapAfter, hushed[c]), hindered)

(* An orchestrator with a child gets to look at its children: within two   *)
(* minutes of the child's start, of a failure or of a restart, and then at *)
(* every cadence.                                                          *)
GlancedInTime ==
  \A c \in Live : "checkup" \in enabled /\ parent /\ now > 1 + Longest(born[c], hindered) =>
    glanced # 0 /\ now - glanced <= Cadence
=============================================================================
