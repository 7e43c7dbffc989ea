----------------------- MODULE SessionLifecycle_proofs -----------------------
(***************************************************************************)
(* What holds of the sessions table for every set of sessions, agents,     *)
(* parents, writers and faults, proved from SessionsAssumption.            *)
(*                                                                         *)
(* The inductive invariant adds to the stated ones what a handler in       *)
(* flight knows (HandsReady) and that a row being created has no history   *)
(* (FreshRows): without them a writer could write a status it never        *)
(* computed, or an INSERT could revive a stamped row.                      *)
(***************************************************************************)
EXTENDS SessionLifecycle, TLAPS

(* Whoever is inside a handler holds a session; whoever is about to write  *)
(* holds a status of a row; a wake is about a row already stamped.         *)
HandsReady ==
  \A w \in Writers :
    LET h == hand[w] IN
      /\ h.step # "idle" => h.s \in Sessions
      /\ h.step = "write" => h.will \in {"running"} \cup Terminal
      /\ h.after = "wake" => h.will \in Terminal
      /\ h.step = "wake" => h.will \in Terminal /\ stamped[h.s]

(* A session between find and INSERT has no row, and a row that does not   *)
(* exist yet was never terminal.                                           *)
FreshRows ==
  \A s \in Sessions :
    /\ s \in creating => status[s] = "unborn"
    /\ status[s] = "unborn" => ~stamped[s]

(* A state_change wake names a child whose row has been terminal.          *)
WakeOfStamped == \A wake \in woken : stamped[wake[1]]

IInv == TypeOK /\ HandsReady /\ FreshRows /\ StampedWhenTerminal /\ OneFreshSession /\ WakeOfStamped
-----------------------------------------------------------------------------
(* Every way to fill a hand is well typed.                                 *)
LEMMA HandTypes ==
  /\ Idle \in Hands
  /\ \A s \in Sessions, will \in {"none", "running"} \cup Terminal, reason \in Reasons,
        after \in {"none", "wake", "kill"} : ToWrite(s, will, reason, after) \in Hands
  /\ \A s \in Sessions : ToLaunch(s) \in Hands
BY DEF Idle, Hands, ToWrite, ToLaunch, Reasons, Terminal

(* Initially the invariant holds.                                          *)
LEMMA InitInvariant == Init => IInv
<1> SUFFICES ASSUME Init PROVE IInv OBVIOUS
<1>1. TypeOK
  BY HandTypes DEF Init, TypeOK, Status, Reasons, JobState, Events, Reports, Sweep, NoSweep
<1>2. HandsReady
  BY DEF Init, HandsReady, Idle
<1>3. FreshRows /\ StampedWhenTerminal /\ OneFreshSession /\ WakeOfStamped
  BY DEF Init, FreshRows, StampedWhenTerminal, OneFreshSession, WakeOfStamped, Terminal, Live, LiveSet
<1> QED BY <1>1, <1>2, <1>3 DEF IInv
-----------------------------------------------------------------------------
(* Most steps leave the rows and the wakes alone and at most let one       *)
(* writer pick up a session, with something sensible to do to it.          *)
Picks(h) ==
  \/ h = Idle
  \/ \E s \in Sessions : h = ToLaunch(s)
  \/ \E s \in Sessions, will \in {"running"} \cup Terminal, reason \in Reasons,
        after \in {"none", "wake", "kill"} :
       h = ToWrite(s, will, reason, after) /\ (after = "wake" => will \in Terminal)

(* What a writer picks up is well typed.                                   *)
LEMMA PickTypes == \A h : Picks(h) => h \in Hands
BY HandTypes DEF Picks

(* A step that leaves the rows alone and lets one writer pick up a session *)
(* keeps the invariant of rows and hands.                                  *)
LEMMA HandOnly ==
  ASSUME IInv, UNCHANGED <<rowVars, woken>>, creating' \subseteq creating,
         hand' = hand \/ \E w \in Writers : \E h : Picks(h) /\ hand' = [hand EXCEPT ![w] = h]
  PROVE  HandsReady' /\ FreshRows' /\ StampedWhenTerminal' /\ OneFreshSession' /\ WakeOfStamped'
         /\ hand' \in [Writers -> Hands]
<1> USE DEF IInv
<1>1. FreshRows' /\ StampedWhenTerminal' /\ OneFreshSession' /\ WakeOfStamped'
  BY DEF rowVars, FreshRows, StampedWhenTerminal, OneFreshSession, WakeOfStamped, Live
<1>2. ASSUME NEW w \in Writers, NEW h, Picks(h), hand' = [hand EXCEPT ![w] = h]
      PROVE  HandsReady' /\ hand' \in [Writers -> Hands]
  <2>1. hand' \in [Writers -> Hands]
    BY <1>2, PickTypes DEF TypeOK
  <2>2. SUFFICES ASSUME NEW v \in Writers PROVE HandsReady!(v)'
    BY <2>1 DEF HandsReady
  <2>3. CASE v = w
    BY <1>2, <2>3 DEF TypeOK, Picks, Idle, ToLaunch, ToWrite
  <2>4. CASE v # w
    <3>1. hand'[v] = hand[v]
      BY <1>2, <2>4 DEF TypeOK
    <3> QED BY <3>1 DEF HandsReady, rowVars
  <2> QED BY <2>3, <2>4
<1>3. CASE hand' = hand
  BY <1>1, <1>3 DEF HandsReady, TypeOK, rowVars
<1> QED BY <1>1, <1>2, <1>3
-----------------------------------------------------------------------------
(* The disjuncts of Next, sorted by what they do to the rows: most only    *)
(* hand a session to one writer, some touch neither rows nor hands.        *)
HandSteps ==
  \/ \E s \in Sessions :
       LaunchSession(s) \/ SweepRow(s) \/ ReconcilerProbe(s)
         \/ UserCancel(s) \/ ParentCancel(s) \/ ReapSilent(s)
         \/ \E e \in Events : Ingest(s, e)
  \/ LaunchFails \/ CreateJob \/ \E w \in Writers : Kill(w) \/ WriteRefused(w)

QuietSteps ==
  \/ \E s \in Sessions :
       \/ FindOrCreate(s) \/ Resume(s) \/ ReconcilerProbeFails(s)
       \/ WorkerStarts(s) \/ JobGone(s) \/ JobLost(s) \/ GraceElapses(s)
       \/ \E e \in Events : LoseEvent(s, e)
       \/ \E report \in Reports : WorkerReports(s, report)
       \/ \E result \in {"succeeded", "failed"} : JobEnds(s, result)
  \/ SweepList \/ SweepFails \/ ReconcilerList \/ UNCHANGED vars

RowSteps ==
  \/ \E s \in Sessions : Insert(s) \/ DeleteSession(s)
  \/ \E w \in Writers : Write(w) \/ WriteUnanswered(w) \/ Wake(w)
  \/ Crash

(* The sorting leaves no step out.                                         *)
LEMMA NextCases == [Next]_vars => HandSteps \/ QuietSteps \/ RowSteps
BY DEF Next, HandSteps, QuietSteps, RowSteps

(* What a step that only hands over a session does: the session is picked  *)
(* properly, and whatever else changes keeps its type.                     *)
HandEffect ==
  /\ UNCHANGED <<rowVars, woken, creating, aged, epoch, worker>>
  /\ forgotten' \subseteq Sessions
  /\ hand' = hand \/ \E w \in Writers : \E h : Picks(h) /\ hand' = [hand EXCEPT ![w] = h]
  /\ job' \in [Sessions -> JobState]
  /\ inbox' \in [Sessions -> SUBSET Events]
  /\ log' \in [Sessions -> {"none"} \cup Reports]
  /\ sweep' \in [rows : SUBSET Sessions, jobs : [Sessions -> JobState]]
  /\ stale' \subseteq Sessions

(* Those steps have that effect and no other.                              *)
LEMMA HandStepsPick == IInv /\ HandSteps => HandEffect
<1> SUFFICES ASSUME IInv, HandSteps PROVE HandEffect OBVIOUS
<1> USE DEF IInv, TypeOK, rowVars, podVars, envVars, HandEffect
<1>1. ASSUME NEW s \in Sessions, LaunchSession(s) PROVE HandEffect
  BY <1>1 DEF LaunchSession, Writers, Picks
<1>2. ASSUME NEW s \in Sessions, SweepRow(s) PROVE HandEffect
  <2>1. sweep' \in [rows : SUBSET Sessions, jobs : [Sessions -> JobState]]
    BY <1>2 DEF SweepRow, Sweep, JobState
  <2>2. Verdict(s) # "none" => Picks(Ended(s, Verdict(s)))
    BY DEF Verdict, StatusOf, Picks, Ended, Terminal, Reasons
  <2> QED BY <1>2, <2>1, <2>2 DEF SweepRow, Writers
<1>3. ASSUME NEW s \in Sessions, ReconcilerProbe(s) PROVE HandEffect
  <2>1. Picks(Ended(s, "failed"))
    BY DEF Picks, Ended, Terminal, Reasons
  <2> QED BY <1>3, <2>1 DEF ReconcilerProbe, Writers
<1>4. ASSUME NEW w \in Writers, NEW s \in Sessions, NEW reason \in Reasons, Cancel(w, s, reason)
      PROVE HandEffect
  BY <1>4 DEF Cancel, Picks, Terminal
<1>5. ASSUME NEW s \in Sessions, UserCancel(s) \/ ParentCancel(s) \/ ReapSilent(s) PROVE HandEffect
  BY <1>4, <1>5 DEF UserCancel, ParentCancel, ReapSilent, Writers, Reasons
<1>6. ASSUME NEW s \in Sessions, NEW e \in Events, Ingest(s, e) PROVE HandEffect
  <2>1. Picks(AfterEvent(s, e))
    BY DEF AfterEvent, Picks, Ended, StatusOf, Terminal, Reasons
  <2> QED BY <1>6, <2>1 DEF Ingest, Writers
<1>7. ASSUME LaunchFails PROVE HandEffect
  <2>1. job' \in [Sessions -> JobState]
    BY <1>7 DEF LaunchFails, JobState
  <2> QED BY <1>7, <2>1 DEF LaunchFails, Picks, Terminal, Reasons, Writers, HandsReady
<1>8. ASSUME CreateJob PROVE HandEffect
  BY <1>8 DEF CreateJob, Picks, Reasons, Writers, HandsReady, JobState
<1>9. ASSUME NEW w \in Writers, Kill(w) PROVE HandEffect
  BY <1>9 DEF Kill, Picks, JobState
<1>10. ASSUME NEW w \in Writers, WriteRefused(w) PROVE HandEffect
  <2>1. /\ sweep' \in [rows : SUBSET Sessions, jobs : [Sessions -> JobState]]
        /\ stale' \subseteq Sessions
    BY <1>10 DEF WriteRefused, DropsSweep, NoSweep, Sweep, JobState
  <2> QED BY <1>10, <2>1 DEF WriteRefused, CutShort, Picks
<1> QED BY <1>1, <1>2, <1>3, <1>5, <1>6, <1>7, <1>8, <1>9, <1>10 DEF HandSteps

(* A step that touches neither the rows nor the hands keeps the types.     *)
QuietEffect ==
  /\ UNCHANGED <<rowVars, woken, hand, log, epoch, forgotten>>
  /\ creating' \subseteq Sessions
  /\ \A s \in Sessions : s \in creating' => status[s] = "unborn"
  /\ job' \in [Sessions -> JobState]
  /\ worker' \in [Sessions -> {"none", "up", "dead"} \cup Reports]
  /\ inbox' \in [Sessions -> SUBSET Events]
  /\ aged' \subseteq Sessions
  /\ sweep' \in [rows : SUBSET Sessions, jobs : [Sessions -> JobState]]
  /\ stale' \subseteq Sessions

(* Those steps touch no row and no hand.                                   *)
LEMMA QuietStepsAreQuiet == IInv /\ QuietSteps => QuietEffect
<1> SUFFICES ASSUME IInv, QuietSteps PROVE QuietEffect OBVIOUS
<1> USE DEF IInv, TypeOK, rowVars, podVars, apiVars, envVars, QuietEffect, FreshRows
<1>1. ASSUME NEW s \in Sessions, FindOrCreate(s) \/ Resume(s) PROVE QuietEffect
  BY <1>1 DEF FindOrCreate, Resume
<1>2. ASSUME NEW s \in Sessions, WorkerStarts(s) PROVE QuietEffect
  BY <1>2 DEF WorkerStarts, Events
<1>3. ASSUME NEW s \in Sessions, JobGone(s) \/ JobLost(s) PROVE QuietEffect
  BY <1>3 DEF JobGone, JobLost, JobState
<1>4. ASSUME NEW s \in Sessions, GraceElapses(s) PROVE QuietEffect
  BY <1>4 DEF GraceElapses
<1>5. ASSUME NEW s \in Sessions, NEW e \in Events, LoseEvent(s, e) PROVE QuietEffect
  BY <1>5 DEF LoseEvent
<1>6. ASSUME NEW s \in Sessions, NEW report \in Reports, WorkerReports(s, report)
      PROVE QuietEffect
  BY <1>6 DEF WorkerReports, Events
<1>7. ASSUME NEW s \in Sessions, NEW result \in {"succeeded", "failed"}, JobEnds(s, result)
      PROVE QuietEffect
  BY <1>7 DEF JobEnds, JobState
<1>8. ASSUME SweepList PROVE QuietEffect
  <2>1. Sweep({s \in Sessions : status[s] = "running"}, job)
          \in [rows : SUBSET Sessions, jobs : [Sessions -> JobState]]
    BY DEF Sweep, JobState
  <2> QED BY <1>8, <2>1 DEF SweepList
<1>9. ASSUME ReconcilerList \/ \E s \in Sessions : ReconcilerProbeFails(s) PROVE QuietEffect
  BY <1>9 DEF ReconcilerList, ReconcilerProbeFails
<1>10. ASSUME UNCHANGED vars PROVE QuietEffect
  BY <1>10 DEF vars
<1>11. ASSUME SweepFails PROVE QuietEffect
  BY <1>11 DEF SweepFails, NoSweep, Sweep, JobState
<1> QED
  BY <1>1, <1>2, <1>3, <1>4, <1>5, <1>6, <1>7, <1>8, <1>9, <1>10, <1>11 DEF QuietSteps

(* Every step keeps the invariant.                                         *)
LEMMA StepInvariant == IInv /\ [Next]_vars => IInv'
<1> SUFFICES ASSUME IInv, [Next]_vars PROVE IInv' OBVIOUS
<1>1. CASE HandSteps
  <2>1. HandEffect
    BY <1>1, HandStepsPick
  <2>2. HandsReady' /\ FreshRows' /\ StampedWhenTerminal' /\ OneFreshSession' /\ WakeOfStamped'
        /\ hand' \in [Writers -> Hands]
    BY <2>1, HandOnly DEF HandEffect
  <2>3. TypeOK'
    BY <2>1, <2>2 DEF HandEffect, IInv, TypeOK, rowVars, envVars
  <2> QED BY <2>2, <2>3 DEF IInv
<1>2. CASE QuietSteps
  <2>1. QuietEffect
    BY <1>2, QuietStepsAreQuiet
  <2>2. TypeOK'
    BY <2>1 DEF QuietEffect, IInv, TypeOK, rowVars
  <2>3. HandsReady'
    BY <2>1 DEF QuietEffect, IInv, HandsReady, rowVars
  <2>4. FreshRows' /\ StampedWhenTerminal' /\ OneFreshSession' /\ WakeOfStamped'
    BY <2>1 DEF QuietEffect, IInv, rowVars, FreshRows, StampedWhenTerminal, OneFreshSession,
                WakeOfStamped, Live
  <2> QED BY <2>2, <2>3, <2>4 DEF IInv
<1>3. ASSUME NEW s \in Sessions, Insert(s) PROVE IInv'
  <2> USE <1>3 DEF Insert, IInv, rowVars, podVars, envVars
  <2>0. status' = status \/ (status[s] = "unborn" /\ Insertable(s)
                             /\ status' = [status EXCEPT ![s] = "pending"])
    BY DEF FreshRows
  <2>1. TypeOK'
    BY <2>0 DEF TypeOK, Status, LiveSet
  <2>2. HandsReady'
    BY DEF HandsReady
  <2>3. FreshRows' /\ StampedWhenTerminal' /\ WakeOfStamped'
    BY <2>0 DEF TypeOK, FreshRows, StampedWhenTerminal, WakeOfStamped, Terminal
  <2>4. OneFreshSession'
    BY <2>0 DEF TypeOK, OneFreshSession, Insertable, LiveSessionOf, Live, LiveSet, IsOrchestrator
  <2> QED BY <2>1, <2>2, <2>3, <2>4
<1>4. ASSUME NEW s \in Sessions, DeleteSession(s) PROVE IInv'
  <2> USE <1>4 DEF DeleteSession, IInv, rowVars, podVars, apiVars, envVars
  <2>0. \A d \in Sessions :
          status'[d] = status[d] \/ (status'[d] = "deleted" /\ status[d] # "unborn")
    BY DEF Exists, LiveSet, Terminal
  <2>1. TypeOK'
    BY <2>0 DEF TypeOK, Status
  <2>2. HandsReady'
    BY DEF HandsReady
  <2>3. FreshRows'
    BY <2>0 DEF FreshRows
  <2>4. StampedWhenTerminal' /\ OneFreshSession' /\ WakeOfStamped'
    BY <2>0 DEF StampedWhenTerminal, OneFreshSession, WakeOfStamped, Live, LiveSet, Terminal
  <2> QED BY <2>1, <2>2, <2>3, <2>4
<1>5. ASSUME NEW w \in Writers, Write(w) PROVE IInv'
  <2> DEFINE h == hand[w]
  <2> USE <1>5 DEF Write, Updates, DropsSweep, IInv, rowVars, podVars, envVars
  <2>1. h \in Hands /\ h.s \in Sessions /\ h.will \in {"running"} \cup Terminal
    BY DEF TypeOK, HandsReady
  <2>2. Onward(h) \in Hands
    BY <2>1, HandTypes DEF Onward, Hands
  <2>3. CASE ~Exists(h.s)
    <3>1. UNCHANGED rowVars /\ hand' = [hand EXCEPT ![w] = Idle]
      BY <2>3 DEF Onward
    <3>2. TypeOK'
      BY <2>3, <3>1, HandTypes DEF TypeOK, Sweep, NoSweep, JobState
    <3>3. HandsReady'
      BY <3>1 DEF HandsReady, TypeOK, Idle
    <3>4. FreshRows' /\ StampedWhenTerminal' /\ OneFreshSession' /\ WakeOfStamped'
      BY <3>1 DEF FreshRows, StampedWhenTerminal, OneFreshSession, WakeOfStamped, Live
    <3> QED BY <3>2, <3>3, <3>4
  <2>4. CASE Exists(h.s)
    <3>1. /\ status' = [status EXCEPT ![h.s] = h.will]
          /\ stamped' = [stamped EXCEPT ![h.s] = @ \/ h.will \in Terminal]
          /\ hand' = [hand EXCEPT ![w] = Onward(h)]
          /\ why' \in [Sessions -> Reasons]
          /\ UNCHANGED <<sweep, stale>>
      BY <2>1, <2>4 DEF TypeOK, Hands, Stamps
    <3>2. TypeOK'
      BY <2>1, <2>2, <3>1 DEF TypeOK, Status, LiveSet, Terminal
    <3>3. HandsReady'
      <4> SUFFICES ASSUME NEW v \in Writers PROVE HandsReady!(v)'
        BY DEF HandsReady
      <4>1. CASE v = w
        <5>1. hand'[v] = Onward(h)
          BY <3>1, <4>1 DEF TypeOK
        <5>2. h.after = "wake" => h.will \in Terminal /\ stamped'[h.s]
          BY <2>1, <3>1 DEF HandsReady, TypeOK
        <5> QED BY <5>1, <5>2, <2>1 DEF Onward, Idle, Hands
      <4>2. CASE v # w
        BY <3>1, <4>2 DEF HandsReady, TypeOK
      <4> QED BY <4>1, <4>2
    <3>4. FreshRows' /\ StampedWhenTerminal' /\ WakeOfStamped'
      BY <2>1, <2>4, <3>1
      DEF TypeOK, FreshRows, StampedWhenTerminal, WakeOfStamped, Terminal, Exists, LiveSet
    <3>5. OneFreshSession'
      BY <2>1, <2>4, <3>1
      DEF TypeOK, OneFreshSession, StampedWhenTerminal, Exists, Live, LiveSet, Terminal
    <3> QED BY <3>2, <3>3, <3>4, <3>5
  <2> QED BY <2>3, <2>4
<1>6. ASSUME NEW w \in Writers, Wake(w) PROVE IInv'
  <2> USE <1>6 DEF Wake, IInv, rowVars, podVars, envVars
  <2>1. hand[w] \in Hands /\ hand[w].s \in Sessions /\ hand[w].will \in Terminal
        /\ stamped[hand[w].s]
    BY DEF TypeOK, HandsReady
  <2>2. TypeOK'
    BY <2>1, HandTypes DEF TypeOK
  <2>3. HandsReady'
    BY DEF HandsReady, TypeOK, Idle
  <2>4. FreshRows' /\ StampedWhenTerminal' /\ OneFreshSession' /\ WakeOfStamped'
    BY <2>1 DEF FreshRows, StampedWhenTerminal, OneFreshSession, WakeOfStamped, Live
  <2> QED BY <2>2, <2>3, <2>4
<1>7. ASSUME Crash PROVE IInv'
  <2> USE <1>7 DEF Crash, IInv, rowVars, podVars, envVars
  <2>1. TypeOK'
    BY HandTypes DEF TypeOK, Sweep, NoSweep, JobState, CutShort
  <2>2. HandsReady'
    BY DEF HandsReady, Idle
  <2>3. FreshRows' /\ StampedWhenTerminal' /\ OneFreshSession' /\ WakeOfStamped'
    BY DEF FreshRows, StampedWhenTerminal, OneFreshSession, WakeOfStamped, Live
  <2> QED BY <2>1, <2>2, <2>3
<1>8. ASSUME NEW w \in Writers, WriteUnanswered(w) PROVE IInv'
  <2> DEFINE h == hand[w]
  <2> USE <1>8 DEF WriteUnanswered, Updates, DropsSweep, IInv, rowVars, podVars, envVars
  <2>1. h \in Hands /\ h.s \in Sessions /\ h.will \in {"running"} \cup Terminal /\ Exists(h.s)
    BY DEF TypeOK, HandsReady
  <2>2. /\ status' = [status EXCEPT ![h.s] = h.will]
        /\ stamped' = [stamped EXCEPT ![h.s] = @ \/ h.will \in Terminal]
        /\ why' \in [Sessions -> Reasons]
    BY <2>1 DEF TypeOK, Hands, Stamps
  <2>3. TypeOK'
    <3>1. /\ status' \in [Sessions -> Status] /\ stamped' \in [Sessions -> BOOLEAN]
      BY <2>1, <2>2 DEF TypeOK, Status, LiveSet, Terminal
    <3>2. hand' \in [Writers -> Hands]
      BY HandTypes DEF TypeOK
    <3>3. /\ sweep' \in [rows : SUBSET Sessions, jobs : [Sessions -> JobState]]
          /\ stale' \subseteq Sessions
      BY DEF TypeOK, Sweep, NoSweep, JobState
    <3> QED BY <2>2, <3>1, <3>2, <3>3 DEF TypeOK
  <2>4. HandsReady'
    <3> SUFFICES ASSUME NEW v \in Writers PROVE HandsReady!(v)'
      BY DEF HandsReady
    <3>1. hand'[v] = IF v = w THEN Idle ELSE hand[v]
      BY DEF TypeOK
    <3> QED BY <2>2, <3>1 DEF HandsReady, TypeOK, Idle
  <2>5. FreshRows' /\ StampedWhenTerminal' /\ WakeOfStamped'
    <3>1. \A s \in Sessions : s # h.s => status'[s] = status[s] /\ stamped'[s] = stamped[s]
      BY <2>2 DEF TypeOK
    <3>2. status'[h.s] = h.will /\ (stamped[h.s] \/ h.will \in Terminal => stamped'[h.s])
      BY <2>1, <2>2 DEF TypeOK
    <3>3. FreshRows' /\ StampedWhenTerminal'
      BY <2>1, <3>1, <3>2 DEF FreshRows, StampedWhenTerminal, Terminal, Exists, LiveSet
    <3>4. WakeOfStamped'
      BY <3>1, <3>2 DEF TypeOK, WakeOfStamped
    <3> QED BY <3>3, <3>4
  <2>6. OneFreshSession'
    BY <2>1, <2>2
    DEF TypeOK, OneFreshSession, StampedWhenTerminal, Exists, Live, LiveSet, Terminal
  <2> QED BY <2>3, <2>4, <2>5, <2>6
<1> QED
  BY NextCases, <1>1, <1>2, <1>3, <1>4, <1>5, <1>6, <1>7, <1>8 DEF RowSteps

(* IInv holds in every state the table can reach.                          *)
THEOREM Invariance == Spec => []IInv
<1> QED BY InitInvariant, StepInvariant, PTL DEF Spec

(* Every variable keeps its type, whatever the writers do.                 *)
THEOREM TypeCorrect == Spec => []TypeOK
<1> QED BY Invariance, PTL DEF IInv

(* A terminal row has completed_at; no writer sends a row back to pending. *)
THEOREM TerminalStamped == Spec => []StampedWhenTerminal
<1> QED BY Invariance, PTL DEF IInv

(* Two never-ended sessions of one orchestrator are never live together.   *)
THEOREM FreshSingleton == Spec => []OneFreshSession
<1> QED BY Invariance, PTL DEF IInv

-----------------------------------------------------------------------------
(* A row changes by its INSERT, its DELETE, or the UPDATE of a writer that *)
(* has it in flight.                                                       *)
RowMove(s) ==
  \/ status'[s] = status[s]
  \/ status[s] = "unborn" /\ status'[s] = "pending"
  \/ Exists(s) /\ status'[s] = "deleted"
  \/ Exists(s) /\ InFlight(s) /\ status'[s] \in {"running"} \cup Terminal

(* No step changes a row in any other way.                                 *)
LEMMA RowMoves == IInv /\ [Next]_vars => \A s \in Sessions : RowMove(s)
<1> SUFFICES ASSUME IInv, [Next]_vars, NEW s \in Sessions PROVE RowMove(s) OBVIOUS
<1> USE DEF IInv, RowMove
<1>1. CASE HandSteps \/ QuietSteps
  BY <1>1, HandStepsPick, QuietStepsAreQuiet DEF HandEffect, QuietEffect, rowVars
<1>2. ASSUME NEW t \in Sessions, Insert(t) PROVE RowMove(s)
  BY <1>2 DEF Insert, FreshRows, TypeOK
<1>3. ASSUME NEW t \in Sessions, DeleteSession(t) PROVE RowMove(s)
  BY <1>3 DEF DeleteSession, TypeOK
<1>4. ASSUME NEW w \in Writers, Write(w) \/ WriteUnanswered(w) PROVE RowMove(s)
  BY <1>4 DEF Write, WriteUnanswered, Updates, rowVars, TypeOK, HandsReady, InFlight
<1>5. CASE Crash \/ \E w \in Writers : Wake(w)
  BY <1>5 DEF Crash, Wake, rowVars
<1> QED BY NextCases, <1>1, <1>2, <1>3, <1>4, <1>5 DEF RowSteps

(* Nobody picks up a session whose row reads terminal: a writer that holds *)
(* it after the step held it before, or found it live.                     *)
LEMMA SettledUntouched ==
  IInv /\ [Next]_vars => \A s \in Sessions : ~InFlight(s) /\ ~Live(s) => ~InFlight(s)'
<1> SUFFICES ASSUME IInv, [Next]_vars, NEW s \in Sessions, ~InFlight(s), ~Live(s)
             PROVE  ~InFlight(s)'
  OBVIOUS
<1> USE DEF IInv, TypeOK, InFlight
<1>1. ASSUME NEW w \in Writers, NEW h, hand' = [hand EXCEPT ![w] = h], stale' \subseteq stale,
             h.s # s \/ h.step \notin {"launch", "write"}
      PROVE  ~InFlight(s)'
  BY <1>1
<1>2. ASSUME hand' = hand, stale' \subseteq stale PROVE ~InFlight(s)'
  BY <1>2
<1>3. ASSUME NEW t \in Sessions, LaunchSession(t) PROVE ~InFlight(s)'
  BY <1>3, <1>1 DEF LaunchSession, Launchable, Live, LiveSet, ToLaunch, Writers
<1>4. ASSUME NEW t \in Sessions, SweepRow(t) PROVE ~InFlight(s)'
  BY <1>4, <1>1, <1>2 DEF SweepRow, Ended, ToWrite, Writers
<1>5. ASSUME NEW t \in Sessions, ReconcilerProbe(t) PROVE ~InFlight(s)'
  BY <1>5, <1>1, <1>2 DEF ReconcilerProbe, Ended, ToWrite, Writers
<1>6. ASSUME NEW w \in Writers, NEW t \in Sessions, NEW reason, Cancel(w, t, reason)
      PROVE ~InFlight(s)'
  BY <1>6, <1>1 DEF Cancel, ToWrite
<1>7. ASSUME NEW t \in Sessions, UserCancel(t) \/ ParentCancel(t) \/ ReapSilent(t)
      PROVE ~InFlight(s)'
  BY <1>6, <1>7 DEF UserCancel, ParentCancel, ReapSilent, Writers
<1>8. ASSUME NEW t \in Sessions, NEW e \in Events, Ingest(t, e) PROVE ~InFlight(s)'
  <2>1. AfterEvent(t, e).s # s \/ AfterEvent(t, e).step \notin {"launch", "write"}
    BY DEF AfterEvent, Ended, ToWrite, Idle, Live, LiveSet
  <2> QED BY <1>8, <2>1, <1>1 DEF Ingest, Writers
<1>9. ASSUME LaunchFails \/ CreateJob PROVE ~InFlight(s)'
  BY <1>9, <1>1 DEF LaunchFails, CreateJob, ToWrite, Idle, Writers
<1>10. ASSUME NEW w \in Writers, Kill(w) \/ Wake(w) \/ WriteRefused(w) \/ WriteUnanswered(w)
       PROVE ~InFlight(s)'
  BY <1>10, <1>1 DEF Kill, Wake, WriteRefused, WriteUnanswered, DropsSweep, Idle
<1>11. ASSUME NEW w \in Writers, Write(w) PROVE ~InFlight(s)'
  <2>1. Onward(hand[w]).step \notin {"launch", "write"}
    BY DEF Onward, Idle, Hands
  <2>2. stale' \subseteq stale
    BY <1>11 DEF Write, Updates, DropsSweep
  <2> QED BY <1>11, <2>1, <2>2, <1>1 DEF Write, Updates, DropsSweep
<1>12. CASE QuietSteps
  <2>1. hand' = hand
    BY <1>12, QuietStepsAreQuiet DEF QuietEffect
  <2>2. s \notin stale'
    BY <1>12 DEF QuietSteps, FindOrCreate, Resume, WorkerStarts, JobGone, JobLost, GraceElapses,
       ReconcilerProbeFails, LoseEvent, WorkerReports, JobEnds, SweepList, SweepFails, ReconcilerList, vars, apiVars, envVars
  <2> QED BY <2>1, <2>2
<1>13. ASSUME NEW t \in Sessions, Insert(t) \/ DeleteSession(t) PROVE ~InFlight(s)'
  BY <1>13, <1>2 DEF Insert, DeleteSession, apiVars
<1>14. CASE Crash
  BY <1>14 DEF Crash, Idle
<1> QED
  BY NextCases, <1>3, <1>4, <1>5, <1>7, <1>8, <1>9, <1>10, <1>11, <1>12, <1>13, <1>14
  DEF HandSteps, RowSteps

(* One session's phase moves as the abstract specification lets it.        *)
LEMMA PhaseAdvances ==
  ASSUME IInv, IInv', [Next]_vars, NEW s \in Sessions
  PROVE  Phase(s)' = Phase(s) \/ <<Phase(s), Phase(s)'>> \in Outcome!Moves
<1> USE DEF Phase, Settled, Outcome!Moves, Exists, Live, LiveSet, Terminal
<1>1. RowMove(s)
  BY RowMoves
<1>2. ~InFlight(s) /\ ~Live(s) => ~InFlight(s)'
  BY SettledUntouched
<1>3. status[s] \in Status /\ status'[s] \in Status
  BY DEF IInv, TypeOK
<1> QED BY <1>1, <1>2, <1>3 DEF RowMove, Status

(* The table implements SessionOutcome: a settled outcome is final.        *)
THEOREM LifecycleImplementsOutcome == Spec => ImplementsOutcome
<1>1. Init => Outcome!Init
  BY DEF Init, Outcome!Init, Phase
<1>2. IInv /\ IInv' /\ [Next]_vars
        => [Outcome!Next]_([s \in Sessions |-> Phase(s)])
  <2> SUFFICES ASSUME IInv, IInv', [Next]_vars PROVE Outcome!Next OBVIOUS
  <2>1. \A s \in Sessions : Outcome!Advance(s)
    BY PhaseAdvances DEF Outcome!Advance
  <2>2. \A s \in Sessions : Phase(s)' \in Outcome!Phases
    BY DEF IInv, TypeOK, Status, LiveSet, Terminal, Phase, Settled, Outcome!Phases
  <2> QED BY <2>1, <2>2 DEF Outcome!Next
<1> QED BY <1>1, <1>2, Invariance, PTL DEF Spec, ImplementsOutcome, Outcome!Spec
-----------------------------------------------------------------------------
(* Deletion takes the whole subtree of a row.                              *)
LEMMA DescendantsClosed ==
  \A s, c \in Sessions : ParentOf[c] \in Descendants(s) => c \in Descendants(s)
BY DEF Descendants

(* Nothing but an INSERT or a DELETE makes a row exist or cease to exist.  *)
LEMMA RowsStay ==
  ASSUME IInv, [Next]_vars, \A t \in Sessions : ~Insert(t) /\ ~DeleteSession(t)
  PROVE  \A s \in Sessions : Exists(s)' <=> Exists(s)
<1> SUFFICES ASSUME NEW s \in Sessions PROVE Exists(s)' <=> Exists(s) OBVIOUS
<1> USE DEF IInv, Exists, LiveSet, Terminal
<1>1. CASE HandSteps \/ QuietSteps
  BY <1>1, HandStepsPick, QuietStepsAreQuiet DEF HandEffect, QuietEffect, rowVars
<1>2. ASSUME NEW w \in Writers, Write(w) \/ WriteUnanswered(w) PROVE Exists(s)' <=> Exists(s)
  BY <1>2 DEF Write, WriteUnanswered, Updates, rowVars, TypeOK, HandsReady
<1>3. CASE Crash \/ \E w \in Writers : Wake(w)
  BY <1>3 DEF Crash, Wake, rowVars
<1> QED BY NextCases, <1>1, <1>2, <1>3 DEF RowSteps

(* A child's row never outlives its parent's.                              *)
THEOREM ChildrenHaveParents == Spec => []ChildHasParent
<1>1. Init => ChildHasParent
  BY DEF Init, ChildHasParent, Exists, LiveSet, Terminal
<1>2. IInv /\ ChildHasParent /\ [Next]_vars => ChildHasParent'
  <2> SUFFICES ASSUME IInv, ChildHasParent, [Next]_vars,
                      NEW s \in Sessions, Exists(s)', ParentOf[s] # None
               PROVE  Exists(ParentOf[s])'
    BY DEF ChildHasParent
  <2>0. ParentOf[s] \in Sessions
    BY SessionsAssumption
  <2>1. CASE \A t \in Sessions : ~Insert(t) /\ ~DeleteSession(t)
    BY <2>0, <2>1, RowsStay DEF ChildHasParent
  <2>2. ASSUME NEW t \in Sessions, Insert(t) PROVE Exists(ParentOf[s])'
    BY <2>0, <2>2 DEF Insert, Insertable, ChildHasParent, Exists, IInv, TypeOK, FreshRows, LiveSet
  <2>3. ASSUME NEW t \in Sessions, DeleteSession(t) PROVE Exists(ParentOf[s])'
    <3>1. Exists(s) /\ s \notin Descendants(t)
      BY <2>3 DEF DeleteSession, Exists, LiveSet, Terminal
    <3>2. Exists(ParentOf[s]) /\ ParentOf[s] \notin Descendants(t)
      BY <2>0, <3>1, DescendantsClosed DEF ChildHasParent
    <3> QED BY <2>0, <2>3, <3>2 DEF DeleteSession, Exists
  <2> QED BY <2>1, <2>2, <2>3
<1> QED BY <1>1, <1>2, Invariance, PTL DEF Spec
-----------------------------------------------------------------------------
(* A session that has not been launched, or is being launched, has had     *)
(* neither a Job nor a worker, unless an earlier launch was cut short.     *)
Untouched ==
  \A s \in Sessions \ forgotten :
    LET h == hand["watcher"] IN
      /\ h.s = s /\ h.step = "launch" => status[s] # "unborn"
      /\ \/ status[s] = "unborn"
         \/ status[s] = "pending" /\ ~(h.s = s /\ h.step = "write")
         \/ h.s = s /\ h.step = "launch"
         => job[s] = "none" /\ worker[s] = "none"

(* Every step keeps Untouched.                                             *)
LEMMA StepUntouched ==
  ASSUME IInv, Untouched, [Next]_vars
  PROVE  Untouched'
<1> USE DEF IInv, TypeOK, rowVars, podVars, apiVars, envVars
<1>1. ASSUME UNCHANGED <<status, hand, forgotten>>,
             \A s \in Sessions : job[s] = "none" => job'[s] = "none" /\ worker'[s] = worker[s]
      PROVE  Untouched'
  BY <1>1 DEF Untouched
<1>2. CASE QuietSteps
  <2>1. UNCHANGED <<status, hand, forgotten>>
    BY <1>2, QuietStepsAreQuiet DEF QuietEffect
  <2>2. ASSUME NEW t \in Sessions, WorkerStarts(t) PROVE Untouched'
    BY <1>1, <2>1, <2>2 DEF WorkerStarts
  <2>3. ASSUME NEW t \in Sessions, NEW report \in Reports, WorkerReports(t, report) PROVE Untouched'
    BY <1>1, <2>1, <2>3 DEF WorkerReports
  <2>4. ASSUME NEW t \in Sessions, NEW result \in {"succeeded", "failed"}, JobEnds(t, result)
        PROVE Untouched'
    BY <1>1, <2>1, <2>4 DEF JobEnds
  <2>5. ASSUME NEW t \in Sessions, JobGone(t) \/ JobLost(t) PROVE Untouched'
    BY <1>1, <2>1, <2>5 DEF JobGone, JobLost
  <2>6. CASE UNCHANGED <<job, worker>>
    BY <1>1, <2>1, <2>6
  <2>7. \/ UNCHANGED <<job, worker>>
        \/ \E t \in Sessions :
             \/ WorkerStarts(t) \/ JobGone(t) \/ JobLost(t)
             \/ \E report \in Reports : WorkerReports(t, report)
             \/ \E result \in {"succeeded", "failed"} : JobEnds(t, result)
    BY <1>2 DEF QuietSteps, FindOrCreate, Resume, GraceElapses, LoseEvent, SweepList, SweepFails,
                ReconcilerList, ReconcilerProbeFails, vars
  <2> QED BY <2>2, <2>3, <2>4, <2>5, <2>6, <2>7
<1>3. ASSUME NEW t \in Sessions, LaunchSession(t) PROVE Untouched'
  BY <1>3 DEF LaunchSession, Launchable, WatcherFree, Begins, ToLaunch, Untouched, Writers
<1>4. ASSUME NEW t \in Sessions, SweepRow(t) PROVE Untouched'
  BY <1>4 DEF SweepRow, Begins, Ended, ToWrite, Live, LiveSet, Untouched, Writers
<1>5. ASSUME UNCHANGED <<status, job, worker, forgotten>>, hand'["watcher"] = hand["watcher"] PROVE Untouched'
  BY <1>5 DEF Untouched
<1>6. ASSUME NEW t \in Sessions,
             \/ ReconcilerProbe(t) \/ UserCancel(t) \/ ParentCancel(t) \/ ReapSilent(t)
             \/ \E e \in Events : Ingest(t, e)
      PROVE  Untouched'
  BY <1>5, <1>6
  DEF ReconcilerProbe, UserCancel, ParentCancel, ReapSilent, Cancel, Ingest, Writers
<1>7. ASSUME LaunchFails PROVE Untouched'
  BY <1>7 DEF LaunchFails, ToWrite, Idle, Untouched, Writers
<1>8. ASSUME CreateJob PROVE Untouched'
  BY <1>8 DEF CreateJob, ToWrite, Untouched, Writers, HandsReady
<1>9. ASSUME NEW w \in Writers, Wake(w) PROVE Untouched'
  BY <1>9 DEF Wake, Idle, Untouched, Writers
<1>10. ASSUME NEW w \in Writers, Kill(w) PROVE Untouched'
  BY <1>10 DEF Kill, Idle, Untouched, Writers, HandsReady
<1>11. ASSUME NEW w \in Writers, Write(w) PROVE Untouched'
  <2> USE <1>11 DEF Write, Updates, DropsSweep
  <2>1. hand[w].s \in Sessions /\ hand[w].will \in {"running"} \cup Terminal
    BY DEF HandsReady
  <2>2. Onward(hand[w]).step \notin {"launch", "write"}
    BY DEF Onward, Idle, Hands
  <2>3. CASE ~Exists(hand[w].s)
    BY <2>1, <2>2, <2>3 DEF Exists, LiveSet, Untouched, Writers
  <2>4. CASE Exists(hand[w].s)
    BY <2>1, <2>2, <2>4 DEF Exists, LiveSet, Terminal, Untouched, Writers
  <2> QED BY <2>3, <2>4
<1>12. ASSUME NEW t \in Sessions, Insert(t) PROVE Untouched'
  BY <1>12 DEF Insert, FreshRows, Untouched
<1>13. ASSUME NEW t \in Sessions, DeleteSession(t) PROVE Untouched'
  BY <1>13 DEF DeleteSession, Exists, Untouched
<1>14. ASSUME UNCHANGED <<status, job, worker>>, hand'["watcher"] = Idle,
              forgotten' = forgotten \cup CutShort
       PROVE  Untouched'
  BY <1>14 DEF Untouched, CutShort, Idle
<1>15. CASE Crash
  BY <1>14, <1>15 DEF Crash, Writers
<1>16. ASSUME NEW w \in Writers, WriteRefused(w) PROVE Untouched'
  <2>1. CASE w = "watcher"
    BY <1>14, <1>16, <2>1 DEF WriteRefused, Writers
  <2>2. CASE w # "watcher"
    BY <1>5, <1>16, <2>2 DEF WriteRefused, Writers
  <2> QED BY <2>1, <2>2
<1>17. ASSUME NEW w \in Writers, WriteUnanswered(w) PROVE Untouched'
  <2>1. hand[w].s \in Sessions /\ hand[w].will \in {"running"} \cup Terminal
    BY <1>17 DEF WriteUnanswered, HandsReady
  <2> QED BY <1>17, <2>1
          DEF WriteUnanswered, Updates, Exists, LiveSet, Terminal, Untouched, Writers, Idle
<1> QED
  BY NextCases, <1>2, <1>3, <1>4, <1>6, <1>7, <1>8, <1>9, <1>10, <1>11, <1>12, <1>13, <1>15, <1>16,
     <1>17
  DEF HandSteps, RowSteps

(* The work of a session is done once: a Job is only created for a session *)
(* whose agent has not run, unless an earlier launch of it was cut short.  *)
THEOREM WorkDoneOnce == Spec => RunsOnce
<1>2. Init => Untouched
  BY DEF Init, Untouched, Idle, Writers
<1>3. IInv /\ Untouched /\ [Next]_vars => Untouched'
  BY StepUntouched
<1>4. IInv /\ Untouched /\ [Next]_vars =>
        [\A s \in Sessions \ forgotten :
           job[s] = "none" /\ job'[s] = "active" => worker[s] = "none"]_vars
  <2> SUFFICES ASSUME IInv, Untouched, [Next]_vars, NEW s \in Sessions \ forgotten,
                      job[s] = "none", job'[s] = "active"
               PROVE  worker[s] = "none"
    OBVIOUS
  <2> USE DEF IInv, TypeOK, podVars
  <2>1. hand["watcher"].step = "launch" /\ hand["watcher"].s = s
    <3>1. CASE \E w \in Writers : Kill(w) \/ WriteRefused(w)
      BY <3>1 DEF Kill, WriteRefused
    <3>2. CASE QuietSteps
      BY <3>2 DEF QuietSteps, FindOrCreate, Resume, WorkerStarts, JobGone, JobLost, GraceElapses,
         ReconcilerProbeFails, LoseEvent, WorkerReports, JobEnds, SweepList, SweepFails, ReconcilerList, vars
    <3>3. CASE RowSteps
      BY <3>3 DEF RowSteps, Insert, DeleteSession, Write, WriteUnanswered, Wake, Crash
    <3>4. CASE CreateJob \/ LaunchFails
      BY <3>4 DEF CreateJob, LaunchFails, HandsReady, Writers
    <3>5. CASE \E t \in Sessions :
                 \/ LaunchSession(t) \/ SweepRow(t) \/ ReconcilerProbe(t)
                 \/ UserCancel(t) \/ ParentCancel(t) \/ ReapSilent(t)
                 \/ \E e \in Events : Ingest(t, e)
      BY <3>5 DEF LaunchSession, SweepRow, ReconcilerProbe, UserCancel,
         ParentCancel, ReapSilent, Cancel, Ingest
    <3> QED BY NextCases, <3>1, <3>2, <3>3, <3>4, <3>5 DEF HandSteps
  <2> QED BY <2>1 DEF Untouched
<1> QED BY <1>2, <1>3, <1>4, Invariance, PTL DEF Spec, RunsOnce
-----------------------------------------------------------------------------
(* Rows, hands, events, listed Jobs and wakes are all grounded in what the *)
(* pod has done.                                                           *)

(* The pod of a session has been at work, or its Job waits to start it.    *)
Ran(s) == job[s] # "none" \/ worker[s] # "none"

(* What a writer is about to do has its ground in the pods' past (worker   *)
(* processes, Jobs, stamps): an end computed from reports wakes the        *)
(* parent, a success was reported by the agent, a Job is taken down after  *)
(* the row, a row said to run has had its Job.                             *)
Grounded(h, agent, jobs, stamp) ==
  \/ h = Idle
  \/ /\ h.s \in Sessions
     /\ h.step = "write" /\ h.why = "ended" => h.after = "wake"
     /\ h.after = "wake" /\ h.will = "complete" => agent[h.s] = "completed"
     /\ h.after = "kill" => h.will \in Terminal
     /\ h.step = "kill" => stamp[h.s]
     /\ h.step = "wake" => h.after = "wake"
     /\ h.step = "write" /\ h.will = "running" => jobs[h.s] # "none" \/ agent[h.s] # "none"
HandsGrounded == \A w \in Writers : Grounded(hand[w], worker, job, stamped)

(* Events, the stored terminal event and the watcher's list of Jobs tell   *)
(* what the agent did.                                                     *)
EvidenceTrue ==
  \A s \in Sessions :
    /\ inbox[s] # {} => worker[s] # "none"
    /\ \A e \in Reports : e \in inbox[s] \/ log[s] = e => worker[s] = e
    /\ job[s] = "succeeded" \/ sweep.jobs[s] = "succeeded" => worker[s] = "completed"

WakesEarned == \A wake \in woken : wake[2] = "complete" => worker[wake[1]] = "completed"

GInv == HandsGrounded /\ EvidenceTrue /\ RowMatchesPod /\ WakesEarned

(* What happened to a pod or a row stays happened: an agent's report is    *)
(* its last word, a pod that was at work was at work, a stamp stays.       *)
PastStays ==
  \A s \in Sessions :
    /\ worker[s] \in Reports => worker'[s] = worker[s]
    /\ worker[s] # "none" => worker'[s] # "none"
    /\ Ran(s) => job'[s] # "none" \/ worker'[s] # "none"
    /\ stamped[s] => stamped'[s]

(* Every step leaves the past alone.                                       *)
LEMMA PastStep == IInv /\ [Next]_vars => PastStays
<1> SUFFICES ASSUME IInv, [Next]_vars PROVE PastStays OBVIOUS
<1> USE DEF IInv, TypeOK, PastStays, Ran, rowVars, podVars
<1>1. CASE QuietSteps
  <2>1. UNCHANGED stamped
    BY <1>1, QuietStepsAreQuiet DEF QuietEffect
  <2>2. ASSUME NEW t \in Sessions, WorkerStarts(t) PROVE PastStays
    BY <2>1, <2>2 DEF WorkerStarts, Reports
  <2>3. ASSUME NEW t \in Sessions, NEW report \in Reports, WorkerReports(t, report) PROVE PastStays
    BY <2>1, <2>3 DEF WorkerReports, Reports
  <2>4. ASSUME NEW t \in Sessions, NEW result \in {"succeeded", "failed"}, JobEnds(t, result)
        PROVE PastStays
    BY <2>1, <2>4 DEF JobEnds, Reports
  <2>5. ASSUME NEW t \in Sessions, JobGone(t) \/ JobLost(t) PROVE PastStays
    BY <2>1, <2>5 DEF JobGone, JobLost, Reports
  <2>6. CASE UNCHANGED <<job, worker>>
    BY <2>1, <2>6
  <2>7. \/ UNCHANGED <<job, worker>>
        \/ \E t \in Sessions :
             \/ WorkerStarts(t) \/ JobGone(t) \/ JobLost(t)
             \/ \E report \in Reports : WorkerReports(t, report)
             \/ \E result \in {"succeeded", "failed"} : JobEnds(t, result)
    BY <1>1 DEF QuietSteps, FindOrCreate, Resume, GraceElapses, LoseEvent, SweepList, SweepFails,
                ReconcilerList, ReconcilerProbeFails, vars
  <2> QED BY <2>2, <2>3, <2>4, <2>5, <2>6, <2>7
<1>2. CASE HandSteps
  <2>1. UNCHANGED <<stamped, worker>>
    BY <1>2, HandStepsPick DEF HandEffect
  <2>2. CASE UNCHANGED job
    BY <2>1, <2>2
  <2>3. CASE LaunchFails \/ CreateJob
    BY <2>1, <2>3 DEF LaunchFails, CreateJob
  <2>4. ASSUME NEW w \in Writers, Kill(w) PROVE PastStays
    BY <2>1, <2>4 DEF Kill
  <2>5. UNCHANGED job \/ LaunchFails \/ CreateJob \/ \E w \in Writers : Kill(w)
    BY <1>2 DEF HandSteps, LaunchSession, SweepRow, ReconcilerProbe, UserCancel, ParentCancel,
                ReapSilent, Cancel, Ingest, WriteRefused
  <2> QED BY <2>2, <2>3, <2>4, <2>5
<1>3. CASE RowSteps
  BY <1>3 DEF RowSteps, Insert, DeleteSession, Write, WriteUnanswered, Updates, Wake, Crash
<1> QED BY NextCases, <1>1, <1>2, <1>3

(* What grounds a hand is past, so it stays.                               *)
LEMMA GroundStays ==
  ASSUME IInv, PastStays
  PROVE  \A h \in Hands : Grounded(h, worker, job, stamped) => Grounded(h, worker', job', stamped')
BY DEF IInv, TypeOK, PastStays, Grounded, Ran, Reports, Idle

(* A step in which at most one writer picks up something grounded.         *)
LEMMA HandsStayGrounded ==
  ASSUME IInv, PastStays, HandsGrounded,
         \/ hand' = hand
         \/ \E w \in Writers, h \in Hands :
              Grounded(h, worker', job', stamped') /\ hand' = [hand EXCEPT ![w] = h]
  PROVE  HandsGrounded'
<1> SUFFICES ASSUME NEW v \in Writers PROVE Grounded(hand'[v], worker', job', stamped')
  BY DEF HandsGrounded
<1>1. hand[v] \in Hands /\ Grounded(hand[v], worker, job, stamped)
  BY DEF IInv, TypeOK, HandsGrounded
<1>2. Grounded(hand[v], worker', job', stamped')
  BY <1>1, GroundStays
<1>3. hand'[v] = hand[v] \/ Grounded(hand'[v], worker', job', stamped')
  BY DEF IInv, TypeOK
<1> QED BY <1>2, <1>3

(* An end computed from reports is grounded if a success was reported.     *)
LEMMA EndedGrounded ==
  ASSUME NEW s \in Sessions, NEW will \in Terminal, NEW agent, NEW jobs, NEW stamp,
         will = "complete" => agent[s] = "completed"
  PROVE  Ended(s, will) \in Hands /\ Grounded(Ended(s, will), agent, jobs, stamp)
BY HandTypes DEF Ended, ToWrite, Grounded, Terminal, Reasons

(* Whoever picks up a session has grounds for what it will write.          *)
LEMMA HandsStep == IInv /\ GInv /\ PastStays /\ [Next]_vars => HandsGrounded'
<1> SUFFICES ASSUME IInv, GInv, PastStays, [Next]_vars PROVE HandsGrounded' OBVIOUS
<1> DEFINE Picked(w, h) ==
      h \in Hands /\ Grounded(h, worker', job', stamped') /\ hand' = [hand EXCEPT ![w] = h]
<1> USE DEF rowVars, podVars
<1>a. HandsGrounded /\ EvidenceTrue BY DEF GInv
<1>b. Idle \in Hands /\ Grounded(Idle, worker', job', stamped') BY HandTypes DEF Grounded
<1>13. CASE Crash
  <2>1. \A w \in Writers : hand'[w] = Idle BY <1>13 DEF Crash
  <2> QED BY <2>1, <1>b DEF HandsGrounded
<1>c. SUFFICES ASSUME ~Crash PROVE hand' = hand \/ \E w \in Writers, h \in Hands : Picked(w, h)
  BY <1>a, <1>13, HandsStayGrounded
<1>d. \A w \in Writers : hand[w] \in Hands /\ Grounded(hand[w], worker, job, stamped)
  BY <1>a DEF IInv, TypeOK, HandsGrounded
<1>1. ASSUME NEW s \in Sessions, LaunchSession(s) PROVE \E w \in Writers, h \in Hands : Picked(w, h)
  <2>1. Picked("watcher", ToLaunch(s))
    BY <1>1, HandTypes DEF LaunchSession, Grounded, ToLaunch
  <2> QED BY <2>1 DEF Writers
<1>2. ASSUME NEW s \in Sessions, SweepRow(s), hand' # hand
      PROVE  \E w \in Writers, h \in Hands : Picked(w, h)
  <2>1. Verdict(s) \in Terminal /\ hand' = [hand EXCEPT !["watcher"] = Ended(s, Verdict(s))]
    BY <1>2 DEF SweepRow, Verdict, StatusOf, Terminal
  <2>2. worker' = worker /\ (Verdict(s) = "complete" => worker[s] = "completed")
    BY <1>2, <1>a DEF SweepRow, Verdict, StatusOf, EvidenceTrue, IInv, TypeOK, Reports
  <2>3. Picked("watcher", Ended(s, Verdict(s)))
    BY <2>1, <2>2, EndedGrounded
  <2> QED BY <2>3 DEF Writers
<1>3. ASSUME NEW s \in Sessions, ReconcilerProbe(s), hand' # hand
      PROVE  \E w \in Writers, h \in Hands : Picked(w, h)
  <2>1. Picked("reconciler", Ended(s, "failed"))
    BY <1>3, EndedGrounded DEF ReconcilerProbe, Terminal
  <2> QED BY <2>1 DEF Writers
<1>4. ASSUME NEW w \in Writers, NEW s \in Sessions, NEW reason \in {"cancelled", "reaped"},
             Cancel(w, s, reason)
      PROVE  \E v \in Writers, h \in Hands : Picked(v, h)
  <2>1. \A after \in {"kill", "none"} :
          /\ ToWrite(s, "complete", reason, after) \in Hands
          /\ Grounded(ToWrite(s, "complete", reason, after), worker', job', stamped')
    BY HandTypes DEF ToWrite, Grounded, Terminal, Reasons
  <2> QED BY <1>4, <2>1 DEF Cancel
<1>5. ASSUME NEW s \in Sessions, UserCancel(s) \/ ParentCancel(s) \/ ReapSilent(s)
      PROVE  \E w \in Writers, h \in Hands : Picked(w, h)
  BY <1>4, <1>5 DEF UserCancel, ParentCancel, ReapSilent, Writers
<1>6. ASSUME NEW s \in Sessions, NEW e \in Events, Ingest(s, e)
      PROVE  \E w \in Writers, h \in Hands : Picked(w, h)
  <2>1. worker' = worker /\ job' = job /\ worker[s] # "none" /\ (e \in Reports => worker[s] = e)
    BY <1>6, <1>a DEF Ingest, EvidenceTrue
  <2>2. CASE e \in Reports
    <3>1. StatusOf(e) \in Terminal /\ (StatusOf(e) = "complete" => worker'[s] = "completed")
      BY <2>1, <2>2 DEF StatusOf, Terminal, Reports
    <3>2. AfterEvent(s, e) = Ended(s, StatusOf(e)) \/ AfterEvent(s, e) = Idle
      BY <2>2 DEF AfterEvent, Reports
    <3>3. Picked("subscriber", AfterEvent(s, e))
      BY <1>6, <1>b, <3>1, <3>2, EndedGrounded DEF Ingest
    <3> QED BY <3>3 DEF Writers
  <2>3. CASE e \notin Reports
    <3>1. AfterEvent(s, e) = ToWrite(s, "running", "none", "none") \/ AfterEvent(s, e) = Idle
      BY <2>3 DEF AfterEvent
    <3>2. /\ ToWrite(s, "running", "none", "none") \in Hands
          /\ Grounded(ToWrite(s, "running", "none", "none"), worker', job', stamped')
      BY <2>1, HandTypes DEF ToWrite, Grounded, Terminal, Reasons
    <3>3. Picked("subscriber", AfterEvent(s, e))
      BY <1>6, <1>b, <3>1, <3>2 DEF Ingest
    <3> QED BY <3>3 DEF Writers
  <2> QED BY <2>2, <2>3
<1>7. ASSUME LaunchFails PROVE \E w \in Writers, h \in Hands : Picked(w, h)
  <2>1. hand["watcher"].s \in Sessions BY <1>7 DEF LaunchFails, IInv, HandsReady, Writers
  <2>2. /\ ToWrite(hand["watcher"].s, "failed", "launch", "none") \in Hands
        /\ Grounded(ToWrite(hand["watcher"].s, "failed", "launch", "none"), worker', job', stamped')
    BY <2>1, HandTypes DEF ToWrite, Grounded, Terminal, Reasons
  <2>3. \E h \in Hands : Picked("watcher", h)
    BY <1>7, <1>b, <2>2 DEF LaunchFails
  <2> QED BY <2>3 DEF Writers
<1>8. ASSUME CreateJob PROVE \E w \in Writers, h \in Hands : Picked(w, h)
  <2>1. hand["watcher"].s \in Sessions BY <1>8 DEF CreateJob, IInv, HandsReady, Writers
  <2>2. job'[hand["watcher"].s] # "none"
    BY <1>8, <2>1 DEF CreateJob, IInv, TypeOK
  <2>3. Picked("watcher", ToWrite(hand["watcher"].s, "running", "none", "none"))
    BY <1>8, <2>1, <2>2, HandTypes DEF CreateJob, ToWrite, Grounded, Terminal, Reasons
  <2> QED BY <2>3 DEF Writers
<1>9. ASSUME NEW w \in Writers, Kill(w) \/ Wake(w) \/ WriteRefused(w) \/ WriteUnanswered(w)
      PROVE  \E v \in Writers, h \in Hands : Picked(v, h)
  BY <1>9, <1>b DEF Kill, Wake, WriteRefused, WriteUnanswered
<1>10. ASSUME NEW w \in Writers, Write(w) PROVE \E v \in Writers, h \in Hands : Picked(v, h)
  <2>0. hand[w] \in Hands /\ Grounded(hand[w], worker, job, stamped) /\ hand[w].s \in Sessions
        /\ hand[w].step = "write"
    BY <1>10, <1>d DEF Write, Updates, DropsSweep, IInv, HandsReady
  <2>1. Grounded(hand[w], worker', job', stamped') BY <2>0, GroundStays
  <2>2. hand' = [hand EXCEPT ![w] = Onward(hand[w])] BY <1>10 DEF Write, Updates, DropsSweep
  <2>3. CASE Onward(hand[w]) = Idle BY <1>b, <2>2, <2>3
  <2>4. CASE hand[w].after # "none" /\ Exists(hand[w].s)
    <3>1. Onward(hand[w]) = [hand[w] EXCEPT !.step = hand[w].after] BY <2>4 DEF Onward
    <3>2. hand[w].after \in {"wake", "kill"} BY <2>0, <2>4 DEF Hands
    <3>3. hand[w].after = "kill" => stamped'[hand[w].s]
      <4>1. hand[w].after = "kill" => hand[w].will \in Terminal
        BY <2>0 DEF Grounded, Idle
      <4>2. stamped' = [stamped EXCEPT ![hand[w].s] = @ \/ Stamps(hand[w].will)]
        BY <1>10, <2>4 DEF Write, Updates, DropsSweep
      <4> QED BY <2>0, <4>1, <4>2 DEF Stamps, IInv, TypeOK
    <3>4. Onward(hand[w]) \in Hands BY <2>0, <3>1, <3>2 DEF Hands
    <3>5. Grounded(Onward(hand[w]), worker', job', stamped')
      BY <2>0, <2>1, <3>1, <3>2, <3>3 DEF Grounded, Idle, Hands
    <3> QED BY <2>2, <3>4, <3>5
  <2> QED BY <2>3, <2>4 DEF Onward
<1>11. CASE QuietSteps BY <1>11, QuietStepsAreQuiet DEF QuietEffect
<1>12. ASSUME NEW t \in Sessions, Insert(t) \/ DeleteSession(t) PROVE hand' = hand
  BY <1>12 DEF Insert, DeleteSession, apiVars
<1> QED
  BY NextCases, <1>1, <1>2, <1>3, <1>5, <1>6, <1>7, <1>8, <1>9, <1>10, <1>11, <1>12, <1>c
  DEF HandSteps, RowSteps

(* Events, the stored terminal event and the listed Jobs stay true.        *)
LEMMA EvidenceStep == IInv /\ GInv /\ PastStays /\ [Next]_vars => EvidenceTrue'
<1> SUFFICES ASSUME IInv, GInv, PastStays, [Next]_vars PROVE EvidenceTrue' OBVIOUS
<1> DEFINE Succeeded(s) == job'[s] = "succeeded" \/ sweep'.jobs[s] = "succeeded"
<1> USE DEF podVars, apiVars
<1>a. EvidenceTrue /\ TypeOK BY DEF GInv, IInv
<1>1. ASSUME NEW s \in Sessions,
             inbox'[s] # {} => inbox[s] # {} \/ worker'[s] # "none",
             \A e \in Reports :
               e \in inbox'[s] \/ log'[s] = e => e \in inbox[s] \/ log[s] = e \/ worker'[s] = e,
             Succeeded(s) =>
               job[s] = "succeeded" \/ sweep.jobs[s] = "succeeded" \/ worker'[s] = "completed"
      PROVE  EvidenceTrue!(s)'
  <2>1. worker[s] \in Reports => worker'[s] = worker[s] BY DEF PastStays
  <2>2. worker[s] # "none" => worker'[s] # "none" BY DEF PastStays
  <2> QED BY <1>1, <1>a, <2>1, <2>2 DEF EvidenceTrue, Reports
<1>2. ASSUME UNCHANGED <<inbox, log, job, sweep>> PROVE EvidenceTrue'
  BY <1>1, <1>2 DEF EvidenceTrue
<1>3. ASSUME NEW t \in Sessions, SweepRow(t) PROVE EvidenceTrue'
  <2>1. \A s \in Sessions : sweep'.jobs[s] = "succeeded" => sweep.jobs[s] = "succeeded"
    BY <1>3 DEF SweepRow, Sweep
  <2> QED BY <1>1, <1>3, <2>1 DEF SweepRow, EvidenceTrue
<1>4. ASSUME SweepList PROVE EvidenceTrue'
  <2>1. \A s \in Sessions : sweep'.jobs[s] = "succeeded" => job[s] = "succeeded"
    BY <1>4 DEF SweepList, Sweep
  <2> QED BY <1>1, <1>4, <2>1 DEF SweepList, EvidenceTrue
<1>5. ASSUME SweepFails \/ \E w \in Writers : Write(w) \/ WriteRefused(w) \/ WriteUnanswered(w)
      PROVE  EvidenceTrue'
  <2>1. \A s \in Sessions : sweep'.jobs[s] = "succeeded" => sweep.jobs[s] = "succeeded"
    BY <1>5 DEF SweepFails, Write, WriteRefused, WriteUnanswered, DropsSweep, NoSweep, Sweep
  <2>2. UNCHANGED <<inbox, log, job>>
    BY <1>5 DEF SweepFails, Write, WriteRefused, WriteUnanswered
  <2> QED BY <1>1, <2>1, <2>2 DEF EvidenceTrue
<1>6. ASSUME Crash PROVE EvidenceTrue'
  <2>1. \A s \in Sessions : sweep'.jobs[s] # "succeeded"
    BY <1>6 DEF Crash, NoSweep, Sweep
  <2> QED BY <1>1, <1>6, <2>1 DEF Crash, EvidenceTrue
<1>7. ASSUME LaunchFails \/ CreateJob \/ \E w \in Writers : Kill(w) PROVE EvidenceTrue'
  <2>1. \A s \in Sessions : job'[s] = "succeeded" => job[s] = "succeeded"
    BY <1>7, <1>a DEF LaunchFails, CreateJob, Kill, TypeOK
  <2>2. UNCHANGED <<inbox, log, sweep>> BY <1>7 DEF LaunchFails, CreateJob, Kill
  <2> QED BY <1>1, <2>1, <2>2 DEF EvidenceTrue
<1>8. ASSUME NEW t \in Sessions, NEW e \in Events, Ingest(t, e) \/ LoseEvent(t, e)
      PROVE  EvidenceTrue'
  <2>1. \A s \in Sessions :
          /\ inbox'[s] \subseteq inbox[s]
          /\ \A r \in Reports : log'[s] = r => log[s] = r \/ r \in inbox[s]
    BY <1>8, <1>a DEF Ingest, LoseEvent, TypeOK
  <2>2. UNCHANGED <<job, sweep>> BY <1>8 DEF Ingest, LoseEvent
  <2> QED BY <1>1, <2>1, <2>2 DEF EvidenceTrue
<1>9. ASSUME NEW t \in Sessions, WorkerStarts(t) \/ \E report \in Reports : WorkerReports(t, report)
      PROVE  EvidenceTrue'
  <2>1. UNCHANGED <<log, job, sweep>> BY <1>9 DEF WorkerStarts, WorkerReports
  <2>2. \A s \in Sessions : inbox'[s] # {} => inbox[s] # {} \/ worker'[s] # "none"
    BY <1>9, <1>a DEF WorkerStarts, WorkerReports, TypeOK, Reports
  <2>3. \A s \in Sessions, r \in Reports : r \in inbox'[s] => r \in inbox[s] \/ worker'[s] = r
    BY <1>9, <1>a DEF WorkerStarts, WorkerReports, TypeOK, Reports
  <2> QED BY <1>1, <2>1, <2>2, <2>3 DEF EvidenceTrue
<1>10. ASSUME NEW t \in Sessions,
              \/ JobGone(t) \/ JobLost(t)
              \/ \E result \in {"succeeded", "failed"} : JobEnds(t, result)
       PROVE  EvidenceTrue'
  <2>1. UNCHANGED <<inbox, log, sweep>> BY <1>10 DEF JobGone, JobLost, JobEnds
  <2>2. \A s \in Sessions : job'[s] = "succeeded" => job[s] = "succeeded" \/ worker'[s] = "completed"
    BY <1>10, <1>a DEF JobGone, JobLost, JobEnds, TypeOK, Reports
  <2> QED BY <1>1, <2>1, <2>2 DEF EvidenceTrue
<1>11. ASSUME NEW t \in Sessions, DeleteSession(t) PROVE EvidenceTrue'
  <2>1. \A s \in Sessions, r \in Reports : log'[s] = r => log[s] = r
    BY <1>11, <1>a DEF DeleteSession, Reports
  <2>2. UNCHANGED <<inbox, job, sweep>> BY <1>11 DEF DeleteSession
  <2> QED BY <1>1, <2>1, <2>2 DEF EvidenceTrue
<1>12. \/ UNCHANGED <<inbox, log, job, sweep>>
       \/ SweepList \/ SweepFails \/ Crash \/ LaunchFails \/ CreateJob
       \/ \E w \in Writers : Write(w) \/ WriteRefused(w) \/ WriteUnanswered(w) \/ Kill(w)
       \/ \E t \in Sessions :
            \/ SweepRow(t) \/ DeleteSession(t) \/ WorkerStarts(t) \/ JobGone(t) \/ JobLost(t)
            \/ \E e \in Events : Ingest(t, e) \/ LoseEvent(t, e)
            \/ \E report \in Reports : WorkerReports(t, report)
            \/ \E result \in {"succeeded", "failed"} : JobEnds(t, result)
  BY DEF Next, vars, FindOrCreate, Resume, Insert, LaunchSession, ReconcilerProbe,
         ReconcilerProbeFails, UserCancel, ParentCancel, ReapSilent, Cancel, GraceElapses,
         ReconcilerList, Wake
<1> QED BY <1>2, <1>3, <1>4, <1>5, <1>6, <1>7, <1>8, <1>9, <1>10, <1>11, <1>12

(* A step that leaves the rows and the Jobs' deletions alone keeps them in *)
(* agreement; so does the UPDATE of a grounded writer.                     *)
LEMMA RowsStep == IInv /\ GInv /\ PastStays /\ [Next]_vars => RowMatchesPod'
<1> SUFFICES ASSUME IInv, GInv, PastStays, [Next]_vars PROVE RowMatchesPod' OBVIOUS
<1>a. TypeOK /\ RowMatchesPod /\ HandsGrounded BY DEF GInv, IInv
<1>1. ASSUME NEW s \in Sessions,
             \/ status'[s] = status[s] /\ why'[s] = why[s]
             \/ status'[s] \notin {"running", "complete"}
             \/ status'[s] = "running" /\ (job[s] # "none" \/ worker[s] # "none")
             \/ status'[s] = "complete" /\ (why'[s] = "ended" => worker[s] = "completed"),
             job'[s] = "terminating" => job[s] = "terminating" \/ stamped[s]
      PROVE  RowMatchesPod!(s)'
  <2>1. worker[s] \in Reports => worker'[s] = worker[s] BY DEF PastStays
  <2>2. job[s] # "none" \/ worker[s] # "none" => job'[s] # "none" \/ worker'[s] # "none"
    BY DEF PastStays, Ran
  <2>3. stamped[s] => stamped'[s] BY DEF PastStays
  <2> QED BY <1>1, <1>a, <2>1, <2>2, <2>3 DEF RowMatchesPod, Reports
<1>2. ASSUME UNCHANGED <<status, why>>,
             \A s \in Sessions : job'[s] = "terminating" => job[s] = "terminating" \/ stamped[s]
      PROVE  RowMatchesPod'
  BY <1>1, <1>2 DEF RowMatchesPod
<1>3. CASE QuietSteps
  <2>1. UNCHANGED <<status, why>> BY <1>3, QuietStepsAreQuiet DEF QuietEffect, rowVars
  <2>2. \A s \in Sessions : job'[s] = "terminating" => job[s] = "terminating"
    BY <1>3, <1>a DEF QuietSteps, FindOrCreate, Resume, WorkerStarts, JobGone, JobLost, GraceElapses,
       ReconcilerProbeFails, LoseEvent, WorkerReports, JobEnds, SweepList, SweepFails, ReconcilerList, vars,
       podVars, TypeOK
  <2> QED BY <1>2, <2>1, <2>2
<1>4. CASE HandSteps
  <2>1. UNCHANGED <<status, why>> BY <1>4, HandStepsPick DEF HandEffect, rowVars
  <2>2. ASSUME NEW w \in Writers, Kill(w) PROVE RowMatchesPod'
    <3>1. hand[w].s \in Sessions /\ stamped[hand[w].s]
      BY <2>2, <1>a DEF Kill, HandsGrounded, Grounded, Idle
    <3>2. \A s \in Sessions : job'[s] = "terminating" => job[s] = "terminating" \/ stamped[s]
      BY <2>2, <3>1, <1>a DEF Kill, TypeOK
    <3> QED BY <1>2, <2>1, <3>2
  <2>3. CASE LaunchFails \/ CreateJob
    <3>1. \A s \in Sessions : job'[s] = "terminating" => job[s] = "terminating"
      BY <2>3, <1>a DEF LaunchFails, CreateJob, TypeOK
    <3> QED BY <1>2, <2>1, <3>1
  <2>4. CASE UNCHANGED job BY <1>2, <2>1, <2>4
  <2>5. UNCHANGED job \/ LaunchFails \/ CreateJob \/ \E w \in Writers : Kill(w)
    BY <1>4 DEF HandSteps, LaunchSession, SweepRow, ReconcilerProbe, UserCancel, ParentCancel,
                ReapSilent, Cancel, Ingest, WriteRefused, podVars
  <2> QED BY <2>2, <2>3, <2>4, <2>5
<1>5. ASSUME NEW t \in Sessions, Insert(t) \/ DeleteSession(t) PROVE RowMatchesPod'
  <2>1. UNCHANGED <<job, why>> BY <1>5 DEF Insert, DeleteSession, podVars
  <2>2. \A s \in Sessions : status'[s] = status[s] \/ status'[s] \in {"pending", "deleted"}
    BY <1>5, <1>a DEF Insert, DeleteSession, TypeOK
  <2> QED BY <1>1, <2>1, <2>2 DEF RowMatchesPod
<1>6. CASE Crash \/ \E w \in Writers : Wake(w)
  BY <1>2, <1>6 DEF Crash, Wake, rowVars, podVars
<1>7. ASSUME NEW w \in Writers, Write(w) \/ WriteUnanswered(w) PROVE RowMatchesPod'
  <2> DEFINE h == hand[w]
  <2>1. h.s \in Sessions /\ h.will \in {"running"} \cup Terminal /\ h.step = "write"
    BY <1>7 DEF Write, WriteUnanswered, IInv, HandsReady
  <2>2. /\ h.why = "ended" /\ h.will = "complete" => worker[h.s] = "completed"
        /\ h.will = "running" => job[h.s] # "none" \/ worker[h.s] # "none"
    BY <1>a, <2>1 DEF HandsGrounded, Grounded, Idle
  <2>3. UNCHANGED job BY <1>7 DEF Write, WriteUnanswered, podVars
  <2>4. CASE Exists(h.s)
    <3>1. /\ status' = [status EXCEPT ![h.s] = h.will]
          /\ why' = IF h.will \in Terminal THEN [why EXCEPT ![h.s] = h.why] ELSE why
      BY <1>7, <2>4 DEF Write, WriteUnanswered, Updates
    <3>2. \A s \in Sessions : s # h.s => status'[s] = status[s] /\ why'[s] = why[s]
      BY <1>a, <3>1 DEF TypeOK
    <3>3. status'[h.s] = h.will /\ (h.will \in Terminal => why'[h.s] = h.why)
      BY <1>a, <2>1, <3>1 DEF TypeOK
    <3>4. \A s \in Sessions : RowMatchesPod!(s)'
      BY <1>1, <2>1, <2>2, <2>3, <3>2, <3>3 DEF Terminal
    <3> QED BY <3>4 DEF RowMatchesPod
  <2>5. CASE ~Exists(h.s)
    BY <1>2, <1>7, <2>3, <2>5 DEF Write, WriteUnanswered, Updates, rowVars
  <2> QED BY <2>4, <2>5
<1> QED BY NextCases, <1>3, <1>4, <1>5, <1>6, <1>7 DEF RowSteps

(* A wake that says complete is sent by a writer that knows.               *)
LEMMA WakesStep == IInv /\ GInv /\ PastStays /\ [Next]_vars => WakesEarned'
<1> SUFFICES ASSUME IInv, GInv, PastStays, [Next]_vars PROVE WakesEarned' OBVIOUS
<1>a. TypeOK /\ HandsGrounded /\ WakesEarned BY DEF GInv, IInv
<1>1. ASSUME woken' \subseteq woken PROVE WakesEarned'
  BY <1>1, <1>a DEF WakesEarned, PastStays, TypeOK, Reports, Terminal
<1>2. ASSUME NEW w \in Writers, Wake(w) PROVE WakesEarned'
  <2>1. hand[w].will = "complete" => worker[hand[w].s] = "completed"
    BY <1>2, <1>a DEF Wake, HandsGrounded, Grounded, Idle
  <2>2. woken' \subseteq woken \cup {<<hand[w].s, hand[w].will>>} /\ worker' = worker
    BY <1>2 DEF Wake, podVars
  <2> QED BY <2>1, <2>2, <1>a DEF WakesEarned
<1>3. CASE HandSteps \/ QuietSteps
  BY <1>1, <1>3, HandStepsPick, QuietStepsAreQuiet DEF HandEffect, QuietEffect
<1>4. CASE Crash \/ (\E t \in Sessions : Insert(t) \/ DeleteSession(t))
           \/ \E w \in Writers : Write(w) \/ WriteUnanswered(w)
  BY <1>1, <1>4 DEF Crash, Insert, DeleteSession, Write, WriteUnanswered
<1> QED BY NextCases, <1>2, <1>3, <1>4 DEF RowSteps

(* Initially nothing has happened that needs a ground.                     *)
LEMMA InitGrounded == Init => GInv
<1> SUFFICES ASSUME Init PROVE GInv OBVIOUS
<1>1. HandsGrounded BY DEF Init, HandsGrounded, Grounded
<1>2. EvidenceTrue BY DEF Init, EvidenceTrue, Reports, NoSweep, Sweep
<1>3. RowMatchesPod /\ WakesEarned BY DEF Init, RowMatchesPod, WakesEarned
<1> QED BY <1>1, <1>2, <1>3 DEF GInv

(* GInv holds in every state the table can reach.                          *)
THEOREM GroundInvariance == Spec => []GInv
<1>1. IInv /\ GInv /\ [Next]_vars => GInv'
  BY PastStep, HandsStep, EvidenceStep, RowsStep, WakesStep DEF GInv
<1> QED BY <1>1, InitGrounded, Invariance, PTL DEF Spec

(* A running row has had its Job, a run that completed by itself was       *)
(* reported by its agent, and a Job is taken down only after its row.      *)
THEOREM RowsMatchPods == Spec => []RowMatchesPod
<1> QED BY GroundInvariance, PTL DEF GInv

(* A state_change wake names a child whose row has been terminal, and one  *)
(* that says complete a child whose agent reported so.                     *)
THEOREM WakesAreTrue == Spec => []WakeIsTrue
<1>1. IInv /\ GInv => WakeIsTrue
  BY DEF IInv, GInv, WakeOfStamped, WakesEarned, WakeIsTrue
<1> QED BY <1>1, Invariance, GroundInvariance, PTL
-----------------------------------------------------------------------------
(* Nothing an ended child owes its parent is dropped.                      *)

(* The wake of s with this outcome is out, or in a writer's hand.          *)
Telling(s, outcome) ==
  \/ <<s, outcome>> \in woken
  \/ \E w \in Writers : hand[w].step = "wake" /\ hand[w].s = s /\ hand[w].will = outcome

(* A wake in hand leaves it only to be published.                          *)
LEMMA TellingStays ==
  ASSUME IInv, [Next]_vars, {"wake", "answer", "crash"} \cap Faults = {},
         NEW s \in Sessions, Wakeable(s), NEW outcome, Telling(s, outcome)
  PROVE  Telling(s, outcome)'
<1> USE DEF IInv, TypeOK, Telling
<1>1. ASSUME woken \subseteq woken',
             \A w \in Writers : hand[w].step = "wake" => hand'[w] = hand[w]
      PROVE  Telling(s, outcome)'
  BY <1>1
<1>2. ASSUME NEW w \in Writers, Wake(w) PROVE Telling(s, outcome)'
  <2>1. woken' = IF Wakeable(hand[w].s) THEN woken \cup {<<hand[w].s, hand[w].will>>} ELSE woken
    BY <1>2 DEF Wake
  <2>2. \A v \in Writers : v # w => hand'[v] = hand[v] BY <1>2 DEF Wake
  <2> QED BY <2>1, <2>2
<1>3. ASSUME NEW w \in Writers, hand[w].step # "wake",
             \A v \in Writers : v # w => hand'[v] = hand[v], woken' = woken
      PROVE  Telling(s, outcome)'
  BY <1>1, <1>3
<1>4. CASE UNCHANGED <<hand, woken>> BY <1>1, <1>4
<1>5. CASE HandSteps
  <2>1. ASSUME NEW w \in Writers, NEW t \in Sessions, NEW reason, Cancel(w, t, reason)
        PROVE Telling(s, outcome)'
    BY <1>3, <2>1 DEF Cancel, Begins
  <2>2. ASSUME NEW t \in Sessions, UserCancel(t) \/ ParentCancel(t) \/ ReapSilent(t)
        PROVE Telling(s, outcome)'
    BY <2>1, <2>2 DEF UserCancel, ParentCancel, ReapSilent, Writers
  <2>3. ASSUME NEW w \in Writers, Kill(w) \/ WriteRefused(w) PROVE Telling(s, outcome)'
    BY <1>3, <2>3 DEF Kill, WriteRefused
  <2>4. ASSUME LaunchFails \/ CreateJob PROVE Telling(s, outcome)'
    BY <1>3, <2>4 DEF LaunchFails, CreateJob, Writers
  <2>5. ASSUME NEW t \in Sessions,
               \/ LaunchSession(t) \/ SweepRow(t) \/ ReconcilerProbe(t)
               \/ \E e \in Events : Ingest(t, e)
        PROVE Telling(s, outcome)'
    BY <1>3, <2>5 DEF LaunchSession, WatcherFree, SweepRow, ReconcilerProbe, Ingest, Begins, Writers
  <2> QED BY <1>5, <2>2, <2>3, <2>4, <2>5 DEF HandSteps
<1>6. CASE QuietSteps BY <1>4, <1>6, QuietStepsAreQuiet DEF QuietEffect
<1>7. CASE \E t \in Sessions : Insert(t) \/ DeleteSession(t)
  BY <1>4, <1>7 DEF Insert, DeleteSession, apiVars
<1>8. ASSUME NEW w \in Writers, Write(w) PROVE Telling(s, outcome)'
  BY <1>3, <1>8 DEF Write
<1>9. ~Crash /\ \A w \in Writers : ~WriteUnanswered(w)
  BY DEF Crash, WriteUnanswered
<1> QED BY NextCases, <1>2, <1>5, <1>6, <1>7, <1>8, <1>9 DEF RowSteps

(* The row of an ended child was written by a writer that goes on to wake, *)
(* or it was as it is before the step.                                     *)
LEMMA EndsByWrite ==
  ASSUME IInv, HandsGrounded, [Next]_vars, "answer" \notin Faults, NEW s \in Sessions,
         status'[s] \in Terminal, why'[s] = "ended"
  PROVE  \/ status[s] = status'[s] /\ why[s] = "ended"
         \/ \E w \in Writers :
              hand'[w].step = "wake" /\ hand'[w].s = s /\ hand'[w].will = status'[s]
<1> USE DEF IInv, TypeOK, rowVars
<1>1. CASE HandSteps \/ QuietSteps
  BY <1>1, HandStepsPick, QuietStepsAreQuiet DEF HandEffect, QuietEffect
<1>2. CASE \E t \in Sessions : Insert(t) \/ DeleteSession(t)
  BY <1>2 DEF Insert, DeleteSession, Terminal
<1>3. ASSUME NEW w \in Writers, Write(w)
      PROVE  \/ status[s] = status'[s] /\ why[s] = "ended"
             \/ hand'[w].step = "wake" /\ hand'[w].s = s /\ hand'[w].will = status'[s]
  <2>1. CASE ~Exists(hand[w].s) \/ hand[w].s # s
    BY <1>3, <2>1 DEF Write, Updates, DropsSweep
  <2>2. CASE Exists(hand[w].s) /\ hand[w].s = s
    <3>1. status'[s] = hand[w].will /\ why'[s] = hand[w].why
      BY <1>3, <2>2 DEF Write, Updates, DropsSweep
    <3>2. hand[w].after = "wake"
      BY <1>3, <3>1 DEF Write, Updates, DropsSweep, HandsGrounded, Grounded, Idle
    <3>3. hand'[w] = [hand[w] EXCEPT !.step = "wake"]
      BY <1>3, <2>2, <3>2 DEF Write, Updates, DropsSweep, Onward
    <3>4. hand[w] \in Hands OBVIOUS
    <3> QED BY <2>2, <3>1, <3>3, <3>4 DEF Hands
  <2> QED BY <2>1, <2>2
<1>4. CASE Crash \/ \E w \in Writers : Wake(w) BY <1>4 DEF Crash, Wake
<1>5. \A w \in Writers : ~WriteUnanswered(w) BY DEF WriteUnanswered
<1> QED BY NextCases, <1>1, <1>2, <1>3, <1>4, <1>5 DEF RowSteps

(* A parent that lives and never ended lived before the step, unless it    *)
(* was only just created, which a row with a parent rules out.             *)
LEMMA ParentLivedBefore ==
  ASSUME IInv, [Next]_vars, PastStays, NEW p \in Sessions, Exists(p), Live(p)', ~stamped'[p]
  PROVE  Live(p) /\ ~stamped[p]
<1>1. ~stamped[p] BY DEF PastStays
<1>2. status[p] \notin Terminal BY <1>1 DEF IInv, StampedWhenTerminal
<1> QED BY <1>1, <1>2 DEF Exists, Live

(* No end that is to be told is kept from a parent that lives.             *)
THEOREM EndsAreTold == Spec => []EndIsTold
<1>1. Init => EndIsTold
  BY DEF Init, EndIsTold, Terminal
<1>2. IInv /\ GInv /\ ChildHasParent /\ EndIsTold /\ [Next]_vars => EndIsTold'
  <2> SUFFICES ASSUME IInv, GInv, ChildHasParent, EndIsTold, [Next]_vars,
                      {"wake", "answer", "crash"} \cap Faults = {}, NEW s \in Sessions, NEW outcome \in Terminal,
                      status'[s] = outcome, why'[s] = "ended",
                      Wakeable(s)', ~stamped'[ParentOf[s]]
               PROVE  Telling(s, outcome)'
    BY DEF EndIsTold, Telling
  <2>2. CASE \E w \in Writers :
               hand'[w].step = "wake" /\ hand'[w].s = s /\ hand'[w].will = outcome
    BY <2>2 DEF Telling
  <2>3. CASE status[s] = outcome /\ why[s] = "ended"
    <3>1. ParentOf[s] \in Sessions /\ ParentOf[s] # None
      BY SessionsAssumption DEF Wakeable, IsOrchestrator
    <3>2. Exists(ParentOf[s]) BY <2>3, <3>1 DEF ChildHasParent, Exists
    <3>3. Live(ParentOf[s]) /\ ~stamped[ParentOf[s]]
      BY <3>1, <3>2, PastStep, ParentLivedBefore DEF Wakeable
    <3>4. Wakeable(s) BY <3>1, <3>3 DEF Wakeable, IsOrchestrator
    <3>5. Telling(s, outcome)
      BY <2>3, <3>3, <3>4 DEF EndIsTold, Telling
    <3> QED BY <3>4, <3>5, TellingStays
  <2> QED BY <2>2, <2>3, EndsByWrite DEF GInv
<1> QED BY <1>1, <1>2, Invariance, GroundInvariance, ChildrenHaveParents, PTL DEF Spec

(* What a parent knows of its children is what happened, and all of it.    *)
THEOREM ParentsKnow == Spec => []WakesMatchEnds
<1> QED BY WakesAreTrue, EndsAreTold, PTL DEF WakesMatchEnds
=============================================================================
