---------------------------- MODULE EventStream ----------------------------
(***************************************************************************)
(* The way of a session's events from the agent to the session_events      *)
(* table, for one session and every pod, container and api process that    *)
(* serves it.                                                              *)
(*                                                                         *)
(* Output of the agent goes into its buffer and, while the sidecar reads   *)
(* its SSE stream, on the wire; session.started, the tools' own events and *)
(* the terminal event are POSTed to the sidecar. The sidecar gives every   *)
(* event a number, publishes it on NATS for the api and then, through      *)
(* JetStream, for the archive. The api inserts what it hears.              *)
(*                                                                         *)
(* Left out: transient events (never stored), NATS reconnects (a core      *)
(* message is lost or not), the browser.                                   *)
(***************************************************************************)
EXTENDS Naturals, Sequences, FiniteSets

CONSTANTS
  OnFailure,     \* the pod's restartPolicy is OnFailure (an orchestrator), not Never
  BufferCap,     \* events the agent keeps for a sidecar that attaches late
  MaxOutput,     \* bound: events besides session.started and the terminal one
  MaxFaults,     \* bound: restarts and messages NATS loses, together; then no more crashes
  Faults         \* which of "agent", "sidecar", "node", "core", "stream", "slow" happen

ASSUME EventStreamAssumption ==
  /\ OnFailure \in BOOLEAN
  /\ BufferCap \in Nat \ {0}
  /\ MaxOutput \in Nat /\ MaxFaults \in Nat
  /\ Faults \subseteq {"agent", "sidecar", "node", "core", "stream", "slow"}

VARIABLES
  agent,     \* the agent process; "failed" and "crashed" are exits with a nonzero code
  life,      \* starts of the agent container
  buffer,    \* eventBuffer
  sidecar,   \* the sidecar process; "deaf" gave up waiting for the agent's stream
  starts,    \* starts of the sidecar container
  conn,      \* the life of the agent whose stream the sidecar reads, 0 if none
  wire,      \* what was written to that stream and not read yet
  next,      \* AppState.sequence
  calls,     \* publish_event calls that have drawn a number
  told,      \* those that have sent the core message and await the archive
  rows,      \* session_events
  dropped,   \* messages appendSessionEvent took for duplicates (history)
  archive,   \* messages X1_SESSION stored under the archive subject
  window,    \* message ids the stream's duplicate window remembers
  made,      \* output events so far (history: numbers them)
  failures,  \* messages NATS lost (history)
  lost       \* events lost to a named fault (history)

agentVars   == <<agent, life, buffer>>
sidecarVars == <<sidecar, starts, conn, wire, next>>
callVars    == <<calls, told>>
storeVars   == <<rows, dropped, archive, window>>
vars == <<agentVars, sidecarVars, callVars, storeVars, made, failures, lost>>

Running == {"booting", "starting", "up", "closing"}
Serving == {"waiting", "attached", "deaf", "winding"}
Event   == [n : Nat, via : {"stream", "started", "tool", "terminal"}, life : Nat]
Message == [seq : Nat, ev : Event]

TypeOK ==
  /\ agent \in Running \cup {"done", "failed", "crashed"}
  /\ sidecar \in Serving \cup {"booting", "done", "crashed"}
  /\ life \in Nat /\ starts \in Nat /\ conn \in Nat /\ next \in Nat
  /\ made \in Nat /\ failures \in Nat
  /\ buffer \in Seq(Event) /\ Len(buffer) <= BufferCap
  /\ wire \in Seq(Event)
  /\ calls \subseteq Message /\ told \subseteq Message
  /\ rows \subseteq Message /\ dropped \subseteq Message /\ archive \subseteq Message
  /\ window \subseteq Nat
  /\ lost \subseteq Event

Init ==
  /\ agent = "booting" /\ life = 1 /\ buffer = <<>>
  /\ sidecar = "booting" /\ starts = 1 /\ conn = 0 /\ wire = <<>> /\ next = 0
  /\ calls = {} /\ told = {} /\ rows = {} /\ dropped = {}
  /\ archive = {} /\ window = {} /\ made = 0 /\ failures = 0 /\ lost = {}

Elements(s) == {s[i] : i \in DOMAIN s}
Attached == sidecar = "attached" /\ conn = life
MoreFaults == life + starts + failures < MaxFaults + 2
Output(via) == [n |-> made + 1, via |-> via, life |-> life]
Notice(via) == [n |-> 0, via |-> via, life |-> life]

-----------------------------------------------------------------------------
(* The agent: its SSE stream.                                              *)

PushAll(s, e) == Append(s, e) \* mutant
Push(s, e) == IF Len(s) < BufferCap THEN Append(s, e) ELSE Append(Tail(s), e)

(* The prompt is pushed before anything else, all other output is emitted  *)
(* by the conversation, which a shutdown does not stop.                    *)
EmitTo(live) ==
  /\ agent \in {"up", "closing"} \/ (agent = "booting" /\ buffer = <<>>)
  /\ made < MaxOutput
  /\ made' = made + 1
  /\ buffer' = Push(buffer, Output("stream"))
  /\ wire' = IF Attached THEN live ELSE wire
  /\ lost' = IF ~Attached /\ Len(buffer) = BufferCap THEN lost \cup {Head(buffer)} ELSE lost
  /\ UNCHANGED <<agent, life, sidecar, starts, conn, next, callVars, storeVars, failures>>
EmitOvertaking == EmitTo(<<Output("stream")>> \o wire) \* mutant
Emit == EmitTo(Append(wire, Output("stream")))

-----------------------------------------------------------------------------
(* The agent: events it POSTs. A sidecar that does not answer loses the    *)
(* event; postToSidecar logs and goes on.                                  *)

Number(e) == [seq |-> next, ev |-> e]

Post(e) ==
  /\ IF sidecar \in Serving
     THEN calls' = calls \cup {Number(e)} /\ next' = next + 1 /\ UNCHANGED lost
     ELSE lost' = lost \cup {e} /\ UNCHANGED <<calls, next>>
  /\ UNCHANGED <<life, buffer, sidecar, starts, conn, wire, told, storeVars, failures>>

Posting(via) == \E c \in calls \cup told : c.ev.via = via /\ c.ev.life = life

(* waitForSidecar gives up after 30 s: session.started is then posted to   *)
(* nobody.                                                                 *)
PostStarted == agent = "booting" /\ agent' = "starting" /\ Post(Notice("started")) /\ UNCHANGED made
Up ==
  /\ agent = "starting" /\ agent' = "up"
  /\ UNCHANGED <<life, buffer, sidecarVars, callVars, storeVars, made, failures, lost>>
StartedAtOnce == Up \* mutant
Started == ~Posting("started") /\ Up

(* A tool's event comes from another process and waits for no one.         *)
PostTool ==
  /\ agent = "up" /\ made < MaxOutput
  /\ made' = made + 1 /\ Post(Output("tool")) /\ UNCHANGED agent

(* Idle timeout, end_session and the result of a oneshot all come here;    *)
(* whoever comes second parks.                                             *)
Close == agent' = "closing" /\ Post(Notice("terminal")) /\ UNCHANGED made
ShutdownAgain == agent \in {"up", "closing"} /\ Close \* mutant
Shutdown == agent = "up" /\ Close

(* A buffer nobody came to read goes with the process.                     *)
Unread == IF Attached THEN {} ELSE Elements(buffer)
Leave ==
  /\ agent = "closing"
  /\ agent' \in {"done", "failed"}
  /\ lost' = lost \cup Unread
  /\ UNCHANGED <<life, buffer, sidecarVars, callVars, storeVars, made, failures>>
ExitAtOnce == Leave \* mutant
Exit == ~Posting("terminal") /\ Leave

(* Output that is still in the process's hands goes with it.               *)
AgentCrash ==
  /\ "agent" \in Faults /\ MoreFaults
  /\ agent \in Running
  /\ agent' = "crashed"
  /\ \E kept \in 0..Len(wire) :
       /\ kept = Len(wire) \/ conn = life
       /\ wire' = SubSeq(wire, 1, kept)
       /\ lost' = lost \cup Elements(SubSeq(wire, kept + 1, Len(wire))) \cup Unread
  /\ UNCHANGED <<life, buffer, sidecar, starts, conn, next, callVars, storeVars, made, failures>>

AgentRestart ==
  /\ OnFailure /\ MoreFaults /\ agent \in {"failed", "crashed"}
  /\ agent' = "booting" /\ life' = life + 1 /\ buffer' = <<>>
  /\ UNCHANGED <<sidecarVars, callVars, storeVars, made, failures, lost>>

-----------------------------------------------------------------------------
(* The sidecar.                                                            *)

Connect ==
  /\ sidecar = "booting" /\ sidecar' = "waiting"
  /\ UNCHANGED <<agentVars, starts, conn, wire, next, callVars, storeVars, made, failures, lost>>

(* The agent answers with its buffer and adds the listener in one turn of  *)
(* its event loop.                                                         *)
AttachTo(replay) ==
  /\ sidecar = "waiting" /\ agent \in Running
  /\ sidecar' = "attached" /\ conn' = life /\ wire' = replay
  /\ UNCHANGED <<agentVars, starts, next, callVars, storeVars, made, failures, lost>>
AttachLive == AttachTo(<<>>) \* mutant
Attach == AttachTo(buffer)

(* Sixty attempts without an answer: the task returns, the process stays.  *)
(* An image pull or a restart back-off of more than a minute is "slow".    *)
NeverReady ==
  /\ \/ "slow" \in Faults
     \/ agent = "done"
     \/ ~OnFailure /\ agent \notin Running
  /\ sidecar = "waiting" /\ sidecar' = "deaf"
  /\ UNCHANGED <<agentVars, starts, conn, wire, next, callVars, storeVars, made, failures, lost>>

(* The stream's task publishes one event at a time.                        *)
Relaying == \E c \in calls \cup told : c.ev.via = "stream"
ReadUnnumbered == \* mutant
  /\ sidecar = "attached" /\ wire # <<>> /\ ~Relaying
  /\ wire' = Tail(wire)
  /\ calls' = calls \cup {Number(Head(wire))}
  /\ UNCHANGED <<agentVars, sidecar, starts, conn, next, told, storeVars, made, failures, lost>>
ReadEvent ==
  /\ sidecar = "attached" /\ wire # <<>> /\ ~Relaying
  /\ wire' = Tail(wire)
  /\ calls' = calls \cup {Number(Head(wire))} /\ next' = next + 1
  /\ UNCHANGED <<agentVars, sidecar, starts, conn, told, storeVars, made, failures, lost>>

(* publish_event: first the core message, then, one await later, the       *)
(* archive. One connection and one loop of the api keep the order of the   *)
(* core messages, so the row is written with the first. UNIQUE (session_id,   *)
(* seq): a duplicate becomes null. Core messages are delivered at most     *)
(* once: nobody was subscribed, or the INSERT failed.                      *)
Persist(c) ==
  IF \E r \in rows : r.seq = c.seq
  THEN dropped' = dropped \cup {c} /\ UNCHANGED rows
  ELSE rows' = rows \cup {c} /\ UNCHANGED dropped
Unheard == "core" \in Faults /\ MoreFaults /\ UNCHANGED <<rows, dropped>>

(* The message id is the number: JetStream acknowledges a message whose id *)
(* it remembers and does not store it. A failure is logged.                *)
Archive(c) ==
  /\ IF c.seq \in window
     THEN UNCHANGED <<archive, window>>
     ELSE archive' = archive \cup {c} /\ window' = window \cup {c.seq}
  /\ UNCHANGED lost
ArchiveFails(c) ==
  /\ "stream" \in Faults /\ MoreFaults
  /\ lost' = lost \cup {c.ev} /\ UNCHANGED <<archive, window>>

PublishCore(c) ==
  /\ c \in calls
  /\ calls' = calls \ {c} /\ told' = told \cup {c}
  /\ \/ Persist(c) /\ UNCHANGED failures
     \/ Unheard /\ failures' = failures + 1
  /\ UNCHANGED <<agentVars, sidecarVars, archive, window, made, lost>>

PublishArchive(c) ==
  /\ c \in told
  /\ told' = told \ {c}
  /\ \/ Archive(c) /\ UNCHANGED failures
     \/ ArchiveFails(c) /\ failures' = failures + 1
  /\ UNCHANGED <<agentVars, sidecarVars, calls, rows, dropped, made>>

Publish == \E c \in calls \cup told : PublishCore(c) \/ PublishArchive(c)

(* The agent's stream closed: two seconds, drain, exit(0).                 *)
StreamEnds ==
  /\ sidecar = "attached" /\ wire = <<>> /\ ~Relaying
  /\ agent \notin Running \/ conn # life
  /\ sidecar' = "winding"
  /\ UNCHANGED <<agentVars, starts, conn, wire, next, callVars, storeVars, made, failures, lost>>

Gone(exit) ==
  /\ sidecar' = exit
  /\ conn' = 0 /\ wire' = <<>> /\ calls' = {} /\ told' = {}
  /\ lost' = lost \cup Elements(wire) \cup {c.ev : c \in calls \cup told}
SidecarExit ==
  /\ sidecar = "winding" /\ Gone("done")
  /\ UNCHANGED <<agentVars, starts, next, storeVars, made, failures>>
SidecarCrash ==
  /\ "sidecar" \in Faults /\ MoreFaults
  /\ sidecar \in Serving \cup {"booting"} /\ Gone("crashed")
  /\ UNCHANGED <<agentVars, starts, next, storeVars, made, failures>>

(* A container that exited with 0 is not restarted.                        *)
SidecarRestart ==
  /\ OnFailure /\ MoreFaults /\ sidecar = "crashed"
  /\ sidecar' = "booting" /\ starts' = starts + 1 /\ next' = 0
  /\ UNCHANGED <<agentVars, conn, wire, callVars, storeVars, made, failures, lost>>

(* The node is lost; the Job makes another pod of the same session.        *)
PodReplaced ==
  /\ "node" \in Faults
  /\ OnFailure /\ MoreFaults
  /\ agent \in Running
  /\ agent' = "booting" /\ life' = life + 1 /\ buffer' = <<>>
  /\ Gone("booting") /\ starts' = starts + 1 /\ next' = 0
  /\ UNCHANGED <<storeVars, made, failures>>

-----------------------------------------------------------------------------
(* The duplicate window is two minutes. Forgetting a number changes        *)
(* nothing until the counter comes to it again.                            *)
WindowPasses ==
  /\ \E id \in window : id >= next
  /\ window' = {}
  /\ UNCHANGED <<agentVars, sidecarVars, callVars, rows, dropped, archive, made, failures, lost>>

AgentNext ==
  Emit \/ PostStarted \/ Started \/ PostTool \/ Shutdown \/ Exit \/ AgentCrash \/ AgentRestart
SidecarNext ==
  \/ Connect \/ Attach \/ NeverReady \/ ReadEvent \/ StreamEnds
  \/ SidecarExit \/ SidecarCrash \/ SidecarRestart
  \/ Publish
Next == AgentNext \/ SidecarNext \/ PodReplaced \/ WindowPasses

Spec == Init /\ [][Next]_vars

(* Processes go on with what they began and containers are restarted;      *)
(* nothing says that an agent has output, ends, or fails.                  *)
Fairness ==
  /\ WF_vars(PostStarted) /\ WF_vars(Started) /\ WF_vars(Exit) /\ WF_vars(AgentRestart)
  /\ WF_vars(Connect) /\ WF_vars(Attach) /\ WF_vars(ReadEvent)
  /\ WF_vars(StreamEnds) /\ WF_vars(SidecarExit) /\ WF_vars(SidecarRestart)
  /\ WF_vars(Publish)
FairSpec == Spec /\ Fairness

-----------------------------------------------------------------------------
(* Properties.                                                             *)

Published == calls \cup told \cup rows \cup archive

(* While the sidecar has not restarted, a number names one event and an    *)
(* event has one number, wherever it is found: two tasks and any number of *)
(* POST handlers draw numbers from one counter, and the api keys its rows  *)
(* by them.                                                                *)
NumbersNameEvents ==
  starts = 1 => \A m, k \in Published : m.seq = k.seq <=> m.ev = k.ev

(* While the sidecar has not restarted, stored output is numbered in the   *)
(* order the agent emitted it, replayed from the buffer or read live: the  *)
(* timeline sorts by the number.                                           *)
OutputInOrder ==
  starts = 1 =>
    \A m, k \in rows \cup archive :
      m.ev.via = "stream" /\ k.ev.via = "stream" /\ m.seq < k.seq => m.ev.n < k.ev.n

(* One life of an agent ends once, however many of its callers want to     *)
(* shut it down.                                                           *)
OneTerminalEvent ==
  \A m, k \in Published :
    m.ev.via = "terminal" /\ k.ev.via = "terminal" /\ m.ev.life = k.ev.life => m.seq = k.seq

(* What the agent has said of itself, and its reports on the way to the    *)
(* api (in calls until the core message) and taken by the api.             *)
Word ==
  CASE agent = "booting" -> "none"
    [] agent \in {"starting", "up"} -> "up"
    [] agent \in {"closing", "done", "failed"} -> "over"
    [] agent = "crashed" -> "dead"
ReportsIn(S) ==
  {[life |-> m.ev.life, what |-> m.ev.via] : m \in {k \in S : k.ev.via \in {"started", "terminal"}}}
Heard == INSTANCE AgentReports WITH
  word <- Word, inbox <- ReportsIn(calls), heard <- ReportsIn(rows \cup dropped)

(* What SessionLifecycle takes for granted of a pod: whatever restarts and *)
(* is lost, an agent reports its start and its end once in a life, the api *)
(* takes each report once, and no end with the start still on its way.     *)
ImplementsReports == Heard!Spec

FirstPod == life = 1 /\ starts = 1 /\ sidecar \notin {"crashed", "deaf"}

(* An agent that shut itself down has told the archive so, or a fault took *)
(* the event: the process does not exit under its own POST.                *)
EndIsAnnounced ==
  FirstPod /\ agent \in {"done", "failed"} =>
    \E e \in {m.ev : m \in archive} \cup lost : e.via = "terminal" /\ e.life = life

(* While neither container was restarted, no output is ever nowhere: what  *)
(* the agent said waits to be read (in the buffer until the sidecar        *)
(* attaches, on the wire from then on), is being published, is archived,   *)
(* or was lost to a fault that has a name.                                 *)
Waiting == IF sidecar \in {"booting", "waiting"} THEN Elements(buffer) ELSE Elements(wire)
NothingVanishes ==
  FirstPod =>
    \A n \in 1..made :
      \E e \in Waiting \cup {m.ev : m \in calls \cup told \cup archive} \cup lost : e.n = n

(* While neither container was restarted, all output is archived or was    *)
(* lost to a fault that has a name: in particular what the agent said      *)
(* before the sidecar attached.                                            *)
OutputArchived ==
  \A n \in 1..MaxOutput :
    (made >= n) ~> \/ ~FirstPod
                   \/ \E e \in {m.ev : m \in archive} \cup lost : e.n = n
=============================================================================
