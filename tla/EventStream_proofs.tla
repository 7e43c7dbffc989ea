------------------------ MODULE EventStream_proofs ------------------------
(***************************************************************************)
(* Proofs about EventStream, for every restart policy, buffer capacity,    *)
(* bound and set of faults.                                                *)
(***************************************************************************)
EXTENDS EventStream, SequenceTheorems, TLAPS

(* Output that waits, in the buffer or on the wire, is output, was made,   *)
(* and waits in the order it was made.                                     *)
Ascending(s) == \A i, j \in DOMAIN s : i < j => s[i].n < s[j].n
Waits(s, n) == Ascending(s) /\ \A i \in DOMAIN s : s[i].via = "stream" /\ s[i].n <= n
OutputWaits == Waits(buffer, made) /\ Waits(wire, made)

(* What was published was made, and by a life that has got that far.       *)
PublishedMade ==
  \A m \in Published :
    /\ m.ev.n <= made
    /\ m.ev.via # "stream" => m.ev.life <= life
    /\ m.ev.via = "started" /\ m.ev.life = life => agent # "booting"
    /\ m.ev.via = "terminal" /\ m.ev.life = life => agent \notin {"booting", "starting", "up"}

(* In the first life of the sidecar the counter is ahead of every number,  *)
(* and the wire ahead of all output that was published.                    *)
CounterAhead ==
  starts = 1 => \A m \in Published : m.seq < next
WireAhead ==
  starts = 1 =>
    \A m \in Published :
      m.ev.via = "stream" =>
        /\ sidecar \notin {"booting", "waiting"}
        /\ \A i \in DOMAIN wire : m.ev.n < wire[i].n
PublishedInOrder ==
  starts = 1 =>
    \A m, k \in Published :
      m.ev.via = "stream" /\ k.ev.via = "stream" /\ m.seq < k.seq => m.ev.n < k.ev.n

(* In the first life of the sidecar the stream remembers only ids of       *)
(* messages it stored.                                                     *)
WindowStored == starts = 1 => \A id \in window : \E m \in archive : m.seq = id

(* The terminal event of an agent that shuts down is on its way, archived  *)
(* or lost; once the agent has exited it is not on its way.                *)
Told(S, e) == e \in {m.ev : m \in S} \cup lost
EndToldTo(S) == \E e : Told(S, e) /\ e.via = "terminal" /\ e.life = life
EndKnown ==
  starts = 1 /\ sidecar # "crashed" /\ agent \in {"closing", "done", "failed"} =>
    EndToldTo(calls \cup told \cup archive)
EndSettled ==
  starts = 1 /\ sidecar # "crashed" /\ agent \in {"done", "failed"} => EndToldTo(archive)

EInv ==
  /\ TypeOK /\ starts >= 1
  /\ OutputWaits /\ PublishedMade
  /\ CounterAhead /\ WireAhead /\ PublishedInOrder /\ NumbersNameEvents
  /\ OneTerminalEvent /\ WindowStored /\ EndKnown /\ EndSettled

-----------------------------------------------------------------------------
(* The kinds of events.                                                    *)

LEMMA OutputIsEvent ==
  ASSUME TypeOK, NEW via \in {"stream", "tool"}
  PROVE  /\ Output(via) \in Event
         /\ Output(via).n = made + 1 /\ Output(via).via = via /\ Output(via).life = life
  BY DEF TypeOK, Output, Event

LEMMA NoticeIsEvent ==
  ASSUME TypeOK, NEW via \in {"started", "terminal"}
  PROVE  /\ Notice(via) \in Event
         /\ Notice(via).n = 0 /\ Notice(via).via = via /\ Notice(via).life = life
  BY DEF TypeOK, Notice, Event

LEMMA NumberIsMessage ==
  ASSUME TypeOK, NEW e \in Event
  PROVE  Number(e) \in Message /\ Number(e).seq = next /\ Number(e).ev = e
  BY DEF TypeOK, Number, Message

(* Pushing keeps a buffer of at most BufferCap events.                     *)
LEMMA PushType ==
  ASSUME NEW s \in Seq(Event), Len(s) <= BufferCap, NEW e \in Event
  PROVE  Push(s, e) \in Seq(Event) /\ Len(Push(s, e)) <= BufferCap
<1> BufferCap \in Nat \ {0} BY EventStreamAssumption
<1>1. CASE Len(s) < BufferCap BY <1>1 DEF Push
<1>2. CASE ~(Len(s) < BufferCap)
  <2>1. s # <<>> BY <1>2
  <2>2. Tail(s) \in Seq(Event) /\ Len(Tail(s)) = Len(s) - 1 BY <2>1
  <2> QED BY <1>2, <2>2 DEF Push
<1> QED BY <1>1, <1>2

LEMMA ElementsType ==
  ASSUME NEW s \in Seq(Event)
  PROVE  Elements(s) \subseteq Event
  BY DEF Elements

LEMMA PostType ==
  ASSUME TypeOK, NEW e \in Event, Post(e)
  PROVE  /\ calls' \subseteq Message /\ told' \subseteq Message /\ next' \in Nat /\ lost' \subseteq Event
  BY NumberIsMessage DEF Post, TypeOK

LEMMA UnreadType == TypeOK => Unread \subseteq Event
  BY ElementsType DEF TypeOK, Unread

LEMMA GoneType ==
  ASSUME TypeOK, NEW x, Gone(x)
  PROVE  sidecar' = x /\ conn' \in Nat /\ wire' \in Seq(Event) /\ calls' \subseteq Message /\ told' \subseteq Message /\ lost' \subseteq Event
  BY ElementsType DEF Gone, TypeOK, Message

(* Every step keeps the types.                                             *)
LEMMA TypeStep == TypeOK /\ [Next]_vars => TypeOK'
<1> SUFFICES ASSUME TypeOK, [Next]_vars PROVE TypeOK' OBVIOUS
<1> USE DEF storeVars, callVars, Running, Serving
<1>1. CASE Emit
  <2>1. wire' \in Seq(Event) BY <1>1, OutputIsEvent DEF Emit, EmitTo, TypeOK
  <2>2. buffer' \in Seq(Event) /\ Len(buffer') <= BufferCap
    BY <1>1, OutputIsEvent, PushType DEF Emit, EmitTo, TypeOK
  <2>3. lost' \subseteq Event
    <3>1. CASE Len(buffer) = BufferCap
      <4>1. buffer # <<>> BY <3>1, EventStreamAssumption
      <4>2. Head(buffer) \in Event BY <4>1 DEF TypeOK
      <4> QED BY <1>1, <4>2 DEF Emit, EmitTo, TypeOK
    <3>2. CASE Len(buffer) # BufferCap BY <1>1, <3>2 DEF Emit, EmitTo, TypeOK
    <3> QED BY <3>1, <3>2
  <2> QED BY <1>1, <2>1, <2>2, <2>3 DEF Emit, EmitTo, TypeOK
<1>2. CASE PostStarted
  BY <1>2, NoticeIsEvent, PostType DEF PostStarted, Post, TypeOK
<1>3. CASE Started BY <1>3 DEF Started, Up, sidecarVars, TypeOK
<1>4. CASE PostTool
  BY <1>4, OutputIsEvent, PostType DEF PostTool, Post, TypeOK
<1>5. CASE Shutdown
  BY <1>5, NoticeIsEvent, PostType DEF Shutdown, Close, Post, TypeOK
<1>6. CASE Exit BY <1>6, UnreadType DEF Exit, Leave, sidecarVars, TypeOK
<1>7. CASE AgentCrash
  <2>1. PICK kept \in 0..Len(wire) :
          /\ wire' = SubSeq(wire, 1, kept)
          /\ lost' = lost \cup Elements(SubSeq(wire, kept + 1, Len(wire))) \cup Unread
    BY <1>7 DEF AgentCrash
  <2>2. SubSeq(wire, 1, kept) \in Seq(Event) BY DEF TypeOK
  <2>3. SubSeq(wire, kept + 1, Len(wire)) \in Seq(Event) BY DEF TypeOK
  <2>4. lost' \subseteq Event BY <2>1, <2>3, ElementsType, UnreadType DEF TypeOK
  <2> QED BY <1>7, <2>1, <2>2, <2>4 DEF AgentCrash, TypeOK
<1>8. CASE AgentRestart
  BY <1>8, EventStreamAssumption DEF AgentRestart, sidecarVars, TypeOK
<1>9. CASE Connect BY <1>9 DEF Connect, agentVars, TypeOK
<1>10. CASE Attach BY <1>10 DEF Attach, AttachTo, agentVars, TypeOK
<1>11. CASE NeverReady BY <1>11 DEF NeverReady, agentVars, TypeOK
<1>12. CASE ReadEvent
  <2>1. Head(wire) \in Event /\ Tail(wire) \in Seq(Event) BY <1>12 DEF ReadEvent, TypeOK
  <2> QED BY <1>12, <2>1, NumberIsMessage DEF ReadEvent, agentVars, TypeOK
<1>13. CASE StreamEnds BY <1>13 DEF StreamEnds, agentVars, TypeOK
<1>14. CASE SidecarExit BY <1>14, GoneType DEF SidecarExit, agentVars, TypeOK
<1>15. CASE SidecarCrash BY <1>15, GoneType DEF SidecarCrash, agentVars, TypeOK
<1>16. CASE SidecarRestart BY <1>16 DEF SidecarRestart, agentVars, TypeOK
<1>17. ASSUME NEW c \in calls \cup told, PublishCore(c) \/ PublishArchive(c) PROVE TypeOK'
  <2>1. c \in Message BY DEF TypeOK
  <2>2. c.seq \in Nat /\ c.ev \in Event BY <2>1 DEF Message
  <2>3. rows' \subseteq Message /\ dropped' \subseteq Message
    BY <1>17, <2>1 DEF PublishCore, PublishArchive, Persist, Unheard, TypeOK
  <2>4. /\ archive' \subseteq Message /\ window' \subseteq Nat /\ lost' \subseteq Event
    BY <1>17, <2>1, <2>2 DEF PublishCore, PublishArchive, Archive, ArchiveFails, TypeOK
  <2>5. /\ UNCHANGED <<agentVars, sidecarVars, made>>
        /\ calls' \subseteq calls \cup told /\ told' \subseteq calls \cup told
    BY <1>17 DEF PublishCore, PublishArchive
  <2>6. failures' = failures \/ (MoreFaults /\ failures' = failures + 1)
    BY <1>17 DEF PublishCore, PublishArchive, Unheard, ArchiveFails
  <2> QED BY <2>3, <2>4, <2>5, <2>6 DEF MoreFaults, agentVars, sidecarVars, TypeOK
<1>18. CASE PodReplaced
  BY <1>18, GoneType, EventStreamAssumption DEF PodReplaced, TypeOK
<1>19. CASE WindowPasses BY <1>19 DEF WindowPasses, agentVars, sidecarVars, TypeOK
<1>20. CASE UNCHANGED vars BY <1>20 DEF vars, agentVars, sidecarVars, TypeOK
<1> QED
  BY <1>1, <1>2, <1>3, <1>4, <1>5, <1>6, <1>7, <1>8, <1>9, <1>10, <1>11, <1>12, <1>13, <1>14,
     <1>15, <1>16, <1>17, <1>18, <1>19, <1>20
  DEF Next, AgentNext, SidecarNext, Publish

(* Whatever restarts and is lost, every variable keeps its type.           *)
THEOREM EventTypes == Spec => []TypeOK
<1>1. Init => TypeOK
  BY EventStreamAssumption DEF Init, TypeOK, Running, Serving
<1> QED BY <1>1, TypeStep, PTL DEF Spec

-----------------------------------------------------------------------------
(* Output waits in order.                                                  *)

LEMMA EventsNumbered == ASSUME NEW s \in Seq(Event) PROVE \A i \in DOMAIN s : s[i].n \in Nat
<1>1. \A i \in DOMAIN s : s[i] \in Event OBVIOUS
<1> QED BY <1>1 DEF Event

LEMMA WaitsLonger ==
  ASSUME NEW n \in Nat, NEW k \in Nat, n <= k, NEW s \in Seq(Event), Waits(s, n)
  PROVE  Waits(s, k)
<1> \A i \in DOMAIN s : s[i].n \in Nat BY EventsNumbered
<1> QED BY DEF Waits

LEMMA WaitsEmpty == \A n : Waits(<<>>, n)
  BY DEF Waits, Ascending

LEMMA WaitsTail ==
  ASSUME NEW n \in Nat, NEW s \in Seq(Event), s # <<>>, Waits(s, n)
  PROVE  /\ Waits(Tail(s), n)
         /\ \A i \in DOMAIN Tail(s) : i + 1 \in DOMAIN s /\ Tail(s)[i] = s[i + 1]
<1>1. /\ Tail(s) \in Seq(Event) /\ Len(Tail(s)) = Len(s) - 1
      /\ \A i \in 1..Len(Tail(s)) : Tail(s)[i] = s[i + 1]
  OBVIOUS
<1>2. \A i \in DOMAIN Tail(s) : i \in Nat /\ i + 1 \in DOMAIN s /\ Tail(s)[i] = s[i + 1]
  BY <1>1
<1> QED BY <1>2 DEF Waits, Ascending

LEMMA WaitsPrefix ==
  ASSUME NEW n \in Nat, NEW s \in Seq(Event), NEW k \in 0..Len(s), Waits(s, n)
  PROVE  /\ Waits(SubSeq(s, 1, k), n)
         /\ \A i \in DOMAIN SubSeq(s, 1, k) : i \in DOMAIN s /\ SubSeq(s, 1, k)[i] = s[i]
<1>1. /\ Len(SubSeq(s, 1, k)) = k
      /\ DOMAIN SubSeq(s, 1, k) = 1..k
      /\ \A i \in 1..k : SubSeq(s, 1, k)[i] = s[i]
  OBVIOUS
<1>2. \A i \in DOMAIN SubSeq(s, 1, k) : i \in DOMAIN s /\ SubSeq(s, 1, k)[i] = s[i]
  BY <1>1
<1> QED BY <1>2 DEF Waits, Ascending

LEMMA WaitsAppend ==
  ASSUME NEW n \in Nat, NEW s \in Seq(Event), Waits(s, n),
         NEW e \in Event, e.via = "stream", e.n = n + 1
  PROVE  /\ Waits(Append(s, e), n + 1)
         /\ \A i \in DOMAIN Append(s, e) :
              \/ i \in DOMAIN s /\ Append(s, e)[i] = s[i]
              \/ Append(s, e)[i] = e
<1>1. /\ Append(s, e) \in Seq(Event) /\ DOMAIN Append(s, e) = 1..(Len(s) + 1)
      /\ \A i \in 1..Len(s) : Append(s, e)[i] = s[i]
      /\ Append(s, e)[Len(s) + 1] = e
  OBVIOUS
<1>2. \A i \in DOMAIN s : s[i].n \in Nat BY EventsNumbered
<1>3. Ascending(Append(s, e))
  <2> SUFFICES ASSUME NEW i \in 1..(Len(s) + 1), NEW j \in 1..(Len(s) + 1), i < j
               PROVE  Append(s, e)[i].n < Append(s, e)[j].n
    BY <1>1 DEF Ascending
  <2>1. i \in DOMAIN s /\ Append(s, e)[i] = s[i] BY <1>1
  <2>2. CASE j = Len(s) + 1 BY <1>1, <1>2, <2>1, <2>2 DEF Waits
  <2>3. CASE j # Len(s) + 1
    <3>1. j \in DOMAIN s /\ Append(s, e)[j] = s[j] BY <1>1, <2>3
    <3> QED BY <2>1, <3>1 DEF Waits, Ascending
  <2> QED BY <2>2, <2>3
<1>4. \A i \in DOMAIN Append(s, e) : \/ i \in DOMAIN s /\ Append(s, e)[i] = s[i]
                                     \/ Append(s, e)[i] = e
  BY <1>1
<1> QED BY <1>2, <1>3, <1>4 DEF Waits

LEMMA WaitsPush ==
  ASSUME NEW n \in Nat, NEW s \in Seq(Event), Waits(s, n),
         NEW e \in Event, e.via = "stream", e.n = n + 1
  PROVE  Waits(Push(s, e), n + 1)
<1>1. CASE Len(s) < BufferCap BY <1>1, WaitsAppend DEF Push
<1>2. CASE ~(Len(s) < BufferCap)
  <2>1. s # <<>> BY <1>2, EventStreamAssumption
  <2>2. Tail(s) \in Seq(Event) /\ Waits(Tail(s), n) BY <2>1, WaitsTail
  <2> QED BY <1>2, <2>2, WaitsAppend DEF Push
<1> QED BY <1>1, <1>2

LEMMA WaitsStep == TypeOK /\ OutputWaits /\ [Next]_vars => OutputWaits'
<1> SUFFICES ASSUME TypeOK, OutputWaits, [Next]_vars PROVE OutputWaits' OBVIOUS
<1> made \in Nat /\ buffer \in Seq(Event) /\ wire \in Seq(Event) BY DEF TypeOK
<1> Waits(buffer, made) /\ Waits(wire, made) BY DEF OutputWaits
<1>1. CASE Emit
  <2>1. Waits(buffer', made + 1) BY <1>1, WaitsPush, OutputIsEvent DEF Emit, EmitTo
  <2>2. Waits(wire', made + 1)
    <3>1. CASE Attached BY <1>1, <3>1, WaitsAppend, OutputIsEvent DEF Emit, EmitTo
    <3>2. CASE ~Attached BY <1>1, <3>2, WaitsLonger DEF Emit, EmitTo
    <3> QED BY <3>1, <3>2
  <2> QED BY <1>1, <2>1, <2>2 DEF Emit, EmitTo, OutputWaits
<1>2. CASE PostStarted BY <1>2 DEF PostStarted, Post, OutputWaits
<1>3. CASE PostTool
  <2>1. Waits(buffer, made + 1) /\ Waits(wire, made + 1) BY WaitsLonger
  <2> QED BY <1>3, <2>1 DEF PostTool, Post, OutputWaits
<1>4. CASE Shutdown BY <1>4 DEF Shutdown, Close, Post, OutputWaits
<1>5. CASE Started \/ Exit \/ Connect \/ NeverReady \/ StreamEnds \/ SidecarRestart \/ WindowPasses
  BY <1>5 DEF Started, Up, Exit, Leave, Connect, NeverReady, StreamEnds, SidecarRestart, WindowPasses,
              agentVars, sidecarVars, OutputWaits
<1>6. CASE AgentCrash BY <1>6, WaitsPrefix DEF AgentCrash, OutputWaits
<1>7. CASE AgentRestart BY <1>7, WaitsEmpty DEF AgentRestart, sidecarVars, OutputWaits
<1>8. CASE Attach BY <1>8 DEF Attach, AttachTo, agentVars, OutputWaits
<1>9. CASE ReadEvent BY <1>9, WaitsTail DEF ReadEvent, agentVars, OutputWaits
<1>10. CASE SidecarExit \/ SidecarCrash
  BY <1>10, WaitsEmpty DEF SidecarExit, SidecarCrash, Gone, agentVars, OutputWaits
<1>11. CASE PodReplaced BY <1>11, WaitsEmpty DEF PodReplaced, Gone, OutputWaits
<1>12. ASSUME NEW c \in calls \cup told, PublishCore(c) \/ PublishArchive(c) PROVE OutputWaits'
  BY <1>12 DEF PublishCore, PublishArchive, agentVars, sidecarVars, OutputWaits
<1>13. CASE UNCHANGED vars BY <1>13 DEF vars, agentVars, sidecarVars, OutputWaits
<1> QED
  BY <1>1, <1>2, <1>3, <1>4, <1>5, <1>6, <1>7, <1>8, <1>9, <1>10, <1>11, <1>12, <1>13
  DEF Next, AgentNext, SidecarNext, Publish

-----------------------------------------------------------------------------
(* What a step does to the messages that were published.                   *)

(* Where a new message comes from: the wire, or one of the three POSTs.    *)
Relayed(e) ==
  /\ sidecar = "attached" /\ wire # <<>> /\ e = Head(wire) /\ wire' = Tail(wire)
  /\ agent' = agent /\ life' = life /\ made' = made /\ sidecar' = sidecar
Posted(e) ==
  /\ \/ e = Notice("started") /\ agent = "booting" /\ agent' = "starting" /\ made' = made
     \/ e = Notice("terminal") /\ agent = "up" /\ agent' = "closing" /\ made' = made
     \/ e = Output("tool") /\ agent' = agent /\ made' = made + 1
  /\ life' = life /\ wire' = wire /\ sidecar' = sidecar

NothingNew == Published' \subseteq Published
OneNew(e) ==
  /\ Published' \subseteq Published \cup {Number(e)}
  /\ next' = next + 1 /\ starts' = starts
  /\ Relayed(e) \/ Posted(e)

LEMMA PublishedType == TypeOK => Published \subseteq Message
  BY DEF TypeOK, Published

LEMMA PostPublishes ==
  ASSUME TypeOK, NEW e \in Event, Post(e)
  PROVE  /\ Published' \subseteq Published \cup {Number(e)}
         /\ \/ Published' \subseteq Published /\ next' = next
            \/ next' = next + 1
         /\ starts' = starts /\ life' = life /\ wire' = wire /\ sidecar' = sidecar
  BY DEF Post, Published, storeVars, callVars

LEMMA PublishedStep ==
  ASSUME TypeOK, starts >= 1, [Next]_vars
  PROVE  \/ NothingNew /\ (starts' # 1 \/ (starts' = starts /\ next' = next))
         \/ \E e \in Event : OneNew(e)
<1> USE DEF NothingNew
<1>1. CASE PostStarted
  <2>1. Notice("started") \in Event /\ Post(Notice("started"))
    BY <1>1, NoticeIsEvent DEF PostStarted
  <2> QED BY <1>1, <2>1, PostPublishes DEF PostStarted, OneNew, Posted
<1>2. CASE PostTool
  <2>1. Output("tool") \in Event /\ Post(Output("tool")) BY <1>2, OutputIsEvent DEF PostTool
  <2> QED BY <1>2, <2>1, PostPublishes DEF PostTool, OneNew, Posted
<1>3. CASE Shutdown
  <2>1. Notice("terminal") \in Event /\ Post(Notice("terminal"))
    BY <1>3, NoticeIsEvent DEF Shutdown, Close
  <2> QED BY <1>3, <2>1, PostPublishes DEF Shutdown, Close, OneNew, Posted
<1>4. CASE ReadEvent
  <2>1. Head(wire) \in Event BY <1>4 DEF ReadEvent, TypeOK
  <2>2. OneNew(Head(wire))
    BY <1>4 DEF ReadEvent, OneNew, Relayed, Published, agentVars, storeVars, callVars
  <2> QED BY <2>1, <2>2
<1>5. ASSUME NEW c \in calls \cup told, PublishCore(c) \/ PublishArchive(c)
      PROVE  NothingNew /\ starts' = starts /\ next' = next
  BY <1>5 DEF PublishCore, PublishArchive, Persist, Unheard, Archive, ArchiveFails, Published, sidecarVars
<1>6. CASE SidecarExit \/ SidecarCrash
  BY <1>6 DEF SidecarExit, SidecarCrash, Gone, Published, storeVars, callVars
<1>7. CASE SidecarRestart
  BY <1>7 DEF SidecarRestart, Published, storeVars, callVars, TypeOK
<1>8. CASE PodReplaced
  BY <1>8 DEF PodReplaced, Gone, Published, storeVars, callVars, TypeOK
<1>9. CASE Emit \/ Started \/ Exit \/ AgentCrash \/ AgentRestart \/ Connect \/ Attach \/ NeverReady
           \/ StreamEnds \/ WindowPasses
  BY <1>9 DEF Emit, EmitTo, Started, Up, Exit, Leave, AgentCrash, AgentRestart, Connect, Attach, AttachTo,
              NeverReady, StreamEnds, WindowPasses, agentVars, sidecarVars, storeVars, callVars, Published
<1>10. CASE UNCHANGED vars BY <1>10 DEF vars, sidecarVars, storeVars, callVars, Published
<1> QED
  BY <1>1, <1>2, <1>3, <1>4, <1>5, <1>6, <1>7, <1>8, <1>9, <1>10 DEF Next, AgentNext, SidecarNext, Publish

(* An agent's life goes through its stages once; a new life begins with a  *)
(* new number.                                                             *)
AgentMove ==
  /\ made' \in Nat /\ made' >= made
  /\ \/ life' = life + 1
     \/ /\ life' = life
        /\ agent' = "booting" => agent = "booting"
        /\ agent' \in {"booting", "starting", "up"} => agent \in {"booting", "starting", "up"}

LEMMA AgentStep ==
  ASSUME TypeOK, [Next]_vars
  PROVE  AgentMove
<1> made \in Nat /\ life \in Nat BY DEF TypeOK
<1> USE DEF AgentMove
<1>1. CASE Emit BY <1>1 DEF Emit, EmitTo
<1>2. CASE PostStarted \/ PostTool \/ Shutdown
  BY <1>2 DEF PostStarted, PostTool, Shutdown, Close, Post
<1>3. CASE Started \/ Exit \/ AgentCrash \/ AgentRestart
  BY <1>3 DEF Started, Up, Exit, Leave, AgentCrash, AgentRestart
<1>4. CASE SidecarNext
  BY <1>4 DEF SidecarNext, Connect, Attach, AttachTo, NeverReady, ReadEvent, StreamEnds, SidecarExit,
              SidecarCrash, SidecarRestart, Publish, PublishCore, PublishArchive, agentVars
<1>5. CASE PodReplaced BY <1>5 DEF PodReplaced
<1>6. CASE WindowPasses BY <1>6 DEF WindowPasses, agentVars
<1>7. CASE UNCHANGED vars BY <1>7 DEF vars, agentVars
<1> QED BY <1>1, <1>2, <1>3, <1>4, <1>5, <1>6, <1>7 DEF Next, AgentNext

-----------------------------------------------------------------------------
(* Numbers.                                                                *)

LEMMA PublishedMadeStep ==
  ASSUME TypeOK, starts >= 1, OutputWaits, PublishedMade, [Next]_vars
  PROVE  PublishedMade'
<1> made \in Nat /\ life \in Nat BY DEF TypeOK
<1>1. \A m \in Published : m \in Message /\ m.ev.n \in Nat /\ m.ev.life \in Nat
  BY PublishedType DEF Message, Event
<1>2. AgentMove BY AgentStep
<1>3. \A m \in Published :
        /\ m.ev.n <= made'
        /\ m.ev.via # "stream" => m.ev.life <= life'
        /\ m.ev.via = "started" /\ m.ev.life = life' => agent' # "booting"
        /\ m.ev.via = "terminal" /\ m.ev.life = life' => agent' \notin {"booting", "starting", "up"}
  BY <1>1, <1>2 DEF PublishedMade, AgentMove
<1>4. CASE NothingNew BY <1>3, <1>4 DEF NothingNew, PublishedMade
<1>5. ASSUME NEW e \in Event, OneNew(e) PROVE PublishedMade'
  <2> DEFINE m == Number(e)
  <2>1. m.ev = e BY NumberIsMessage
  <2>2. /\ e.n <= made'
        /\ e.via # "stream" => e.life <= life'
        /\ e.via = "started" /\ e.life = life' => agent' # "booting"
        /\ e.via = "terminal" /\ e.life = life' => agent' \notin {"booting", "starting", "up"}
    <3>1. CASE Relayed(e)
      <4>1. e.via = "stream" /\ e.n <= made
        BY <3>1 DEF Relayed, OutputWaits, Waits, TypeOK
      <4> QED BY <3>1, <4>1 DEF Relayed
    <3>2. CASE Posted(e) BY <3>2, NoticeIsEvent, OutputIsEvent DEF Posted
    <3> QED BY <1>5, <3>1, <3>2 DEF OneNew
  <2> HIDE DEF m
  <2> QED BY <1>3, <1>5, <2>1, <2>2 DEF OneNew, PublishedMade, m
<1> QED BY <1>4, <1>5, PublishedStep

LEMMA CounterStep ==
  ASSUME TypeOK, starts >= 1, CounterAhead, [Next]_vars
  PROVE  CounterAhead'
<1> next \in Nat /\ \A m \in Published : m.seq \in Nat
  BY PublishedType DEF TypeOK, Message
<1>1. CASE NothingNew /\ (starts' # 1 \/ (starts' = starts /\ next' = next))
  BY <1>1 DEF NothingNew, CounterAhead
<1>2. ASSUME NEW e \in Event, OneNew(e) PROVE CounterAhead'
  <2>1. Number(e).seq = next BY NumberIsMessage
  <2> QED BY <1>2, <2>1 DEF OneNew, CounterAhead
<1> QED BY <1>1, <1>2, PublishedStep

(* An event that gets a number has none yet.                               *)
LEMMA NewEventIsNew ==
  ASSUME TypeOK, starts = 1, OutputWaits, PublishedMade, WireAhead, NEW e \in Event, OneNew(e)
  PROVE  \A m \in Published : m.ev # e
<1> made \in Nat BY DEF TypeOK
<1>1. \A m \in Published : m.ev.n \in Nat BY PublishedType DEF Message, Event
<1>2. CASE Relayed(e)
  <2>1. 1 \in DOMAIN wire /\ e = wire[1] BY <1>2 DEF Relayed, TypeOK
  <2>2. e.via = "stream" BY <2>1 DEF OutputWaits, Waits
  <2> QED BY <1>1, <2>1, <2>2 DEF WireAhead
<1>3. CASE Posted(e)
  <2>1. CASE e = Notice("started") /\ agent = "booting"
    BY <2>1, NoticeIsEvent DEF PublishedMade
  <2>2. CASE e = Notice("terminal") /\ agent = "up"
    BY <2>2, NoticeIsEvent DEF PublishedMade
  <2>3. CASE e = Output("tool")
    BY <1>1, <2>3, OutputIsEvent DEF PublishedMade
  <2> QED BY <1>3, <2>1, <2>2, <2>3 DEF Posted
<1> QED BY <1>2, <1>3 DEF OneNew

LEMMA NumbersStep ==
  ASSUME TypeOK, starts >= 1, OutputWaits, PublishedMade, CounterAhead, WireAhead,
         NumbersNameEvents, [Next]_vars
  PROVE  NumbersNameEvents'
<1> next \in Nat /\ \A m \in Published : m.seq \in Nat
  BY PublishedType DEF TypeOK, Message
<1>1. CASE NothingNew /\ (starts' # 1 \/ (starts' = starts /\ next' = next))
  BY <1>1 DEF NothingNew, NumbersNameEvents
<1>2. ASSUME NEW e \in Event, OneNew(e), starts = 1 PROVE NumbersNameEvents'
  <2>1. Number(e).seq = next /\ Number(e).ev = e BY NumberIsMessage
  <2>2. \A m \in Published : m.seq # next /\ m.ev # e
    BY <1>2, NewEventIsNew DEF CounterAhead
  <2>3. \A m, k \in Published \cup {Number(e)} : m.seq = k.seq <=> m.ev = k.ev
    BY <1>2, <2>1, <2>2 DEF NumbersNameEvents
  <2> QED BY <1>2, <2>3 DEF OneNew, NumbersNameEvents
<1>3. ASSUME NEW e \in Event, OneNew(e), starts # 1 PROVE NumbersNameEvents'
  BY <1>3 DEF OneNew, NumbersNameEvents
<1> QED BY <1>1, <1>2, <1>3, PublishedStep

LEMMA TerminalStep ==
  ASSUME TypeOK, starts >= 1, OutputWaits, PublishedMade, OneTerminalEvent, [Next]_vars
  PROVE  OneTerminalEvent'
<1>1. CASE NothingNew BY <1>1 DEF NothingNew, OneTerminalEvent
<1>2. ASSUME NEW e \in Event, OneNew(e) PROVE OneTerminalEvent'
  <2>1. Number(e).ev = e BY NumberIsMessage
  <2>2. e.via = "terminal" => \A m \in Published : m.ev.via = "terminal" => m.ev.life # e.life
    <3>1. CASE Relayed(e)
      <4>1. 1 \in DOMAIN wire /\ e = wire[1] BY <3>1 DEF Relayed, TypeOK
      <4> QED BY <4>1 DEF OutputWaits, Waits
    <3>2. CASE Posted(e)
      BY <3>2, NoticeIsEvent, OutputIsEvent DEF Posted, PublishedMade
    <3> QED BY <1>2, <3>1, <3>2 DEF OneNew
  <2>3. \A m, k \in Published \cup {Number(e)} :
          m.ev.via = "terminal" /\ k.ev.via = "terminal" /\ m.ev.life = k.ev.life => m.seq = k.seq
    BY <2>1, <2>2 DEF OneTerminalEvent
  <2> QED BY <1>2, <2>3 DEF OneNew, OneTerminalEvent
<1> QED BY <1>1, <1>2, PublishedStep

LEMMA OrderStep ==
  ASSUME TypeOK, starts >= 1, OutputWaits, PublishedMade, CounterAhead, WireAhead,
         PublishedInOrder, [Next]_vars
  PROVE  PublishedInOrder'
<1> next \in Nat /\ \A m \in Published : m.seq \in Nat
  BY PublishedType DEF TypeOK, Message
<1>1. CASE NothingNew /\ (starts' # 1 \/ (starts' = starts /\ next' = next))
  BY <1>1 DEF NothingNew, PublishedInOrder
<1>2. ASSUME NEW e \in Event, OneNew(e), starts = 1 PROVE PublishedInOrder'
  <2>1. Number(e).seq = next /\ Number(e).ev = e BY NumberIsMessage
  <2>2. \A m \in Published : m.seq < next BY <1>2 DEF CounterAhead
  <2>3. e.via = "stream" => \A m \in Published : m.ev.via = "stream" => m.ev.n < e.n
    <3>1. CASE Relayed(e)
      <4>1. 1 \in DOMAIN wire /\ e = wire[1] BY <3>1 DEF Relayed, TypeOK
      <4> QED BY <1>2, <4>1 DEF WireAhead
    <3>2. CASE Posted(e) BY <3>2, NoticeIsEvent, OutputIsEvent DEF Posted
    <3> QED BY <1>2, <3>1, <3>2 DEF OneNew
  <2>4. \A m, k \in Published \cup {Number(e)} :
          m.ev.via = "stream" /\ k.ev.via = "stream" /\ m.seq < k.seq => m.ev.n < k.ev.n
    BY <1>2, <2>1, <2>2, <2>3 DEF PublishedInOrder
  <2> QED BY <1>2, <2>4 DEF OneNew, PublishedInOrder
<1>3. ASSUME NEW e \in Event, OneNew(e), starts # 1 PROVE PublishedInOrder'
  BY <1>3 DEF OneNew, PublishedInOrder
<1> QED BY <1>1, <1>2, <1>3, PublishedStep

(* What is on the wire after a step was there before, is the newest        *)
(* output, or came with the attachment; who has attached has left "waiting" *)
(* for good.                                                               *)
WireMove ==
  /\ sidecar' \in {"booting", "waiting"} => sidecar \in {"booting", "waiting"}
  /\ \/ sidecar = "waiting"
     \/ \A i \in DOMAIN wire' :
          \/ \E j \in DOMAIN wire : wire'[i] = wire[j]
          \/ wire'[i].n = made + 1

LEMMA WireStep ==
  ASSUME TypeOK, starts >= 1, OutputWaits, [Next]_vars, starts' = 1
  PROVE  WireMove
<1> made \in Nat /\ starts \in Nat /\ wire \in Seq(Event) /\ Waits(wire, made) BY DEF TypeOK, OutputWaits
<1> USE DEF WireMove
<1>1. CASE Emit
  <2>1. CASE Attached BY <1>1, <2>1, WaitsAppend, OutputIsEvent DEF Emit, EmitTo
  <2>2. CASE ~Attached BY <1>1, <2>2 DEF Emit, EmitTo
  <2> QED BY <2>1, <2>2
<1>2. CASE PostStarted \/ PostTool \/ Shutdown
  BY <1>2 DEF PostStarted, PostTool, Shutdown, Close, Post
<1>3. CASE Started \/ Exit \/ AgentRestart \/ Connect \/ NeverReady \/ StreamEnds \/ WindowPasses
  BY <1>3 DEF Started, Up, Exit, Leave, AgentRestart, Connect, NeverReady, StreamEnds, WindowPasses,
              sidecarVars
<1>4. CASE AgentCrash BY <1>4, WaitsPrefix DEF AgentCrash
<1>5. CASE Attach BY <1>5 DEF Attach, AttachTo
<1>6. CASE ReadEvent BY <1>6, WaitsTail DEF ReadEvent
<1>7. CASE SidecarExit \/ SidecarCrash BY <1>7 DEF SidecarExit, SidecarCrash, Gone
<1>8. CASE SidecarRestart \/ PodReplaced BY <1>8 DEF SidecarRestart, PodReplaced
<1>9. ASSUME NEW c \in calls \cup told, PublishCore(c) \/ PublishArchive(c) PROVE WireMove
  BY <1>9 DEF PublishCore, PublishArchive, sidecarVars
<1>10. CASE UNCHANGED vars BY <1>10 DEF vars, sidecarVars
<1> QED
  BY <1>1, <1>2, <1>3, <1>4, <1>5, <1>6, <1>7, <1>8, <1>9, <1>10 DEF Next, AgentNext, SidecarNext, Publish

LEMMA WireAheadStep ==
  ASSUME TypeOK, starts >= 1, OutputWaits, PublishedMade, WireAhead, [Next]_vars
  PROVE  WireAhead'
<1> SUFFICES ASSUME starts' = 1 PROVE WireAhead' BY DEF WireAhead
<1> made \in Nat BY DEF TypeOK
<1>1. WireMove BY WireStep
<1>2. \A m \in Published : m.ev.n \in Nat /\ m.ev.n <= made
  BY PublishedType DEF Message, Event, PublishedMade
<1>3. CASE NothingNew /\ starts' = starts
  BY <1>1, <1>2, <1>3 DEF NothingNew, WireMove, WireAhead
<1>4. ASSUME NEW e \in Event, OneNew(e) PROVE WireAhead'
  <2>1. starts = 1 BY <1>4 DEF OneNew
  <2>2. Number(e).ev = e BY NumberIsMessage
  <2>3. \A m \in Published :
          m.ev.via = "stream" =>
            /\ sidecar' \notin {"booting", "waiting"}
            /\ \A i \in DOMAIN wire' : m.ev.n < wire'[i].n
    BY <1>1, <1>2, <2>1 DEF WireMove, WireAhead
  <2>4. e.via = "stream" =>
          /\ sidecar' \notin {"booting", "waiting"}
          /\ \A i \in DOMAIN wire' : e.n < wire'[i].n
    <3>1. CASE Relayed(e)
      <4>1. wire \in Seq(Event) /\ wire # <<>> /\ Waits(wire, made)
        BY <3>1 DEF Relayed, TypeOK, OutputWaits
      <4>2. 1 \in DOMAIN wire /\ e = wire[1] BY <3>1, <4>1 DEF Relayed
      <4>3. \A i \in DOMAIN wire' : i \in Nat \ {0} /\ i + 1 \in DOMAIN wire /\ wire'[i] = wire[i + 1]
        BY <3>1, <4>1, WaitsTail DEF Relayed
      <4>4. \A i \in DOMAIN wire' : e.n < wire'[i].n
        BY <4>1, <4>2, <4>3 DEF Waits, Ascending
      <4> QED BY <3>1, <4>4 DEF Relayed
    <3>2. CASE Posted(e) BY <3>2, NoticeIsEvent, OutputIsEvent DEF Posted
    <3> QED BY <1>4, <3>1, <3>2 DEF OneNew
  <2> QED BY <1>4, <2>2, <2>3, <2>4 DEF OneNew, WireAhead
<1> QED BY <1>3, <1>4, PublishedStep

-----------------------------------------------------------------------------
(* The end.                                                                *)

LEMMA WindowStep ==
  ASSUME TypeOK, starts >= 1, WindowStored, [Next]_vars
  PROVE  WindowStored'
<1> starts \in Nat BY DEF TypeOK
<1>1. ASSUME NEW c \in calls \cup told, PublishCore(c) \/ PublishArchive(c) PROVE WindowStored'
  BY <1>1 DEF PublishCore, PublishArchive, Archive, ArchiveFails, sidecarVars, WindowStored
<1>2. CASE WindowPasses BY <1>2 DEF WindowPasses, WindowStored
<1>3. CASE SidecarRestart \/ PodReplaced
  BY <1>3 DEF SidecarRestart, PodReplaced, WindowStored
<1>4. CASE AgentNext
  BY <1>4 DEF AgentNext, Emit, EmitTo, PostStarted, Started, Up, PostTool, Shutdown, Close, Post, Exit,
              Leave, AgentCrash, AgentRestart, sidecarVars, storeVars, callVars, WindowStored
<1>5. CASE \/ Connect \/ Attach \/ NeverReady \/ ReadEvent \/ StreamEnds \/ SidecarExit \/ SidecarCrash
  BY <1>5 DEF Connect, Attach, AttachTo, NeverReady, ReadEvent, StreamEnds, SidecarExit, SidecarCrash,
              storeVars, callVars, WindowStored
<1>6. CASE UNCHANGED vars BY <1>6 DEF vars, sidecarVars, storeVars, callVars, WindowStored
<1> QED BY <1>1, <1>2, <1>3, <1>4, <1>5, <1>6 DEF Next, SidecarNext, Publish

(* A message whose number the window remembers is in the archive already:  *)
(* in the first life of the sidecar nothing else has that number.          *)
LEMMA RememberedIsArchived ==
  ASSUME starts = 1, NumbersNameEvents, WindowStored, NEW c \in calls \cup told, c.seq \in window
  PROVE  \E m \in archive : m.ev = c.ev
<1>1. PICK m \in archive : m.seq = c.seq BY DEF WindowStored
<1>2. m \in Published /\ c \in Published BY DEF Published
<1> QED BY <1>1, <1>2 DEF NumbersNameEvents

(* A call ends with its event in the archive, or lost.                     *)
LEMMA PublishTells ==
  ASSUME TypeOK, starts = 1, NumbersNameEvents, WindowStored,
         NEW c \in calls \cup told, PublishCore(c) \/ PublishArchive(c)
  PROVE  /\ \A e : Told(archive, e) => Told(archive, e)'
         /\ \A e : Told(calls \cup told \cup archive, e) => Told(calls \cup told \cup archive, e)'
<1>1. archive \subseteq archive' /\ lost \subseteq lost'
  BY DEF PublishCore, PublishArchive, Archive, ArchiveFails
<1>2. CASE PublishCore(c)
  <2>1. calls' \cup told' = calls \cup told BY <1>2 DEF PublishCore
  <2> QED BY <1>1, <2>1 DEF Told
<1>3. CASE PublishArchive(c)
  <2>1. Told(archive, c.ev)'
    <3>1. CASE Archive(c) /\ c.seq \in window BY <1>1, <3>1, RememberedIsArchived DEF Told
    <3>2. CASE Archive(c) /\ c.seq \notin window BY <3>2 DEF Archive, Told
    <3>3. CASE ArchiveFails(c) BY <3>3 DEF ArchiveFails, Told
    <3> QED BY <1>3, <3>1, <3>2, <3>3 DEF PublishArchive
  <2>2. (calls \cup told) \ {c} \subseteq calls' \cup told' BY <1>3 DEF PublishArchive
  <2> QED BY <1>1, <2>1, <2>2 DEF Told
<1> QED BY <1>2, <1>3

(* An agent that shuts down has just posted its terminal event.            *)
LEMMA PostTells ==
  ASSUME TypeOK, NEW e \in Event, Post(e)
  PROVE  /\ \A f : Told(calls \cup told \cup archive, f) => Told(calls \cup told \cup archive, f)'
         /\ Told(calls \cup told \cup archive, e)'
         /\ archive' = archive /\ lost \subseteq lost'
  BY NumberIsMessage DEF Post, Told, storeVars, callVars

LEMMA EndStep ==
  ASSUME TypeOK, starts >= 1, NumbersNameEvents, WindowStored, EndKnown, EndSettled, [Next]_vars
  PROVE  EndKnown' /\ EndSettled'
<1> starts \in Nat BY DEF TypeOK
<1> USE DEF EndKnown, EndSettled
<1>1. CASE Exit
  <2>1. SUFFICES ASSUME starts = 1, sidecar # "crashed"
                 PROVE  EndToldTo(archive)' /\ EndToldTo(calls \cup told \cup archive)'
    BY <1>1 DEF Exit, Leave, sidecarVars
  <2>2. agent = "closing" /\ ~Posting("terminal") BY <1>1 DEF Exit, Leave
  <2>3. EndToldTo(archive) BY <2>1, <2>2 DEF EndToldTo, Told, Posting
  <2> QED BY <1>1, <2>3 DEF Exit, Leave, storeVars, callVars, EndToldTo, Told
<1>2. CASE Shutdown
  <2>1. Notice("terminal") \in Event /\ Post(Notice("terminal")) BY <1>2, NoticeIsEvent DEF Shutdown, Close
  <2>2. EndToldTo(calls \cup told \cup archive)'
    BY <2>1, PostTells, NoticeIsEvent DEF EndToldTo, Post
  <2> QED BY <1>2, <2>2 DEF Shutdown, Close
<1>3. CASE PostStarted \/ PostTool \/ Started \/ AgentCrash \/ AgentRestart
  BY <1>3 DEF PostStarted, PostTool, Started, Up, AgentCrash, AgentRestart
<1>4. CASE Emit \/ Connect \/ Attach \/ NeverReady \/ ReadEvent \/ StreamEnds \/ WindowPasses
  <2>1. /\ calls \subseteq calls' /\ told' = told /\ archive' = archive /\ lost \subseteq lost'
        /\ agent' = agent /\ life' = life /\ starts' = starts
        /\ sidecar' # "crashed" => sidecar # "crashed"
    BY <1>4 DEF Emit, EmitTo, Connect, Attach, AttachTo, NeverReady, ReadEvent, StreamEnds, WindowPasses,
                agentVars, sidecarVars, storeVars, callVars
  <2> QED BY <2>1 DEF EndToldTo, Told
<1>5. CASE SidecarExit
  <2>1. /\ {c.ev : c \in calls \cup told} \cup lost \subseteq lost' /\ archive' = archive
        /\ agent' = agent /\ life' = life /\ starts' = starts /\ sidecar # "crashed"
    BY <1>5 DEF SidecarExit, Gone, agentVars, storeVars, callVars
  <2> QED BY <2>1 DEF EndToldTo, Told
<1>6. CASE SidecarCrash \/ SidecarRestart \/ PodReplaced
  BY <1>6 DEF SidecarCrash, SidecarRestart, PodReplaced, Gone
<1>7. ASSUME NEW c \in calls \cup told, PublishCore(c) \/ PublishArchive(c) PROVE EndKnown' /\ EndSettled'
  <2>1. agent' = agent /\ life' = life /\ sidecar' = sidecar /\ starts' = starts
    BY <1>7 DEF PublishCore, PublishArchive, agentVars, sidecarVars
  <2>2. SUFFICES ASSUME starts = 1
                 PROVE  /\ EndToldTo(archive) => EndToldTo(archive)'
                        /\ EndToldTo(calls \cup told \cup archive) => EndToldTo(calls \cup told \cup archive)'
    BY <2>1
  <2> QED BY <1>7, <2>1, <2>2, PublishTells DEF EndToldTo
<1>8. CASE UNCHANGED vars BY <1>8 DEF vars, agentVars, sidecarVars, storeVars, callVars, EndToldTo, Told
<1> QED
  BY <1>1, <1>2, <1>3, <1>4, <1>5, <1>6, <1>7, <1>8 DEF Next, AgentNext, SidecarNext, Publish

-----------------------------------------------------------------------------
(* The invariant and what follows.                                         *)

LEMMA StartsStep == ASSUME TypeOK, starts >= 1, [Next]_vars PROVE starts' >= 1
<1> starts \in Nat BY DEF TypeOK
<1>1. starts' = starts \/ starts' = starts + 1
  BY DEF Next, AgentNext, SidecarNext, Emit, EmitTo, PostStarted, Started, Up, PostTool, Shutdown, Close, Post,
         Exit, Leave, AgentCrash, AgentRestart, Connect, Attach, AttachTo, NeverReady, ReadEvent,
         StreamEnds, SidecarExit, SidecarCrash, SidecarRestart, Publish, PublishCore, PublishArchive, PodReplaced, WindowPasses,
         vars, sidecarVars
<1> QED BY <1>1

THEOREM EventInvariant == Spec => []EInv
<1>1. Init => EInv
  <2> SUFFICES ASSUME Init PROVE EInv OBVIOUS
  <2>1. TypeOK BY EventStreamAssumption DEF Init, TypeOK, Running, Serving
  <2>2. OutputWaits BY WaitsEmpty DEF Init, OutputWaits
  <2>3. Published = {} BY DEF Init, Published
  <2>4. EndKnown /\ EndSettled /\ WindowStored BY DEF Init, EndKnown, EndSettled, WindowStored
  <2> QED
    BY <2>1, <2>2, <2>3, <2>4
    DEF Init, EInv, PublishedMade, CounterAhead, WireAhead, PublishedInOrder, NumbersNameEvents,
        OneTerminalEvent
<1>2. EInv /\ [Next]_vars => EInv'
  BY TypeStep, StartsStep, WaitsStep, PublishedMadeStep, CounterStep, NumbersStep, TerminalStep, OrderStep,
     WireAheadStep, WindowStep, EndStep
  DEF EInv
<1> QED BY <1>1, <1>2, PTL DEF Spec

(* While the sidecar has not restarted a number names one event and an     *)
(* event has one number, for any number of publishers in flight.           *)
THEOREM NumbersIdentify == Spec => []NumbersNameEvents
<1>1. EInv => NumbersNameEvents BY DEF EInv
<1> QED BY <1>1, EventInvariant, PTL

(* Stored output is numbered in the order it was emitted.                  *)
THEOREM OutputOrdered == Spec => []OutputInOrder
<1>1. EInv => OutputInOrder BY DEF EInv, PublishedInOrder, OutputInOrder, Published
<1> QED BY <1>1, EventInvariant, PTL

(* One life of an agent ends once, whatever restarts.                      *)
THEOREM EndsOnce == Spec => []OneTerminalEvent
<1>1. EInv => OneTerminalEvent BY DEF EInv
<1> QED BY <1>1, EventInvariant, PTL

(* An agent that shut itself down has its end archived, or lost to a       *)
(* fault, before it exits.                                                 *)
THEOREM EndAnnounced == Spec => []EndIsAnnounced
<1>1. EInv => EndIsAnnounced
  BY DEF EInv, EndSettled, EndToldTo, Told, EndIsAnnounced, FirstPod
<1> QED BY <1>1, EventInvariant, PTL

-----------------------------------------------------------------------------
(* Nothing vanishes.                                                       *)

(* In the first pod the sidecar reads the stream of the agent that runs    *)
(* and leaves only after it.                                               *)
PodSteady ==
  /\ life >= 1
  /\ FirstPod =>
       /\ sidecar = "attached" => conn = life
       /\ sidecar \in {"winding", "done"} => agent \notin Running

(* Where the output of the first pod may be.                               *)
Known == Waiting \cup {m.ev : m \in calls \cup told \cup archive} \cup lost

(* Taking the head of a sequence, appending to it and cutting it in two    *)
(* lose no element.                                                        *)
LEMMA ElementsHead ==
  ASSUME NEW s \in Seq(Event), s # <<>>
  PROVE  Elements(s) \subseteq {Head(s)} \cup Elements(Tail(s))
<1> SUFFICES ASSUME NEW i \in DOMAIN s PROVE s[i] \in {Head(s)} \cup Elements(Tail(s))
  BY DEF Elements
<1>1. CASE i = 1 BY <1>1
<1>2. CASE i # 1
  <2>1. i - 1 \in DOMAIN Tail(s) /\ Tail(s)[i - 1] = s[i] BY <1>2
  <2> QED BY <2>1 DEF Elements
<1> QED BY <1>1, <1>2

LEMMA ElementsAppend ==
  ASSUME NEW s \in Seq(Event), NEW e \in Event
  PROVE  Elements(s) \cup {e} \subseteq Elements(Append(s, e))
<1>1. /\ DOMAIN Append(s, e) = 1..(Len(s) + 1)
      /\ \A i \in DOMAIN s : i \in 1..(Len(s) + 1) /\ Append(s, e)[i] = s[i]
      /\ Append(s, e)[Len(s) + 1] = e /\ Len(s) + 1 \in 1..(Len(s) + 1)
  OBVIOUS
<1> QED BY <1>1 DEF Elements

LEMMA ElementsPush ==
  ASSUME NEW s \in Seq(Event), Len(s) <= BufferCap, NEW e \in Event
  PROVE  /\ e \in Elements(Push(s, e))
         /\ Elements(s) \subseteq
              Elements(Push(s, e)) \cup (IF Len(s) = BufferCap THEN {Head(s)} ELSE {})
<1>0. BufferCap \in Nat \ {0} BY EventStreamAssumption
<1>1. CASE Len(s) < BufferCap BY <1>0, <1>1, ElementsAppend DEF Push
<1>2. CASE ~(Len(s) < BufferCap)
  <2>1. Len(s) = BufferCap /\ s # <<>> BY <1>0, <1>2
  <2>2. Tail(s) \in Seq(Event) /\ Push(s, e) = Append(Tail(s), e) BY <1>2, <2>1 DEF Push
  <2>3. Elements(Tail(s)) \cup {e} \subseteq Elements(Push(s, e)) BY <2>2, ElementsAppend
  <2> QED BY <2>1, <2>3, ElementsHead
<1> QED BY <1>1, <1>2

LEMMA ElementsCut ==
  ASSUME NEW s \in Seq(Event), NEW k \in 0..Len(s)
  PROVE  Elements(s) \subseteq Elements(SubSeq(s, 1, k)) \cup Elements(SubSeq(s, k + 1, Len(s)))
<1> SUFFICES ASSUME NEW i \in DOMAIN s
             PROVE  s[i] \in Elements(SubSeq(s, 1, k)) \cup Elements(SubSeq(s, k + 1, Len(s)))
  BY DEF Elements
<1>1. CASE i <= k
  <2>1. i \in DOMAIN SubSeq(s, 1, k) /\ SubSeq(s, 1, k)[i] = s[i] BY <1>1
  <2> QED BY <2>1 DEF Elements
<1>2. CASE i > k
  <2> DEFINE rest == SubSeq(s, k + 1, Len(s))
  <2>a. Len(s) \in Nat /\ k \in Nat /\ k < Len(s) BY <1>2
  <2>b. \A j \in (k + 1)..Len(s) : s[j] \in Event BY <2>a
  <2>c. /\ Len(rest) = IF k + 1 <= Len(s) THEN Len(s) - (k + 1) + 1 ELSE 0
        /\ \A j \in 1..(Len(s) - (k + 1) + 1) : rest[j] = s[(k + 1) + j - 1]
        /\ rest \in Seq(Event)
    BY <2>a, <2>b, SubSeqProperties
  <2>d. /\ Len(s) - (k + 1) + 1 = Len(s) - k
        /\ \A j \in 1..(Len(s) - k) : (k + 1) + j - 1 = k + j
    BY <2>a
  <2>1. Len(rest) = Len(s) - k /\ \A j \in 1..(Len(s) - k) : rest[j] = s[k + j]
    BY <2>a, <2>c, <2>d
  <2>2. i - k \in 1..(Len(s) - k) /\ k + (i - k) = i BY <1>2
  <2>3. DOMAIN rest = 1..(Len(s) - k) BY <2>1
  <2>4. i - k \in DOMAIN rest /\ rest[i - k] = s[i] BY <2>1, <2>2, <2>3
  <2> QED BY <2>4 DEF Elements
<1> QED BY <1>1, <1>2

(* A pod that was replaced, or whose sidecar crashed or went deaf, does    *)
(* not become the first pod again.                                         *)
LEMMA FirstPodBefore ==
  ASSUME TypeOK, starts >= 1, life >= 1, [Next]_vars
  PROVE  /\ life' >= 1
         /\ FirstPod' => FirstPod /\ life' = life /\ starts' = starts
<1> life \in Nat /\ starts \in Nat BY DEF TypeOK
<1> USE DEF FirstPod
<1>1. CASE Emit \/ PostStarted \/ PostTool \/ Shutdown \/ Started \/ Exit \/ AgentCrash
  BY <1>1 DEF Emit, EmitTo, PostStarted, PostTool, Shutdown, Close, Post, Started, Up, Exit, Leave,
              AgentCrash, sidecarVars
<1>2. CASE AgentRestart \/ SidecarRestart \/ PodReplaced
  BY <1>2 DEF AgentRestart, SidecarRestart, PodReplaced, Gone, sidecarVars, agentVars
<1>3. CASE Connect \/ Attach \/ NeverReady \/ ReadEvent \/ StreamEnds \/ WindowPasses
  BY <1>3 DEF Connect, Attach, AttachTo, NeverReady, ReadEvent, StreamEnds, WindowPasses, agentVars,
              sidecarVars
<1>4. CASE SidecarExit \/ SidecarCrash BY <1>4 DEF SidecarExit, SidecarCrash, Gone, agentVars
<1>5. ASSUME NEW c \in calls \cup told, PublishCore(c) \/ PublishArchive(c)
      PROVE  UNCHANGED <<life, starts, sidecar>>
  BY <1>5 DEF PublishCore, PublishArchive, agentVars, sidecarVars
<1>6. CASE UNCHANGED vars BY <1>6 DEF vars, agentVars, sidecarVars
<1> QED BY <1>1, <1>2, <1>3, <1>4, <1>5, <1>6 DEF Next, AgentNext, SidecarNext, Publish

(* The sidecar of the first pod stays with its agent to the end.           *)
LEMMA SteadyStep == TypeOK /\ starts >= 1 /\ PodSteady /\ [Next]_vars => PodSteady'
<1> SUFFICES ASSUME TypeOK, starts >= 1, PodSteady, [Next]_vars PROVE PodSteady' OBVIOUS
<1>0. life' >= 1 /\ (FirstPod' => FirstPod /\ life' = life)
  BY FirstPodBefore DEF PodSteady
<1>1. SUFFICES ASSUME FirstPod, FirstPod', life' = life
               PROVE  /\ sidecar' = "attached" => conn' = life'
                      /\ sidecar' \in {"winding", "done"} => agent' \notin Running
  BY <1>0 DEF PodSteady
<1>2. /\ sidecar = "attached" => conn = life
      /\ sidecar \in {"winding", "done"} => agent \notin Running
  BY <1>1 DEF PodSteady
<1> USE DEF FirstPod, Running
<1>3. CASE Emit \/ PostStarted \/ PostTool \/ Shutdown \/ Started \/ Exit \/ AgentCrash
  BY <1>1, <1>2, <1>3 DEF Emit, EmitTo, PostStarted, PostTool, Shutdown, Close, Post, Started, Up, Exit,
     Leave, AgentCrash, sidecarVars
<1>4. CASE AgentRestart \/ SidecarRestart \/ PodReplaced
  BY <1>1, <1>4 DEF AgentRestart, SidecarRestart, PodReplaced, TypeOK
<1>5. CASE Connect \/ Attach \/ NeverReady \/ ReadEvent \/ StreamEnds \/ WindowPasses
  BY <1>1, <1>2, <1>5 DEF Connect, Attach, AttachTo, NeverReady, ReadEvent, StreamEnds, WindowPasses,
     agentVars, sidecarVars
<1>6. CASE SidecarExit \/ SidecarCrash
  BY <1>1, <1>2, <1>6 DEF SidecarExit, SidecarCrash, Gone, agentVars
<1>7. ASSUME NEW c \in calls \cup told, PublishCore(c) \/ PublishArchive(c)
      PROVE  UNCHANGED <<agent, conn, sidecar>>
  BY <1>7 DEF PublishCore, PublishArchive, agentVars, sidecarVars
<1>8. CASE UNCHANGED vars BY <1>2, <1>8 DEF vars, agentVars, sidecarVars
<1> QED
  BY <1>1, <1>2, <1>3, <1>4, <1>5, <1>6, <1>7, <1>8 DEF Next, AgentNext, SidecarNext, Publish

(* In the first pod no step makes output unknown, and output that is made  *)
(* is known.                                                               *)
LEMMA KnownStep ==
  ASSUME EInv, PodSteady, [Next]_vars, FirstPod, FirstPod'
  PROVE  /\ Known \subseteq Known'
         /\ made' = made \/ (made' = made + 1 /\ \E e \in Known' : e.n = made + 1)
<1> TypeOK BY DEF EInv
<1>0. /\ buffer \in Seq(Event) /\ wire \in Seq(Event) /\ Len(buffer) <= BufferCap
      /\ calls \cup told \cup archive \subseteq Message
  BY DEF TypeOK
<1> USE DEF Known, FirstPod
<1>1. CASE Emit
  <2>1. sidecar \in {"booting", "waiting", "attached"}
    BY <1>1 DEF Emit, EmitTo, PodSteady, Running, TypeOK, Serving
  <2>2. Output("stream") \in Event /\ Output("stream").n = made + 1 BY OutputIsEvent
  <2>3. UNCHANGED <<sidecar, calls, told, archive>>
    BY <1>1 DEF Emit, EmitTo, callVars, storeVars
  <2>4. CASE sidecar = "attached"
    <3>1. Attached BY <2>4 DEF Attached, PodSteady
    <3>2. wire' = Append(wire, Output("stream")) /\ lost' = lost BY <1>1, <3>1 DEF Emit, EmitTo
    <3>3. Elements(wire) \cup {Output("stream")} \subseteq Elements(wire')
      BY <1>0, <2>2, <3>2, ElementsAppend
    <3>4. made' = made + 1 BY <1>1 DEF Emit, EmitTo
    <3> QED BY <2>2, <2>3, <2>4, <3>2, <3>3, <3>4 DEF Waiting
  <2>5. CASE sidecar \in {"booting", "waiting"}
    <3>1. ~Attached BY <2>5 DEF Attached
    <3>2. /\ buffer' = Push(buffer, Output("stream")) /\ made' = made + 1
          /\ lost' = IF Len(buffer) = BufferCap THEN lost \cup {Head(buffer)} ELSE lost
      BY <1>1, <3>1 DEF Emit, EmitTo
    <3>3. /\ Output("stream") \in Elements(buffer')
          /\ Elements(buffer) \subseteq Elements(buffer') \cup lost'
      BY <1>0, <2>2, <3>2, ElementsPush
    <3> QED BY <2>2, <2>3, <2>5, <3>2, <3>3 DEF Waiting
  <2> QED BY <2>1, <2>4, <2>5
<1>2. ASSUME NEW e \in Event, Post(e)
      PROVE  Known \subseteq Known' /\ e \in Known'
  <2>1. UNCHANGED <<sidecar, buffer, wire, told, archive>> BY <1>2 DEF Post, storeVars
  <2>2. \/ calls' = calls \cup {Number(e)} /\ lost' = lost
        \/ lost' = lost \cup {e} /\ calls' = calls
    BY <1>2 DEF Post
  <2>3. Number(e).ev = e BY NumberIsMessage
  <2> QED BY <2>1, <2>2, <2>3 DEF Waiting
<1>3. CASE PostStarted \/ Shutdown
  BY <1>2, <1>3, NoticeIsEvent DEF PostStarted, Shutdown, Close
<1>4. CASE PostTool
  BY <1>2, <1>4, OutputIsEvent DEF PostTool
<1>5. CASE Started \/ Connect \/ NeverReady \/ StreamEnds \/ WindowPasses
  BY <1>5 DEF Started, Up, Connect, NeverReady, StreamEnds, WindowPasses, agentVars, sidecarVars, callVars,
              storeVars, Waiting
<1>6. CASE Exit
  BY <1>6 DEF Exit, Leave, sidecarVars, callVars, storeVars, Waiting
<1>7. CASE AgentCrash
  <2>1. PICK k \in 0..Len(wire) :
          /\ wire' = SubSeq(wire, 1, k)
          /\ lost' = lost \cup Elements(SubSeq(wire, k + 1, Len(wire))) \cup Unread
    BY <1>7 DEF AgentCrash
  <2>2. Elements(wire) \subseteq Elements(wire') \cup lost' BY <1>0, <2>1, ElementsCut
  <2>3. lost \subseteq lost' BY <2>1
  <2>4. UNCHANGED <<sidecar, buffer, made, calls, told, archive>>
    BY <1>7 DEF AgentCrash, callVars, storeVars
  <2> QED BY <2>2, <2>3, <2>4 DEF Waiting
<1>8. CASE Attach
  <2>1. sidecar = "waiting" /\ sidecar' = "attached" /\ wire' = buffer BY <1>8 DEF Attach, AttachTo
  <2>2. UNCHANGED <<made, calls, told, archive, lost>>
    BY <1>8 DEF Attach, AttachTo, callVars, storeVars
  <2> QED BY <2>1, <2>2 DEF Waiting
<1>9. CASE ReadEvent
  <2>1. wire # <<>> /\ wire' = Tail(wire) /\ calls' = calls \cup {Number(Head(wire))}
    BY <1>9 DEF ReadEvent
  <2>2. Head(wire) \in Event /\ Number(Head(wire)).ev = Head(wire) BY <1>0, <2>1, NumberIsMessage
  <2>3. Elements(wire) \subseteq {Head(wire)} \cup Elements(wire') BY <1>0, <2>1, ElementsHead
  <2>4. UNCHANGED <<sidecar, made, told, archive, lost>> /\ sidecar = "attached"
    BY <1>9 DEF ReadEvent, storeVars
  <2> QED BY <2>1, <2>2, <2>3, <2>4 DEF Waiting
<1>10. CASE SidecarExit
  <2>1. sidecar = "winding" /\ sidecar' = "done" BY <1>10 DEF SidecarExit, Gone
  <2>2. lost' = lost \cup Elements(wire) \cup {c.ev : c \in calls \cup told}
    BY <1>10 DEF SidecarExit, Gone
  <2>3. UNCHANGED <<made, archive>> BY <1>10 DEF SidecarExit, storeVars
  <2> QED BY <2>1, <2>2, <2>3 DEF Waiting
<1>11. CASE SidecarCrash \/ AgentRestart \/ SidecarRestart \/ PodReplaced
  BY <1>11, FirstPodBefore DEF SidecarCrash, Gone, AgentRestart, SidecarRestart, PodReplaced, PodSteady,
     EInv, TypeOK
<1>12. ASSUME NEW c \in calls \cup told, PublishCore(c) \/ PublishArchive(c)
       PROVE  Known \subseteq Known' /\ made' = made
  <2>1. \A e : Told(calls \cup told \cup archive, e) => Told(calls \cup told \cup archive, e)'
    BY <1>12, PublishTells DEF EInv
  <2>2. UNCHANGED <<made, sidecar, buffer, wire>>
    BY <1>12 DEF PublishCore, PublishArchive, agentVars, sidecarVars
  <2> QED BY <2>1, <2>2 DEF Told, Waiting
<1>13. CASE UNCHANGED vars
  BY <1>13 DEF vars, agentVars, sidecarVars, callVars, storeVars, Waiting
<1> QED
  BY <1>1, <1>3, <1>4, <1>5, <1>6, <1>7, <1>8, <1>9, <1>10, <1>11, <1>12, <1>13
  DEF Next, AgentNext, SidecarNext, Publish

(* While neither container was restarted no output is ever nowhere.        *)
THEOREM OutputNeverVanishes == Spec => []NothingVanishes
<1>1. Init => PodSteady /\ NothingVanishes
  BY DEF Init, PodSteady, NothingVanishes
<1>2. EInv /\ PodSteady /\ NothingVanishes /\ [Next]_vars => PodSteady' /\ NothingVanishes'
  <2> SUFFICES ASSUME EInv, PodSteady, NothingVanishes, [Next]_vars
               PROVE  PodSteady' /\ NothingVanishes'
    OBVIOUS
  <2>1. PodSteady' BY SteadyStep DEF EInv
  <2>2. ASSUME FirstPod' PROVE \A n \in 1..made' : \E e \in Known' : e.n = n
    <3>1. FirstPod BY <2>2, FirstPodBefore DEF EInv, PodSteady
    <3>2. made \in Nat /\ \A n \in 1..made : \E e \in Known : e.n = n
      BY <3>1 DEF EInv, TypeOK, NothingVanishes, Known
    <3> QED BY <2>2, <3>1, <3>2, KnownStep
  <2> QED BY <2>1, <2>2 DEF NothingVanishes, Known
<1> QED BY <1>1, <1>2, EventInvariant, PTL DEF Spec

-----------------------------------------------------------------------------
(* What the api hears of the pod.                                          *)

(* A report on its way is the only one of its kind and life; the start is  *)
(* on its way only while the agent waits for the answer, or crashed while  *)
(* it did; so that it never is together with the end.                      *)
Pending == calls \cup told
IsReport(m) == m.ev.via \in {"started", "terminal"}
ReportOf(m) == [life |-> m.ev.life, what |-> m.ev.via]
ReportsKnown ==
  /\ \A m, k \in Pending : IsReport(m) /\ k.ev.via = m.ev.via /\ k.ev.life = m.ev.life => m = k
  /\ \A m \in Pending :
       m.ev.via = "started" /\ m.ev.life = life => agent \in {"starting", "crashed"}
  /\ \A m, k \in Pending :
       m.ev.via = "terminal" /\ k.ev.via = "started" => m.ev.life # k.ev.life

(* What a step does to the calls under way.                                *)
LEMMA PendingStep ==
  ASSUME TypeOK, [Next]_vars
  PROVE  \/ Pending' \subseteq Pending
         \/ \E e \in Event : Pending' \subseteq Pending \cup {Number(e)} /\ (Relayed(e) \/ Posted(e))
<1> USE DEF Pending
<1>1. CASE PostStarted
  <2>1. Notice("started") \in Event BY NoticeIsEvent
  <2>2. Pending' \subseteq Pending \cup {Number(Notice("started"))} /\ Posted(Notice("started"))
    BY <1>1 DEF PostStarted, Post, Posted
  <2> QED BY <2>1, <2>2
<1>2. CASE Shutdown
  <2>1. Notice("terminal") \in Event BY NoticeIsEvent
  <2>2. Pending' \subseteq Pending \cup {Number(Notice("terminal"))} /\ Posted(Notice("terminal"))
    BY <1>2 DEF Shutdown, Close, Post, Posted
  <2> QED BY <2>1, <2>2
<1>3. CASE PostTool
  <2>1. Output("tool") \in Event BY OutputIsEvent
  <2>2. Pending' \subseteq Pending \cup {Number(Output("tool"))} /\ Posted(Output("tool"))
    BY <1>3 DEF PostTool, Post, Posted
  <2> QED BY <2>1, <2>2
<1>4. CASE ReadEvent
  <2>1. Head(wire) \in Event BY <1>4 DEF ReadEvent, TypeOK
  <2>2. Pending' \subseteq Pending \cup {Number(Head(wire))} /\ Relayed(Head(wire))
    BY <1>4 DEF ReadEvent, Relayed, agentVars
  <2> QED BY <2>1, <2>2
<1>5. ASSUME NEW c \in calls \cup told, PublishCore(c) \/ PublishArchive(c)
      PROVE  Pending' \subseteq Pending
  BY <1>5 DEF PublishCore, PublishArchive
<1>6. CASE SidecarExit \/ SidecarCrash \/ PodReplaced
  BY <1>6 DEF SidecarExit, SidecarCrash, PodReplaced, Gone
<1>7. CASE \/ Emit \/ Started \/ Exit \/ AgentCrash \/ AgentRestart \/ Connect \/ Attach
           \/ NeverReady \/ StreamEnds \/ SidecarRestart \/ WindowPasses \/ UNCHANGED vars
  BY <1>7 DEF Emit, EmitTo, Started, Up, Exit, Leave, AgentCrash, AgentRestart, Connect, Attach,
              AttachTo, NeverReady, StreamEnds, SidecarRestart, WindowPasses, callVars, vars
<1> QED
  BY <1>1, <1>2, <1>3, <1>4, <1>5, <1>6, <1>7 DEF Next, AgentNext, SidecarNext, Publish

(* An agent whose start is on its way does not go on before it is told.    *)
LEMMA StartAwaited ==
  ASSUME [Next]_vars, life' = life, life \in Nat, Posting("started"),
         agent \in {"starting", "crashed"}
  PROVE  agent' \in {"starting", "crashed"}
BY DEF Next, AgentNext, SidecarNext, Emit, EmitTo, PostStarted, Started, Up, PostTool, Shutdown, Close,
       Post, Exit, Leave, AgentCrash, AgentRestart, Connect, Attach, AttachTo, NeverReady, ReadEvent,
       StreamEnds, SidecarExit, SidecarCrash, SidecarRestart, Publish, PublishCore, PublishArchive,
       PodReplaced, WindowPasses, vars, agentVars

LEMMA ReportsStep ==
  ASSUME EInv, ReportsKnown, [Next]_vars
  PROVE  ReportsKnown'
<1>0. TypeOK /\ life \in Nat /\ PublishedMade /\ OutputWaits BY DEF EInv, TypeOK
<1>1. \A m \in Pending : m.ev.life \in Nat /\ (IsReport(m) => m.ev.life <= life)
  <2>1. \A m \in Pending : m \in Message /\ m \in Published BY <1>0 DEF TypeOK, Pending, Published
  <2> QED BY <1>0, <2>1 DEF Message, Event, PublishedMade, IsReport
<1>2. life' = life \/ life' = life + 1 BY <1>0, AgentStep DEF AgentMove
<1>3. \A m \in Pending :
        m.ev.via = "started" /\ m.ev.life = life' => agent' \in {"starting", "crashed"}
  <2> SUFFICES ASSUME NEW m \in Pending, m.ev.via = "started", m.ev.life = life'
               PROVE  agent' \in {"starting", "crashed"}
    OBVIOUS
  <2>1. life' = life BY <1>0, <1>1, <1>2 DEF IsReport
  <2>2. Posting("started") BY <2>1 DEF Pending, Posting
  <2>3. agent \in {"starting", "crashed"} BY <2>1 DEF ReportsKnown
  <2> QED BY <1>0, <2>1, <2>2, <2>3, StartAwaited
<1>4. CASE Pending' \subseteq Pending
  BY <1>3, <1>4 DEF ReportsKnown
<1>5. ASSUME NEW e \in Event, Pending' \subseteq Pending \cup {Number(e)}, Relayed(e) \/ Posted(e)
      PROVE  ReportsKnown'
  <2> DEFINE m == Number(e)
  <2>1. m.ev = e BY <1>0, NumberIsMessage
  <2>2. \/ e.via \notin {"started", "terminal"}
        \/ e = Notice("started") /\ agent = "booting" /\ agent' = "starting" /\ life' = life
        \/ e = Notice("terminal") /\ agent = "up" /\ agent' = "closing" /\ life' = life
    <3>1. CASE Relayed(e)
      <4>1. 1 \in DOMAIN wire /\ e = wire[1] BY <1>0, <3>1 DEF Relayed, TypeOK
      <4> QED BY <1>0, <4>1 DEF OutputWaits, Waits
    <3>2. CASE Posted(e) BY <1>0, <3>2, OutputIsEvent DEF Posted
    <3> QED BY <1>5, <3>1, <3>2
  <2>3. e = Notice("started") \/ e = Notice("terminal") => e.life = life
    BY <1>0, NoticeIsEvent
  <2>4. Notice("started").via = "started" /\ Notice("terminal").via = "terminal"
    BY <1>0, NoticeIsEvent
  <2>5. \A k \in Pending :
          k.ev.life = life =>
            /\ agent = "booting" => ~IsReport(k)
            /\ agent = "up" => ~IsReport(k)
    BY <1>0 DEF PublishedMade, Published, Pending, IsReport, ReportsKnown
  <2> HIDE DEF m
  <2>6. \A k \in Pending : IsReport(m) => ~IsReport(k) \/ k.ev.life # m.ev.life
    BY <2>1, <2>2, <2>3, <2>5 DEF IsReport
  <2>7. m.ev.via = "started" => agent' = "starting"
    BY <2>1, <2>2, <2>4
  <2>8. \A k, l \in Pending \cup {m} :
          /\ IsReport(k) /\ l.ev.via = k.ev.via /\ l.ev.life = k.ev.life => k = l
          /\ k.ev.via = "terminal" /\ l.ev.via = "started" => k.ev.life # l.ev.life
    BY <2>6 DEF ReportsKnown, IsReport
  <2>9. \A k \in Pending \cup {m} :
          k.ev.via = "started" /\ k.ev.life = life' => agent' \in {"starting", "crashed"}
    BY <1>3, <2>7
  <2> QED BY <1>5, <2>8, <2>9 DEF ReportsKnown, IsReport, m
<1> QED BY <1>0, <1>4, <1>5, PendingStep

(* The reports in a set of messages, when it grows and shrinks.            *)
LEMMA ReportsAre ==
  ASSUME NEW S
  PROVE  \A r : r \in ReportsIn(S) <=> \E m \in S : IsReport(m) /\ r = ReportOf(m)
BY DEF ReportsIn, IsReport, ReportOf

LEMMA ReportsMore ==
  ASSUME NEW S, NEW m
  PROVE  /\ IsReport(m) => ReportsIn(S \cup {m}) = ReportsIn(S) \cup {ReportOf(m)}
         /\ ~IsReport(m) => ReportsIn(S \cup {m}) = ReportsIn(S)
<1>1. \A r : r \in ReportsIn(S \cup {m}) <=> r \in ReportsIn(S) \/ (IsReport(m) /\ r = ReportOf(m))
  BY ReportsAre
<1> QED BY <1>1

LEMMA ReportsLess ==
  ASSUME ReportsKnown, NEW m \in calls
  PROVE  /\ IsReport(m) => ReportsIn(calls \ {m}) = ReportsIn(calls) \ {ReportOf(m)}
         /\ IsReport(m) => ReportOf(m) \in ReportsIn(calls)
         /\ ~IsReport(m) => ReportsIn(calls \ {m}) = ReportsIn(calls)
<1>1. \A k \in calls : IsReport(m) /\ ReportOf(k) = ReportOf(m) => k = m
  <2> SUFFICES ASSUME NEW k \in calls, IsReport(m), ReportOf(k) = ReportOf(m) PROVE k = m
    OBVIOUS
  <2>1. ReportOf(k).life = ReportOf(m).life /\ ReportOf(k).what = ReportOf(m).what OBVIOUS
  <2>2. k.ev.life = m.ev.life /\ k.ev.via = m.ev.via BY <2>1 DEF ReportOf
  <2> QED BY <2>2 DEF ReportsKnown, Pending
<1>2. \A r : r \in ReportsIn(calls \ {m}) <=> \E k \in calls : k # m /\ IsReport(k) /\ r = ReportOf(k)
  BY ReportsAre
<1>3. \A r : r \in ReportsIn(calls) <=> \E k \in calls : IsReport(k) /\ r = ReportOf(k)
  BY ReportsAre
<1> QED BY <1>1, <1>2, <1>3

(* Every step of the pod is a step of AgentReports, or none.               *)
LEMMA StepReports ==
  ASSUME EInv, ReportsKnown, [Next]_vars
  PROVE  [Heard!Next]_(Heard!vars)
<1>0. TypeOK BY DEF EInv
<1>s. ASSUME life' = life, Word' = Word, ReportsIn(calls)' = ReportsIn(calls),
             UNCHANGED <<rows, dropped>>
      PROVE  UNCHANGED Heard!vars
  BY <1>s DEF Heard!vars
<1>1. ASSUME NEW what \in {"started", "terminal"}, Post(Notice(what))
      PROVE  Heard!Say(what)
  <2>1. Number(Notice(what)).ev = Notice(what) /\ Notice(what).via = what /\ Notice(what).life = life
    BY <1>0, NoticeIsEvent, NumberIsMessage
  <2>2. IsReport(Number(Notice(what))) /\ ReportOf(Number(Notice(what))) = Heard!Saying(what)
    BY <2>1 DEF IsReport, ReportOf, Heard!Saying
  <2>3. calls' = calls \/ calls' = calls \cup {Number(Notice(what))} BY <1>1 DEF Post
  <2>4. ReportsIn(calls') \in {ReportsIn(calls), ReportsIn(calls) \cup {Heard!Saying(what)}}
    BY <2>2, <2>3, ReportsMore
  <2>5. UNCHANGED <<life, rows, dropped>> BY <1>1 DEF Post, storeVars
  <2> QED BY <2>4, <2>5 DEF Heard!Say
<1>2. CASE PostStarted
  <2>1. Word = "none" /\ Word' = "up" BY <1>2 DEF PostStarted, Word
  <2>2. Heard!Say("started") BY <1>1, <1>2 DEF PostStarted
  <2> QED BY <2>1, <2>2 DEF Heard!Start, Heard!Next
<1>3. CASE Shutdown
  <2>1. Word = "up" /\ Word' = "over" BY <1>3 DEF Shutdown, Close, Word
  <2>2. Heard!Say("terminal") BY <1>1, <1>3 DEF Shutdown, Close
  <2> QED BY <2>1, <2>2 DEF Heard!End, Heard!Next
<1>4. ASSUME NEW e \in Event, e.via \notin {"started", "terminal"},
             calls' = calls \/ calls' = calls \cup {Number(e)},
             UNCHANGED <<life, agent, rows, dropped>>
      PROVE  UNCHANGED Heard!vars
  <2>1. ~IsReport(Number(e)) BY <1>0, <1>4, NumberIsMessage DEF IsReport
  <2>2. ReportsIn(calls') = ReportsIn(calls) BY <1>4, <2>1, ReportsMore
  <2>3. Word' = Word BY <1>4 DEF Word
  <2> QED BY <1>4, <1>s, <2>2, <2>3
<1>5. CASE PostTool
  <2>1. Output("tool") \in Event /\ Output("tool").via = "tool" BY <1>0, OutputIsEvent
  <2> QED BY <1>4, <1>5, <2>1 DEF PostTool, Post, storeVars
<1>6. CASE ReadEvent
  <2>1. Head(wire) \in Event /\ 1 \in DOMAIN wire /\ Head(wire) = wire[1]
    BY <1>0, <1>6 DEF ReadEvent, TypeOK
  <2>2. Head(wire).via = "stream" BY <2>1 DEF EInv, OutputWaits, Waits
  <2> QED BY <1>4, <1>6, <2>1, <2>2 DEF ReadEvent, agentVars, storeVars
<1>7. CASE Started \/ Exit
  <2>1. Word' = Word BY <1>7 DEF Started, Up, Exit, Leave, Word
  <2>2. UNCHANGED <<life, calls, rows, dropped>>
    BY <1>7 DEF Started, Up, Exit, Leave, callVars, storeVars
  <2> QED BY <1>s, <2>1, <2>2
<1>8. CASE AgentCrash
  <2>1. Word' = "dead" /\ UNCHANGED <<life, calls, rows, dropped>>
    BY <1>8 DEF AgentCrash, Word, callVars, storeVars
  <2>2. Heard!Die BY <2>1 DEF Heard!Die
  <2> QED BY <2>2 DEF Heard!Next
<1>9. CASE AgentRestart \/ PodReplaced
  <2>1. /\ Word' = "none" /\ life' = life + 1 /\ UNCHANGED <<rows, dropped>>
        /\ calls' \subseteq calls
    BY <1>9 DEF AgentRestart, PodReplaced, Gone, Word, callVars, storeVars
  <2>2. ReportsIn(calls') \subseteq ReportsIn(calls) BY <2>1, ReportsAre
  <2>3. Heard!Restart BY <2>1, <2>2 DEF Heard!Restart
  <2> QED BY <2>3 DEF Heard!Next
<1>10. ASSUME Word' = Word, life' = life, UNCHANGED <<rows, dropped>>, calls' \subseteq calls
       PROVE  Heard!Next
  <2>1. ReportsIn(calls') \subseteq ReportsIn(calls) BY <1>10, ReportsAre
  <2>2. Heard!Lose BY <1>10, <2>1 DEF Heard!Lose
  <2> QED BY <2>2 DEF Heard!Next
<1>11. CASE SidecarExit \/ SidecarCrash
  <2>1. Word' = Word /\ life' = life /\ UNCHANGED <<rows, dropped>> /\ calls' \subseteq calls
    BY <1>11 DEF SidecarExit, SidecarCrash, Gone, Word, agentVars, storeVars
  <2> QED BY <1>10, <2>1
<1>12. ASSUME NEW c \in calls \cup told, PublishCore(c) PROVE [Heard!Next]_(Heard!vars)
  <2>1. /\ c \in calls /\ calls' = calls \ {c} /\ life' = life /\ agent' = agent
        /\ \/ rows' \cup dropped' = (rows \cup dropped) \cup {c}
           \/ UNCHANGED <<rows, dropped>>
    BY <1>12 DEF PublishCore, Persist, Unheard, agentVars
  <2>2. Word' = Word BY <2>1 DEF Word
  <2>3. CASE UNCHANGED <<rows, dropped>> BY <1>10, <2>1, <2>2, <2>3
  <2>4. CASE rows' \cup dropped' = (rows \cup dropped) \cup {c} /\ ~IsReport(c)
    <3>1. ReportsIn(rows' \cup dropped') = ReportsIn(rows \cup dropped) BY <2>4, ReportsMore
    <3>2. ReportsIn(calls') = ReportsIn(calls) BY <2>1, <2>4, ReportsLess
    <3> QED BY <2>1, <2>2, <3>1, <3>2 DEF Heard!vars
  <2>5. CASE rows' \cup dropped' = (rows \cup dropped) \cup {c} /\ IsReport(c)
    <3> DEFINE r == ReportOf(c)
    <3>1. ReportsIn(rows' \cup dropped') = ReportsIn(rows \cup dropped) \cup {r}
      BY <2>5, ReportsMore
    <3>2. r \in ReportsIn(calls) /\ ReportsIn(calls') = ReportsIn(calls) \ {r}
      BY <2>1, <2>5, ReportsLess
    <3>3. Heard!InOrder(r)
      <4>1. SUFFICES ASSUME r.what = "terminal", [r EXCEPT !.what = "started"] \in ReportsIn(calls)
                     PROVE  FALSE
        BY DEF Heard!InOrder
      <4>2. PICK k \in calls : IsReport(k) /\ [r EXCEPT !.what = "started"] = ReportOf(k)
        BY <4>1, ReportsAre
      <4>3. [r EXCEPT !.what = "started"] = [life |-> c.ev.life, what |-> "started"]
        BY DEF ReportOf
      <4>4. ReportOf(k).life = c.ev.life /\ ReportOf(k).what = "started" BY <4>2, <4>3
      <4>5. k.ev.life = c.ev.life /\ k.ev.via = "started" BY <4>4 DEF ReportOf
      <4>6. c.ev.via = "terminal" BY <4>1 DEF ReportOf
      <4> QED BY <2>1, <4>2, <4>5, <4>6 DEF ReportsKnown, Pending
    <3> HIDE DEF r
    <3>4. Heard!Take(r) BY <2>1, <2>2, <3>1, <3>2, <3>3 DEF Heard!Take
    <3> QED BY <3>2, <3>4 DEF Heard!Next
  <2> QED BY <2>1, <2>3, <2>4, <2>5
<1>13. ASSUME UNCHANGED <<agent, life, calls, rows, dropped>> PROVE UNCHANGED Heard!vars
  <2>1. Word' = Word BY <1>13 DEF Word
  <2> QED BY <1>13, <1>s, <2>1
<1>14. ASSUME NEW c \in calls \cup told, PublishArchive(c) PROVE UNCHANGED Heard!vars
  BY <1>13, <1>14 DEF PublishArchive, agentVars
<1>15. CASE \/ Emit \/ Connect \/ Attach \/ NeverReady \/ StreamEnds \/ SidecarRestart
            \/ WindowPasses \/ UNCHANGED vars
  BY <1>13, <1>15 DEF Emit, EmitTo, Connect, Attach, AttachTo, NeverReady, StreamEnds, SidecarRestart,
                      WindowPasses, agentVars, callVars, storeVars, vars
<1> QED
  BY <1>2, <1>3, <1>5, <1>6, <1>7, <1>8, <1>9, <1>11, <1>12, <1>14, <1>15
  DEF Next, AgentNext, SidecarNext, Publish

(* A pod, whatever its containers and the broker do, is to the api what    *)
(* AgentReports says: an agent reports its start and its end once in a     *)
(* life, the api takes a report once, and no end with the start of the     *)
(* same life still on its way.                                             *)
THEOREM PodReports == Spec => ImplementsReports
<1>1. Init => Heard!Init
  <2> SUFFICES ASSUME Init PROVE Heard!Init OBVIOUS
  <2>1. Word = "none" /\ life = 1 BY DEF Init, Word
  <2>2. ReportsIn(calls) = {} /\ ReportsIn(rows \cup dropped) = {}
    BY DEF Init, ReportsIn
  <2> QED BY <2>1, <2>2 DEF Heard!Init
<1>2. Init => ReportsKnown BY DEF Init, ReportsKnown, Pending
<1>3. EInv /\ ReportsKnown /\ [Next]_vars => ReportsKnown' BY ReportsStep
<1>4. EInv /\ ReportsKnown /\ [Next]_vars => [Heard!Next]_(Heard!vars) BY StepReports
<1> QED BY <1>1, <1>2, <1>3, <1>4, EventInvariant, PTL DEF Spec, ImplementsReports, Heard!Spec
=============================================================================
