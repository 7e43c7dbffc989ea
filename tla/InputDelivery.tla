---------------------------- MODULE InputDelivery ----------------------------
(***************************************************************************)
(* The way of an input (a wake, a user's message) from its publisher to    *)
(* the agent of one session: over JetStream, with a message id, a durable  *)
(* consumer, acknowledgements, redelivery and expiry; or over core NATS,   *)
(* which hands it to whoever listens.  The sidecar pulls a batch, and      *)
(* posts the messages of it to the agent one after the other.              *)
(*                                                                         *)
(* Every copy that is published is told apart, <<input, n>> with n counted *)
(* over all inputs: a publisher that is not sure publishes again, and two  *)
(* that race publish the same.                                             *)
(* The clock is left to the environment: an ack wait, the duplicate window *)
(* and an expiry may elapse whenever they have begun.                      *)
(*                                                                         *)
(* Left out: what the messages say (a staging message is applied by the    *)
(* sidecar instead of being posted, and acknowledged alike), the length of *)
(* the backoff between deliveries, the age and size limits of the stream,  *)
(* the end of a consumer that nobody has asked for an hour, and what the   *)
(* agent does with an input once it has it in memory.                      *)
(***************************************************************************)
EXTENDS Naturals, Sequences, FiniteSets, SequencesExt

CONSTANTS
  Inputs,      \* message ids
  Perishable,  \* those with an expires_at
  Paths,       \* which of "jetstream" and "core" a deployment may use
  MaxDeliver,  \* max_deliver of the consumer
  MaxCopies,   \* bound: how often something is published
  MaxCrashes,  \* bound: how often a container dies
  Faults       \* which of "drop", "late", "slow", "ackloss", "crash", "slowstart"

Copies == Inputs \X (1 .. MaxCopies)

ASSUME InputsAssumption ==
  /\ Perishable \subseteq Inputs /\ Paths \subseteq {"jetstream", "core"}
  /\ MaxDeliver \in Nat \ {0} /\ MaxCopies \in Nat \ {0} /\ MaxCrashes \in Nat
  /\ Faults \subseteq {"drop", "late", "slow", "ackloss", "crash", "slowstart"}

VARIABLES
  path,      \* the path this deployment uses
  published, \* how many copies were published
  known,     \* the ids in the stream's duplicate window
  phase,     \* of each copy, at the broker
  tries,     \* how often each copy was delivered
  buffer,    \* deliveries the sidecar has not begun with, oldest first
  hand,      \* the delivery it is in the middle of
  sidecar,   \* "down", "waiting" for the agent, "on", "deaf", or "gone"
  agent,     \* the agent answers
  leaving,   \* its stream has closed under the sidecar, which is about to exit
  read,      \* how often each copy was handed to the agent
  expired,   \* the inputs whose expires_at has passed
  excuses,   \* of each input: reasons to hand it over once more
  crashes

broker  == <<published, known, phase, tries>>
channel == <<buffer, hand, sidecar>>
vars == <<path, broker, channel, agent, leaving, read, expired, excuses, crashes>>

Nothing == [stage |-> "none"]
Listening == sidecar \in {"waiting", "on"}
Runs == sidecar \notin {"down", "gone"}

Init ==
  /\ path \in Paths
  /\ published = 0 /\ known = {}
  /\ phase = [c \in Copies |-> "none"] /\ tries = [c \in Copies |-> 0]
  /\ buffer = <<>> /\ hand = Nothing /\ sidecar = "down"
  /\ agent = FALSE /\ leaving = FALSE
  /\ read = [c \in Copies |-> 0]
  /\ expired = {} /\ excuses = [m \in Inputs |-> 0] /\ crashes = 0

Excuse(m) == excuses' = [excuses EXCEPT ![m] = @ + 1]
-----------------------------------------------------------------------------
(* Publishing.                                                             *)

(* publishInputEnvelope: the next copy of m goes to the stream, unless the *)
(* stream knows its id; or to those who listen.  It may not get there.     *)
Sent(m) == \E c \in Copies : c[1] = m /\ phase[c] # "none"
Forgetful(m) == FALSE   \* mutant
Duplicate(m) == m \in known
Publish(m) ==
  /\ published < MaxCopies /\ published' = published + 1
  /\ LET c == <<m, published'>> IN
       \/ /\ path = "jetstream" /\ ~Duplicate(m)
          /\ known' = known \cup {m}
          /\ phase' = [phase EXCEPT ![c] = "ready"]
          /\ UNCHANGED <<tries, buffer>>
       \/ /\ path = "jetstream" /\ Duplicate(m)
          /\ UNCHANGED <<known, phase, tries, buffer>>
       \/ /\ path = "core" /\ Listening
          /\ phase' = [phase EXCEPT ![c] = "out"] /\ tries' = [tries EXCEPT ![c] = 1]
          /\ buffer' = Append(buffer, c)
          /\ UNCHANGED known
       \/ /\ path = "core" /\ (~Listening \/ "drop" \in Faults)
          /\ phase' = [phase EXCEPT ![c] = "spent"]
          /\ UNCHANGED <<known, tries, buffer>>
  /\ IF path = "core" /\ Sent(m) THEN Excuse(m) ELSE UNCHANGED excuses
  /\ UNCHANGED <<path, hand, sidecar, agent, leaving, read, expired, crashes>>

(* The duplicate window of two minutes elapses.                            *)
WindowEnds(m) ==
  /\ "late" \in Faults /\ m \in known
  /\ known' = known \ {m} /\ Excuse(m)
  /\ UNCHANGED <<path, published, phase, tries, channel, agent, leaving, read, expired, crashes>>

Expire(m) ==
  /\ m \in Perishable \ expired /\ Sent(m)
  /\ expired' = expired \cup {m}
  /\ UNCHANGED <<path, broker, channel, agent, leaving, read, excuses, crashes>>
-----------------------------------------------------------------------------
(* The consumer.                                                           *)

(* A batch is pulled ahead: the ack wait of a message runs while the       *)
(* sidecar is busy with those before it.                                   *)
Deliver(c) ==
  /\ sidecar = "on" /\ phase[c] = "ready"
  /\ phase' = [phase EXCEPT ![c] = "out"]
  /\ tries' = [tries EXCEPT ![c] = @ + 1]
  /\ buffer' = Append(buffer, c)
  /\ UNCHANGED <<path, published, known, hand, sidecar, agent, leaving, read, expired, excuses, crashes>>

(* What is not acknowledged is delivered again, until it has been often    *)
(* enough: nothing takes it from there.                                    *)
OneShort(c) == IF tries[c] + 1 < MaxDeliver THEN "ready" ELSE "spent"   \* mutant
Again(c) == IF tries[c] < MaxDeliver THEN "ready" ELSE "spent"

(* The ack wait of half a minute may end while the sidecar still holds the *)
(* message, if it is slow; and ends when it holds it no more.              *)
InHand(c) == hand # Nothing /\ hand.copy = c
NeverOverdue(c) == FALSE   \* mutant
Overdue(c) == "slow" \in Faults \/ (c \notin Range(buffer) /\ ~InHand(c))
AckWait(c) ==
  /\ path = "jetstream" /\ phase[c] = "out" /\ Overdue(c)
  /\ phase' = [phase EXCEPT ![c] = Again(c)]
  /\ Excuse(c[1])
  /\ UNCHANGED <<path, published, known, tries, channel, agent, leaving, read, expired, crashes>>
-----------------------------------------------------------------------------
(* The sidecar.                                                            *)

(* The next delivery of the batch: a stale one is acknowledged unposted.   *)
(* The core path does not look at the time.                                *)
IsStale(m) == path = "jetstream" /\ m \in expired
Begin ==
  /\ sidecar = "on" /\ hand = Nothing /\ buffer # <<>>
  /\ hand' = [copy |-> Head(buffer), stage |-> IF IsStale(Head(buffer)[1]) THEN "ack" ELSE "post"]
  /\ buffer' = Tail(buffer)
  /\ UNCHANGED <<path, broker, sidecar, agent, leaving, read, expired, excuses, crashes>>

At(stage) == hand # Nothing /\ hand.stage = stage
Handed == read' = [read EXCEPT ![hand.copy] = @ + 1]

Post ==
  /\ At("post") /\ agent
  /\ Handed /\ hand' = [hand EXCEPT !.stage = "ack"]
  /\ UNCHANGED <<path, broker, buffer, sidecar, agent, leaving, expired, excuses, crashes>>

(* The agent does not answer, or answers with an error.                    *)
AckAnyway == "ack"   \* mutant
AfterError == "nak"
PostFails ==
  /\ At("post")
  /\ hand' = [hand EXCEPT !.stage = AfterError]
  /\ UNCHANGED <<path, broker, buffer, sidecar, agent, leaving, read, expired, excuses, crashes>>

Crashing == "crash" \in Faults /\ crashes < MaxCrashes /\ crashes' = crashes + 1

(* The end of the agent closes its event stream, if the sidecar was        *)
(* attached to it: it exits in a moment, and works on until then.          *)
StreamMayClose == leaving' \in {leaving, Runs}

(* The agent has the input, and dies before it answers.                    *)
PostUnanswered ==
  /\ Crashing
  /\ At("post") /\ agent /\ agent' = FALSE
  /\ Handed /\ Excuse(hand.copy[1])
  /\ hand' = [hand EXCEPT !.stage = AfterError]
  /\ StreamMayClose
  /\ UNCHANGED <<path, broker, buffer, sidecar, expired>>

(* An acknowledgement counts whichever delivery it is for, as long as the  *)
(* message is pending; it may get lost.  There is none on the core path.   *)
Pending(c) == phase[c] \in {"ready", "out"}
Ack ==
  /\ At("ack")
  /\ \/ phase' = [phase EXCEPT ![hand.copy] = IF Pending(hand.copy) THEN "settled" ELSE @]
     \/ path = "jetstream" /\ "ackloss" \in Faults /\ UNCHANGED phase
  /\ hand' = Nothing
  /\ UNCHANGED <<path, published, known, tries, buffer, sidecar, agent, leaving, read, expired, excuses, crashes>>

Nak ==
  /\ At("nak")
  /\ LET c == hand.copy IN
       \/ phase' = [phase EXCEPT ![c] = IF phase[c] # "out" THEN @
                                        ELSE IF path = "core" THEN "spent" ELSE Again(c)]
       \/ path = "jetstream" /\ "ackloss" \in Faults /\ UNCHANGED phase
  /\ hand' = Nothing
  /\ UNCHANGED <<path, published, known, tries, buffer, sidecar, agent, leaving, read, expired, excuses, crashes>>

(* The core subscription begins before the agent is up and keeps what      *)
(* comes; the consumer is asked only after.                                *)
SidecarStarts ==
  /\ sidecar = "down" /\ sidecar' = "waiting"
  /\ UNCHANGED <<path, broker, buffer, hand, agent, leaving, read, expired, excuses, crashes>>

AgentReady ==
  /\ sidecar = "waiting" /\ agent
  /\ sidecar' = "on"
  /\ UNCHANGED <<path, broker, buffer, hand, agent, leaving, read, expired, excuses, crashes>>

Unheard == {c \in Copies : path = "core" /\ phase[c] = "out"}
Forgets == phase' = [c \in Copies |-> IF c \in Unheard THEN "spent" ELSE phase[c]]

(* After a minute without the agent, or when the broker refuses the        *)
(* subscription or the consumer, the subscriber returns for good.          *)
GivesUp ==
  /\ "slowstart" \in Faults
  /\ sidecar = "waiting" /\ sidecar' = "deaf"
  /\ buffer' = <<>>
  /\ Forgets
  /\ UNCHANGED <<path, published, known, tries, hand, agent, leaving, read, expired, excuses, crashes>>

(* The sidecar exits with 0 when the stream of the agent has closed, and   *)
(* neither restart policy brings a container back that ended so.           *)
EmptyHanded == buffer' = <<>> /\ hand' = Nothing /\ leaving' = FALSE /\ Forgets
SidecarExits ==
  /\ leaving /\ sidecar' = "gone"
  /\ EmptyHanded
  /\ UNCHANGED <<path, published, known, tries, agent, read, expired, excuses, crashes>>

SidecarDies ==
  /\ Crashing
  /\ Runs /\ sidecar' = "down"
  /\ EmptyHanded
  /\ UNCHANGED <<path, published, known, tries, agent, read, expired, excuses>>

AgentStarts ==
  /\ ~agent /\ agent' = TRUE
  /\ UNCHANGED <<path, broker, channel, leaving, read, expired, excuses, crashes>>

AgentDies ==
  /\ Crashing
  /\ agent /\ agent' = FALSE
  /\ StreamMayClose
  /\ UNCHANGED <<path, broker, channel, read, expired, excuses>>

(* The Job gets another pod, in which both containers begin anew: because  *)
(* the old one is lost, or its agent failed once more after the sidecar    *)
(* had gone.                                                               *)
PodReplaced ==
  /\ Crashing \/ (sidecar = "gone" /\ UNCHANGED crashes)
  /\ agent' = FALSE /\ sidecar' = "down"
  /\ EmptyHanded
  /\ UNCHANGED <<path, published, known, tries, read, expired, excuses>>

Next ==
  \/ \E m \in Inputs : Publish(m) \/ WindowEnds(m) \/ Expire(m)
  \/ \E c \in Copies : Deliver(c) \/ AckWait(c)
  \/ Begin \/ Post \/ PostFails \/ PostUnanswered \/ Ack \/ Nak
  \/ SidecarStarts \/ AgentReady \/ GivesUp \/ SidecarExits \/ SidecarDies
  \/ AgentStarts \/ AgentDies \/ PodReplaced

(* The broker delivers and redelivers, and the sidecar's loop goes on: as  *)
(* long as one of them has something to do, something is done.  Nothing    *)
(* brings a container back, for a sidecar that has exited stays away; and  *)
(* nothing ends a POST, which has no timeout.                              *)
Progress ==
  \/ \E c \in Copies : Deliver(c) \/ AckWait(c)
  \/ Begin \/ Ack \/ Nak \/ AgentReady

Spec == Init /\ [][Next]_vars /\ WF_vars(Progress)
-----------------------------------------------------------------------------
(* Properties.                                                             *)

(* Every variable keeps its type.                                          *)
TypeOK ==
  /\ path \in {"jetstream", "core"}
  /\ published \in 0 .. MaxCopies /\ known \subseteq Inputs
  /\ phase \in [Copies -> {"none", "ready", "out", "settled", "spent"}]
  /\ tries \in [Copies -> 0 .. MaxDeliver]
  /\ buffer \in Seq(Copies)
  /\ hand \in {Nothing} \cup [copy : Copies, stage : {"post", "ack", "nak"}]
  /\ sidecar \in {"down", "waiting", "on", "deaf", "gone"}
  /\ agent \in BOOLEAN /\ leaving \in BOOLEAN
  /\ read \in [Copies -> Nat] /\ expired \subseteq Perishable
  /\ excuses \in [Inputs -> Nat] /\ crashes \in 0 .. MaxCrashes

(* The mailbox that the channel implements.                                *)
Box == [c \in Copies |->
  IF phase[c] = "none" THEN "none"
  ELSE IF Pending(c) THEN "held"
  ELSE IF phase[c] = "settled" THEN "settled" ELSE "given_up"]
Promise == INSTANCE Mailbox WITH
  Letters <- Copies, Tries <- MaxDeliver, box <- Box,
  stale <- {c \in Copies : c[1] \in expired}

(* The channel keeps the promise of a mailbox: through crashes, lost acks, *)
(* late redeliveries and copies that wait in the sidecar's buffer, nothing *)
(* is put away unread unless it is stale, and nothing is read more often   *)
(* than it may be delivered.                                               *)
ImplementsMailbox == Promise!Spec

(* The hand-overs of the copies of m, counted.                             *)
Readings(m) ==
  Cardinality({h \in Copies \X (1 .. MaxDeliver) : h[1][1] = m /\ h[2] <= read[h[1]]})

(* "without injecting the same wake into the orchestrator twice": an input *)
(* is handed over once, and once more for each time that the duplicate     *)
(* window or an ack wait ended, or that the agent died before it answered; *)
(* on the core path once for each time it was published.                   *)
OnceUnlessExcused == \A m \in Inputs : Readings(m) <= 1 + excuses[m]

(* No input is given up while somebody could still deliver it: the stream  *)
(* lets go of a copy only after max_deliver deliveries of it, however acks *)
(* and ack waits race; and on the core path, where nothing is delivered    *)
(* twice, what is pending is in the sidecar's buffer or in its hand.       *)
NothingAbandoned ==
  \A c \in Copies :
    /\ path = "jetstream" /\ phase[c] = "spent" => tries[c] = MaxDeliver
    /\ path = "core" /\ phase[c] = "out" => c \in Range(buffer) \/ InHand(c)

(* While the sidecar listens to an agent that answers, every input is put  *)
(* away or given up in the end, whatever was lost before, unless the POST  *)
(* of one never returns.  (Where the sidecar has exited after its agent,   *)
(* or the subscriber has returned, what is pending stays so.)              *)
Answered ==
  <>[](Listening /\ agent => At("post") \/ \A c \in Copies : ~Pending(c))
=============================================================================
