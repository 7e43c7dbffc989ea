------------------------ MODULE InputDelivery_proofs ------------------------
(***************************************************************************)
(* That the input channel implements Mailbox, and hands an input over no   *)
(* more than once without an excuse, for any number of inputs,             *)
(* publications, deliveries and crashes, proved from InputsAssumption.     *)
(*                                                                         *)
(* A hand-over is the end of a delivery: the deliveries of a copy that are *)
(* still in the buffer or about to be posted, and the times it was handed  *)
(* over, are together no more than its tries (Counted).                    *)
(***************************************************************************)
EXTENDS InputDelivery, FiniteSetTheorems, TLAPS

(* Where copies of a set wait in the buffer.                               *)
Places(s, C) == {i \in 1 .. Len(s) : s[i] \in C}
Waiting(c) == Cardinality(Places(buffer, {c}))
Posting(c) == IF At("post") /\ hand.copy = c THEN 1 ELSE 0
Counted == \A c \in Copies : read[c] + Waiting(c) + Posting(c) <= tries[c]

(* A copy is new until it is published, and delivered no oftener than it   *)
(* may be.                                                                 *)
Numbered == \A c \in Copies : c[2] > published => phase[c] = "none"
Untouched == \A c \in Copies : phase[c] = "none" => tries[c] = 0
MayDeliver == \A c \in Copies : phase[c] = "ready" => tries[c] < MaxDeliver

(* What is about to be acknowledged was handed over, or is stale.          *)
AckedReason == At("ack") => read[hand.copy] > 0 \/ hand.copy[1] \in expired

IInv == TypeOK /\ Counted /\ Numbered /\ Untouched /\ MayDeliver /\ AckedReason
-----------------------------------------------------------------------------
(* Counting the places.                                                    *)

LEMMA PlacesType ==
  ASSUME NEW s \in Seq(Copies), NEW C
  PROVE  IsFiniteSet(Places(s, C)) /\ Cardinality(Places(s, C)) \in Nat
<1>1. IsFiniteSet(1 .. Len(s)) BY FS_Interval
<1>2. Places(s, C) \subseteq 1 .. Len(s) BY DEF Places
<1> QED BY <1>1, <1>2, FS_Subset, FS_CardinalityType

LEMMA PlacesOfNone ==
  ASSUME NEW C
  PROVE  Cardinality(Places(<<>>, C)) = 0
<1>1. Places(<<>>, C) = {} BY DEF Places
<1> QED BY <1>1, FS_EmptySet

LEMMA PlacesAppended ==
  ASSUME NEW s \in Seq(Copies), NEW d \in Copies, NEW C
  PROVE  Cardinality(Places(Append(s, d), C))
           = Cardinality(Places(s, C)) + (IF d \in C THEN 1 ELSE 0)
<1>1. IsFiniteSet(Places(s, C)) /\ Cardinality(Places(s, C)) \in Nat BY PlacesType
<1>2. /\ Len(s) \in Nat /\ Len(Append(s, d)) = Len(s) + 1
      /\ \A i \in 1 .. Len(s) : Append(s, d)[i] = s[i]
      /\ Append(s, d)[Len(s) + 1] = d
  OBVIOUS
<1>3. Len(s) + 1 \notin Places(s, C) BY <1>2 DEF Places
<1>4. CASE d \in C
  <2>1. Places(Append(s, d), C) = Places(s, C) \cup {Len(s) + 1} BY <1>2, <1>4 DEF Places
  <2> QED BY <1>1, <1>3, <1>4, <2>1, FS_AddElement
<1>5. CASE d \notin C
  <2>1. Places(Append(s, d), C) = Places(s, C) BY <1>2, <1>5 DEF Places
  <2> QED BY <1>1, <1>5, <2>1
<1> QED BY <1>4, <1>5

LEMMA PlacesTaken ==
  ASSUME NEW s \in Seq(Copies), s # <<>>, NEW C
  PROVE  Cardinality(Places(Tail(s), C)) + (IF Head(s) \in C THEN 1 ELSE 0)
           <= Cardinality(Places(s, C))
<1> DEFINE before == Places(s, C)
           after == Places(Tail(s), C)
           f == [i \in after |-> i + 1]
<1>1. IsFiniteSet(before) /\ Cardinality(before) \in Nat BY PlacesType
<1>2. Tail(s) \in Seq(Copies) OBVIOUS
<1>3. IsFiniteSet(after) /\ Cardinality(after) \in Nat BY <1>2, PlacesType
<1>4. /\ Len(s) \in Nat \ {0} /\ Len(Tail(s)) = Len(s) - 1 /\ Head(s) = s[1]
      /\ \A i \in 1 .. Len(Tail(s)) : Tail(s)[i] = s[i + 1]
  OBVIOUS
<1>5. \A i \in after : i \in Nat \ {0} /\ i + 1 \in before \ {1}
  BY <1>4 DEF Places
<1>6. f \in Injection(after, before \ {1})
  <2> HIDE DEF after, before
  <2>1. f \in [after -> before \ {1}] BY <1>5
  <2>2. \A i, j \in after : f[i] = f[j] => i = j BY <1>5
  <2> HIDE DEF f
  <2> QED BY <2>1, <2>2 DEF Injection, IsInjective
<1>7. /\ IsFiniteSet(before \ {1})
      /\ Cardinality(before \ {1}) = IF 1 \in before THEN Cardinality(before) - 1
                                                     ELSE Cardinality(before)
  BY <1>1, FS_RemoveElement
<1>8. Cardinality(after) <= Cardinality(before \ {1}) BY <1>6, <1>7, FS_Injection
<1>9. Head(s) \in C => 1 \in before BY <1>4 DEF Places
<1> QED BY <1>1, <1>3, <1>7, <1>8, <1>9
-----------------------------------------------------------------------------
(* The delivery in hand.                                                   *)

LEMMA HandCopy ==
  ASSUME TypeOK, NEW stage, At(stage)
  PROVE  /\ hand \in [copy : Copies, stage : {"post", "ack", "nak"}]
         /\ hand.copy \in Copies /\ hand.stage = stage /\ hand.copy[1] \in Inputs
  BY DEF TypeOK, At, Copies

LEMMA HandMoves ==
  ASSUME TypeOK, NEW stage, At(stage), NEW after \in {"post", "ack", "nak"},
         hand' = [hand EXCEPT !.stage = after]
  PROVE  /\ hand' \in [copy : Copies, stage : {"post", "ack", "nak"}]
         /\ hand'.copy = hand.copy /\ hand'.stage = after /\ hand' # Nothing
<1>1. hand \in [copy : Copies, stage : {"post", "ack", "nak"}] BY HandCopy
<1>2. hand' \in [copy : Copies, stage : {"post", "ack", "nak"}] BY <1>1
<1>3. hand'.copy = hand.copy /\ hand'.stage = after BY <1>1
<1> QED BY <1>2, <1>3 DEF Nothing

(* The delivery that is begun.                                             *)
LEMMA Begun ==
  ASSUME TypeOK, Begin
  PROVE  /\ hand' \in [copy : Copies, stage : {"post", "ack", "nak"}] /\ hand' # Nothing
         /\ hand'.copy = Head(buffer)
         /\ hand'.stage = IF IsStale(Head(buffer)[1]) THEN "ack" ELSE "post"
         /\ buffer # <<>> /\ buffer' = Tail(buffer) /\ buffer' \in Seq(Copies)
<1>1. /\ buffer \in Seq(Copies) /\ buffer # <<>> /\ Head(buffer) \in Copies
      /\ buffer' = Tail(buffer) /\ Tail(buffer) \in Seq(Copies)
  BY DEF TypeOK, Begin
<1>2. hand' = [copy |-> Head(buffer), stage |-> IF IsStale(Head(buffer)[1]) THEN "ack" ELSE "post"]
  BY DEF Begin
<1> QED BY <1>1, <1>2 DEF Nothing
-----------------------------------------------------------------------------
(* Types.                                                                  *)

LEMMA TypeStep ==
  ASSUME IInv, [Next]_vars
  PROVE  TypeOK'
<1> USE InputsAssumption DEF broker, channel
<1>0. TypeOK BY DEF IInv
<1>a. /\ read \in [Copies -> Nat] /\ buffer \in Seq(Copies) /\ excuses \in [Inputs -> Nat]
      /\ tries \in [Copies -> 0 .. MaxDeliver] /\ 1 \in 0 .. MaxDeliver
  BY <1>0 DEF TypeOK
<1>1. ASSUME NEW m \in Inputs, Publish(m) PROVE TypeOK'
  <2> DEFINE c == <<m, published'>>
  <2>1. published' \in 1 .. MaxCopies /\ c \in Copies
    BY <1>0, <1>1 DEF Publish, TypeOK, Copies
  <2>2. excuses' \in [Inputs -> Nat]
    <3>1. CASE path = "core" /\ Sent(m)
      <4>1. excuses' = [excuses EXCEPT ![m] = @ + 1] BY <1>1, <3>1 DEF Publish, Excuse
      <4> QED BY <1>a, <4>1
    <3>2. CASE ~(path = "core" /\ Sent(m))
      BY <1>a, <1>1, <3>2 DEF Publish
    <3> QED BY <3>1, <3>2
  <2>3. /\ known' \subseteq Inputs /\ buffer' \in Seq(Copies)
        /\ phase' \in [Copies -> {"none", "ready", "out", "settled", "spent"}]
        /\ tries' \in [Copies -> 0 .. MaxDeliver]
    <3>1. known' = known \/ known' = known \cup {m} BY <1>1 DEF Publish
    <3>2. buffer' = buffer \/ buffer' = Append(buffer, c) BY <1>1 DEF Publish
    <3>3. \/ phase' = phase
          \/ \E k \in {"ready", "out", "spent"} : phase' = [phase EXCEPT ![c] = k]
      BY <1>1 DEF Publish
    <3>4. tries' = tries \/ tries' = [tries EXCEPT ![c] = 1] BY <1>1 DEF Publish
    <3> HIDE DEF c
    <3>5. known' \subseteq Inputs BY <1>0, <3>1 DEF TypeOK
    <3>6. buffer' \in Seq(Copies) 
      <4>1. Append(buffer, c) \in Seq(Copies) BY <1>a, <2>1
      <4> QED BY <1>a, <3>2, <4>1
    <3>7. phase' \in [Copies -> {"none", "ready", "out", "settled", "spent"}]
      BY <1>0, <3>3 DEF TypeOK
    <3>8. tries' \in [Copies -> 0 .. MaxDeliver] BY <1>a, <3>4
    <3> QED BY <3>5, <3>6, <3>7, <3>8
  <2>4. /\ published' \in 0 .. MaxCopies
        /\ UNCHANGED <<path, hand, sidecar, agent, leaving, read, expired, crashes>>
    BY <1>1, <2>1 DEF Publish
  <2> HIDE DEF c
  <2> QED BY <1>0, <2>2, <2>3, <2>4 DEF TypeOK
<1>2. ASSUME NEW m \in Inputs, WindowEnds(m) \/ Expire(m) PROVE TypeOK'
  <2>1. CASE WindowEnds(m)
    <3>1. excuses' = [excuses EXCEPT ![m] = @ + 1] BY <2>1 DEF WindowEnds, Excuse
    <3>2. excuses' \in [Inputs -> Nat] BY <1>a, <3>1
    <3> QED BY <1>0, <2>1, <3>2 DEF WindowEnds, TypeOK
  <2>2. CASE Expire(m)
    BY <1>0, <2>2 DEF Expire, TypeOK
  <2> QED BY <1>2, <2>1, <2>2
<1>3. ASSUME NEW c \in Copies, Deliver(c) PROVE TypeOK'
  <2>1. tries[c] + 1 \in 0 .. MaxDeliver
    BY <1>0, <1>3 DEF IInv, MayDeliver, Deliver, TypeOK
  <2> QED BY <1>0, <1>3, <2>1 DEF Deliver, TypeOK
<1>4. ASSUME NEW c \in Copies, AckWait(c) PROVE TypeOK'
  <2>1. c[1] \in Inputs BY DEF Copies
  <2> QED BY <1>0, <1>4, <2>1 DEF AckWait, Again, Excuse, TypeOK
<1>5. CASE Begin
  BY <1>0, <1>5, Begun DEF Begin, TypeOK
<1>6. CASE Post \/ PostFails \/ PostUnanswered
  <2>1. At("post") /\ hand.copy \in Copies /\ hand.copy[1] \in Inputs
    BY <1>0, <1>6, HandCopy DEF Post, PostFails, PostUnanswered
  <2>2. hand' \in [copy : Copies, stage : {"post", "ack", "nak"}]
    BY <1>0, <1>6, <2>1, HandMoves DEF Post, PostFails, PostUnanswered, AfterError
  <2>3. read' \in [Copies -> Nat]
    <3>1. read' = read \/ read' = [read EXCEPT ![hand.copy] = @ + 1]
      BY <1>6 DEF Post, PostFails, PostUnanswered, Handed
    <3>2. [read EXCEPT ![hand.copy] = @ + 1] \in [Copies -> Nat] BY <1>a, <2>1
    <3> QED BY <1>a, <3>1, <3>2
  <2>4. excuses' \in [Inputs -> Nat]
    <3>1. CASE Post \/ PostFails
      BY <1>0, <3>1 DEF Post, PostFails, TypeOK
    <3>2. CASE PostUnanswered
      <4>1. excuses' = [excuses EXCEPT ![hand.copy[1]] = @ + 1] BY <3>2 DEF PostUnanswered, Excuse
      <4>2. excuses \in [Inputs -> Nat] BY <1>0 DEF TypeOK
      <4> QED BY <2>1, <4>1, <4>2
    <3> QED BY <1>6, <3>1, <3>2
  <2>5. crashes' \in 0 .. MaxCrashes
    <3>1. crashes' = crashes \/ (crashes < MaxCrashes /\ crashes' = crashes + 1)
      BY <1>6 DEF Post, PostFails, PostUnanswered, Crashing
    <3> QED BY <1>0, <3>1 DEF TypeOK
  <2>6. agent' \in {agent, FALSE} /\ leaving' \in {leaving, TRUE, FALSE}
    BY <1>6 DEF Post, PostFails, PostUnanswered, StreamMayClose, Runs
  <2> QED BY <1>0, <1>6, <2>2, <2>3, <2>4, <2>5, <2>6 DEF Post, PostFails, PostUnanswered, TypeOK
<1>7. CASE Ack \/ Nak
  <2>1. hand.copy \in Copies BY <1>0, <1>7, HandCopy DEF Ack, Nak
  <2>2. phase' \in [Copies -> {"none", "ready", "out", "settled", "spent"}]
    <3>1. CASE Ack
      BY <1>0, <3>1, <2>1 DEF Ack, TypeOK
    <3>2. CASE Nak
      BY <1>0, <3>2, <2>1 DEF Nak, Again, TypeOK
    <3> QED BY <1>7, <3>1, <3>2
  <2> QED BY <1>0, <1>7, <2>2 DEF Ack, Nak, TypeOK
<1>8. CASE SidecarStarts \/ AgentReady \/ AgentStarts \/ AgentDies
  <2>1. CASE SidecarStarts
    BY <1>0, <2>1 DEF SidecarStarts, TypeOK
  <2>2. CASE AgentReady
    BY <1>0, <2>2 DEF AgentReady, TypeOK
  <2>3. CASE AgentStarts
    BY <1>0, <2>3 DEF AgentStarts, TypeOK
  <2>4. CASE AgentDies
    <3>1. crashes' \in 0 .. MaxCrashes BY <1>0, <2>4 DEF AgentDies, Crashing, TypeOK
    <3>2. leaving' \in BOOLEAN BY <1>0, <2>4 DEF AgentDies, StreamMayClose, Runs, TypeOK
    <3> QED BY <1>0, <2>4, <3>1, <3>2 DEF AgentDies, TypeOK
  <2> QED BY <1>8, <2>1, <2>2, <2>3, <2>4
<1>9. CASE GivesUp \/ SidecarExits \/ SidecarDies \/ PodReplaced
  <2>1. phase' \in [Copies -> {"none", "ready", "out", "settled", "spent"}]
    <3>1. Forgets BY <1>9 DEF GivesUp, SidecarExits, SidecarDies, PodReplaced, EmptyHanded
    <3> QED BY <1>0, <3>1 DEF Forgets, TypeOK
  <2>2. buffer' = <<>> BY <1>9 DEF GivesUp, SidecarExits, SidecarDies, PodReplaced, EmptyHanded
  <2>3. buffer' \in Seq(Copies) BY <2>2
  <2>4. CASE GivesUp
    BY <1>0, <2>1, <2>3, <2>4 DEF GivesUp, TypeOK
  <2>5. CASE SidecarExits \/ SidecarDies \/ PodReplaced
    <3>1. /\ hand' = Nothing /\ leaving' = FALSE /\ sidecar' \in {"gone", "down"}
          /\ agent' \in {agent, FALSE}
          /\ UNCHANGED <<path, published, known, tries, read, expired, excuses>>
      BY <2>5 DEF SidecarExits, SidecarDies, PodReplaced, EmptyHanded
    <3>2. crashes' \in 0 .. MaxCrashes
      <4>1. crashes' = crashes \/ (crashes < MaxCrashes /\ crashes' = crashes + 1)
        BY <2>5 DEF SidecarExits, SidecarDies, PodReplaced, EmptyHanded, Crashing
      <4> QED BY <1>0, <4>1 DEF TypeOK
    <3> QED BY <1>0, <2>1, <2>3, <3>1, <3>2 DEF TypeOK
  <2> QED BY <1>9, <2>4, <2>5
<1>10. CASE UNCHANGED vars
  BY <1>0, <1>10 DEF vars, TypeOK
<1> QED BY <1>1, <1>2, <1>3, <1>4, <1>5, <1>6, <1>7, <1>8, <1>9, <1>10 DEF Next
-----------------------------------------------------------------------------
(* What a step does to the copies.                                         *)

Fresh(m) == <<m, published + 1>>

LEMMA Published ==
  ASSUME IInv, NEW m \in Inputs, Publish(m)
  PROVE  /\ Fresh(m) \in Copies /\ phase[Fresh(m)] = "none" /\ tries[Fresh(m)] = 0
         /\ published' = published + 1 /\ UNCHANGED <<hand, read, expired>>
         /\ \/ UNCHANGED <<phase, tries, buffer>>
            \/ /\ \E k \in {"ready", "spent"} : phase' = [phase EXCEPT ![Fresh(m)] = k]
               /\ UNCHANGED <<tries, buffer>>
            \/ /\ phase' = [phase EXCEPT ![Fresh(m)] = "out"]
               /\ tries' = [tries EXCEPT ![Fresh(m)] = 1]
               /\ buffer' = Append(buffer, Fresh(m))
<1>1. published' = published + 1 /\ published \in Nat /\ published' \in 1 .. MaxCopies
  BY InputsAssumption DEF Publish, IInv, TypeOK
<1>2. Fresh(m) \in Copies BY <1>1 DEF Fresh, Copies
<1>3. Fresh(m)[2] > published BY <1>1 DEF Fresh
<1>4. phase[Fresh(m)] = "none" /\ tries[Fresh(m)] = 0
  BY <1>2, <1>3 DEF IInv, Numbered, Untouched
<1> QED BY <1>1, <1>2, <1>4 DEF Publish, Fresh

(* Every other step leaves what is unpublished alone.                      *)
Unpublished == /\ published' = published
               /\ \A c \in Copies : phase'[c] = "none" <=> phase[c] = "none"

(* It delivers one copy, or none.                                          *)
Delivers == \E c \in Copies : Deliver(c)
Others ==
  \/ \E m \in Inputs : WindowEnds(m) \/ Expire(m)
  \/ \E c \in Copies : AckWait(c)
  \/ Begin \/ Post \/ PostFails \/ PostUnanswered \/ Ack \/ Nak
  \/ SidecarStarts \/ AgentReady \/ GivesUp
  \/ SidecarExits \/ SidecarDies \/ PodReplaced \/ AgentStarts \/ AgentDies
  \/ UNCHANGED vars

LEMMA OthersLeave ==
  ASSUME IInv, Others
  PROVE  Unpublished /\ tries' = tries /\ \A c \in Copies : phase'[c] = "ready" =>
           phase[c] = "ready" \/ tries[c] < MaxDeliver
<1> USE DEF broker, channel
<1>0. phase \in [Copies -> {"none", "ready", "out", "settled", "spent"}] BY DEF IInv, TypeOK
<1>1. tries' = tries /\ published' = published
  BY DEF Others, WindowEnds, Expire, AckWait, Begin, Post, PostFails, PostUnanswered, Ack, Nak,
         SidecarStarts, AgentReady, GivesUp,
         SidecarExits, SidecarDies, PodReplaced, EmptyHanded, AgentStarts, AgentDies, vars
<1>2. CASE UNCHANGED phase
  BY <1>1, <1>2 DEF Unpublished
<1>3. ASSUME NEW c \in Copies, AckWait(c)
      PROVE  \A d \in Copies : /\ phase'[d] = "none" <=> phase[d] = "none"
                               /\ phase'[d] = "ready" => phase[d] = "ready" \/ tries[d] < MaxDeliver
  BY <1>0, <1>3 DEF AckWait, Again
<1>4. ASSUME Ack \/ Nak
      PROVE  \A d \in Copies : /\ phase'[d] = "none" <=> phase[d] = "none"
                               /\ phase'[d] = "ready" => phase[d] = "ready" \/ tries[d] < MaxDeliver
  <2>1. hand.copy \in Copies BY <1>4, HandCopy DEF Ack, Nak, IInv
  <2>2. CASE Ack
    BY <1>0, <2>1, <2>2 DEF Ack, Pending
  <2>3. CASE Nak
    BY <1>0, <2>1, <2>3 DEF Nak, Again
  <2> QED BY <1>4, <2>2, <2>3
<1>5. ASSUME GivesUp \/ SidecarExits \/ SidecarDies \/ PodReplaced
      PROVE  \A d \in Copies : /\ phase'[d] = "none" <=> phase[d] = "none"
                               /\ phase'[d] = "ready" => phase[d] = "ready" \/ tries[d] < MaxDeliver
  <2>1. Forgets BY <1>5 DEF GivesUp, SidecarExits, SidecarDies, PodReplaced, EmptyHanded
  <2> QED BY <1>0, <2>1 DEF Forgets, Unheard
<1>6. \/ UNCHANGED phase \/ (\E c \in Copies : AckWait(c))
      \/ Ack \/ Nak \/ GivesUp \/ SidecarExits \/ SidecarDies \/ PodReplaced
  BY DEF Others, WindowEnds, Expire, Begin, Post, PostFails, PostUnanswered,
         SidecarStarts, AgentReady, AgentStarts, AgentDies, vars
<1> QED BY <1>1, <1>2, <1>3, <1>4, <1>5, <1>6 DEF Unpublished

LEMMA StepCases ==
  ASSUME [Next]_vars
  PROVE  (\E m \in Inputs : Publish(m)) \/ Delivers \/ Others
  BY DEF Next, Delivers, Others

LEMMA BrokerStep ==
  ASSUME IInv, [Next]_vars
  PROVE  Numbered' /\ Untouched' /\ MayDeliver'
<1>0. /\ phase \in [Copies -> {"none", "ready", "out", "settled", "spent"}]
      /\ tries \in [Copies -> 0 .. MaxDeliver] /\ published \in Nat
      /\ MaxDeliver \in Nat \ {0} /\ \A c \in Copies : c[2] \in Nat
  BY InputsAssumption DEF IInv, TypeOK, Copies
<1>i. Numbered /\ Untouched /\ MayDeliver BY DEF IInv
<1>1. ASSUME NEW m \in Inputs, Publish(m) PROVE Numbered' /\ Untouched' /\ MayDeliver'
  <2> DEFINE f == Fresh(m)
  <2>1. /\ f \in Copies /\ phase[f] = "none" /\ tries[f] = 0 /\ published' = published + 1
        /\ \/ UNCHANGED <<phase, tries, buffer>>
           \/ /\ \E k \in {"ready", "spent"} : phase' = [phase EXCEPT ![f] = k]
              /\ UNCHANGED <<tries, buffer>>
           \/ /\ phase' = [phase EXCEPT ![f] = "out"]
              /\ tries' = [tries EXCEPT ![f] = 1]
    BY <1>1, Published
  <2>2. f[2] = published + 1 BY DEF Fresh
  <2> HIDE DEF f
  <2>3. Numbered' BY <1>0, <1>i, <2>1, <2>2 DEF Numbered
  <2>4. Untouched' BY <1>0, <1>i, <2>1 DEF Untouched
  <2>5. MayDeliver' BY <1>0, <1>i, <2>1 DEF MayDeliver
  <2> QED BY <2>3, <2>4, <2>5
<1>2. CASE Delivers
  <2>1. PICK c \in Copies : Deliver(c) BY <1>2 DEF Delivers
  <2>2. /\ phase[c] = "ready" /\ phase' = [phase EXCEPT ![c] = "out"] /\ published' = published
        /\ tries' = [tries EXCEPT ![c] = @ + 1]
    BY <2>1 DEF Deliver
  <2>3. Numbered' BY <1>0, <1>i, <2>2 DEF Numbered
  <2>4. Untouched' BY <1>0, <1>i, <2>2 DEF Untouched
  <2>5. MayDeliver' BY <1>0, <1>i, <2>2 DEF MayDeliver
  <2> QED BY <2>3, <2>4, <2>5
<1>3. CASE Others
  BY <1>i, <1>3, OthersLeave DEF Unpublished, Numbered, Untouched, MayDeliver
<1> QED BY <1>1, <1>2, <1>3, StepCases
-----------------------------------------------------------------------------
(* The deliveries.                                                         *)

LEMMA CountTypes ==
  ASSUME TypeOK, NEW c \in Copies
  PROVE  /\ read[c] \in Nat /\ Waiting(c) \in Nat /\ Posting(c) \in {0, 1} /\ tries[c] \in Nat
  BY PlacesType, InputsAssumption DEF TypeOK, Waiting, Posting

LEMMA CountedStep ==
  ASSUME IInv, [Next]_vars
  PROVE  Counted'
<1> USE DEF broker, channel
<1>0. TypeOK /\ TypeOK' BY TypeStep DEF IInv
<1>i. \A c \in Copies : read[c] + Waiting(c) + Posting(c) <= tries[c] BY DEF IInv, Counted
<1>t. \A c \in Copies : /\ read[c] \in Nat /\ Waiting(c) \in Nat /\ Posting(c) \in {0, 1}
                        /\ tries[c] \in Nat
  BY <1>0, CountTypes
<1>b. buffer \in Seq(Copies) BY <1>0 DEF TypeOK
<1>1. ASSUME NEW m \in Inputs, Publish(m) PROVE Counted'
  <2> DEFINE f == Fresh(m)
  <2>1. /\ f \in Copies /\ tries[f] = 0 /\ UNCHANGED <<hand, read>>
        /\ \/ UNCHANGED <<tries, buffer>>
           \/ tries' = [tries EXCEPT ![f] = 1] /\ buffer' = Append(buffer, f)
    BY <1>1, Published
  <2> HIDE DEF f
  <2>2. \A c \in Copies : Posting(c)' = Posting(c) BY <2>1 DEF Posting, At
  <2>3. CASE UNCHANGED <<tries, buffer>>
    BY <1>i, <2>1, <2>2, <2>3 DEF Counted, Waiting
  <2>4. CASE tries' = [tries EXCEPT ![f] = 1] /\ buffer' = Append(buffer, f)
    <3>1. \A c \in Copies : Waiting(c)' = Waiting(c) + (IF f = c THEN 1 ELSE 0)
      BY <1>b, <2>1, <2>4, PlacesAppended DEF Waiting
    <3>2. \A c \in Copies : tries'[c] = IF c = f THEN 1 ELSE tries[c] BY <1>0, <2>4 DEF TypeOK
    <3> QED BY <1>i, <1>t, <2>1, <2>2, <3>1, <3>2 DEF Counted
  <2> QED BY <2>1, <2>3, <2>4
<1>2. CASE Delivers
  <2>1. PICK c \in Copies : Deliver(c) BY <1>2 DEF Delivers
  <2>2. /\ tries' = [tries EXCEPT ![c] = @ + 1] /\ buffer' = Append(buffer, c)
        /\ UNCHANGED <<hand, read>>
    BY <2>1 DEF Deliver
  <2>3. \A d \in Copies : Posting(d)' = Posting(d) BY <2>2 DEF Posting, At
  <2>4. \A d \in Copies : Waiting(d)' = Waiting(d) + (IF c = d THEN 1 ELSE 0)
    BY <1>b, <2>2, PlacesAppended DEF Waiting
  <2>5. \A d \in Copies : tries'[d] = IF d = c THEN tries[d] + 1 ELSE tries[d]
    BY <1>0, <2>2 DEF TypeOK
  <2> QED BY <1>i, <1>t, <2>2, <2>3, <2>4, <2>5 DEF Counted
<1>3. ASSUME UNCHANGED <<tries, read, buffer, hand>> PROVE Counted'
  BY <1>i, <1>3 DEF Counted, Waiting, Posting, At
<1>4. CASE Begin
  <2>1. /\ hand'.copy = Head(buffer) /\ buffer # <<>> /\ buffer' = Tail(buffer)
        /\ UNCHANGED <<tries, read>> /\ hand = Nothing
    BY <1>0, <1>4, Begun DEF Begin
  <2>2. \A c \in Copies : Waiting(c)' + (IF Head(buffer) = c THEN 1 ELSE 0) <= Waiting(c)
    BY <1>b, <2>1, PlacesTaken DEF Waiting
  <2>3. \A c \in Copies : Posting(c)' <= IF Head(buffer) = c THEN 1 ELSE 0
    BY <2>1 DEF Posting
  <2>4. \A c \in Copies : Waiting(c)' \in Nat /\ Posting(c)' \in {0, 1}
    <3>1. buffer' \in Seq(Copies) BY <1>0 DEF TypeOK
    <3> QED BY <3>1, PlacesType DEF Waiting, Posting
  <2> QED BY <1>i, <1>t, <2>1, <2>2, <2>3, <2>4 DEF Counted
<1>5. CASE Post \/ PostUnanswered
  <2>1. /\ At("post") /\ hand.copy \in Copies /\ UNCHANGED <<tries, buffer>>
        /\ read' = [read EXCEPT ![hand.copy] = @ + 1]
    BY <1>0, <1>5, HandCopy DEF Post, PostUnanswered, Handed
  <2>2. hand'.stage \in {"ack", "nak"}
    BY <1>0, <1>5, <2>1, HandMoves DEF Post, PostUnanswered, AfterError
  <2>3. \A c \in Copies : Posting(c)' = 0 /\ Waiting(c)' = Waiting(c)
    BY <2>1, <2>2 DEF Posting, At, Waiting
  <2>4. \A c \in Copies : read'[c] = read[c] + Posting(c)
    BY <1>0, <1>t, <2>1 DEF TypeOK, Posting
  <2> QED BY <1>i, <1>t, <2>1, <2>3, <2>4 DEF Counted
<1>6. CASE PostFails \/ Ack \/ Nak
  <2>1. UNCHANGED <<tries, read, buffer>> BY <1>6 DEF PostFails, Ack, Nak
  <2>2. ~At("post")'
    <3>1. CASE PostFails
      BY <1>0, <3>1, HandMoves DEF PostFails, AfterError, At
    <3>2. CASE Ack \/ Nak
      BY <3>2 DEF Ack, Nak, At
    <3> QED BY <1>6, <3>1, <3>2
  <2>3. \A c \in Copies : Posting(c)' = 0 /\ Waiting(c)' = Waiting(c)
    BY <2>1, <2>2 DEF Posting, Waiting
  <2> QED BY <1>i, <1>t, <2>1, <2>3 DEF Counted
<1>7. CASE GivesUp \/ SidecarExits \/ SidecarDies \/ PodReplaced
  <2>1. UNCHANGED <<tries, read>> /\ buffer' = <<>> /\ (hand' = hand \/ hand' = Nothing)
    BY <1>7 DEF GivesUp, SidecarExits, SidecarDies, PodReplaced, EmptyHanded
  <2>2. \A c \in Copies : Waiting(c)' = 0 BY <2>1, PlacesOfNone DEF Waiting
  <2>3. \A c \in Copies : Posting(c)' \in {0, 1} /\ Posting(c)' <= Posting(c)
    BY <2>1 DEF Posting, At
  <2> QED BY <1>i, <1>t, <2>1, <2>2, <2>3 DEF Counted
<1>8. CASE \/ \E m \in Inputs : WindowEnds(m) \/ Expire(m)
           \/ \E c \in Copies : AckWait(c)
           \/ SidecarStarts \/ AgentReady \/ AgentStarts \/ AgentDies \/ UNCHANGED vars
  BY <1>3, <1>8 DEF WindowEnds, Expire, AckWait, SidecarStarts, AgentReady, AgentStarts, AgentDies,
                    vars
<1> QED BY <1>1, <1>2, <1>4, <1>5, <1>6, <1>7, <1>8, StepCases DEF Others

LEMMA AckedStep ==
  ASSUME IInv, [Next]_vars
  PROVE  AckedReason'
<1> USE DEF broker, channel
<1>0. TypeOK /\ AckedReason BY DEF IInv
<1>1. ASSUME UNCHANGED <<hand, read>>, expired \subseteq expired' PROVE AckedReason'
  BY <1>0, <1>1 DEF AckedReason, At
<1>2. CASE Begin
  <2>1. /\ hand'.copy = Head(buffer) /\ UNCHANGED expired
        /\ hand'.stage = IF IsStale(Head(buffer)[1]) THEN "ack" ELSE "post"
    BY <1>0, <1>2, Begun DEF Begin
  <2> QED BY <2>1 DEF AckedReason, At, IsStale
<1>3. CASE Post
  <2>1. /\ hand.copy \in Copies /\ read' = [read EXCEPT ![hand.copy] = @ + 1]
        /\ hand'.copy = hand.copy
    BY <1>0, <1>3, HandCopy, HandMoves DEF Post, Handed
  <2>2. read'[hand.copy] > 0 BY <1>0, <2>1 DEF TypeOK
  <2> QED BY <2>1, <2>2 DEF AckedReason
<1>4. CASE PostFails \/ PostUnanswered
  <2>1. hand'.stage = "nak" BY <1>0, <1>4, HandMoves DEF PostFails, PostUnanswered, AfterError
  <2> QED BY <2>1 DEF AckedReason, At
<1>5. CASE Ack \/ Nak \/ SidecarExits \/ SidecarDies \/ PodReplaced
  BY <1>5 DEF Ack, Nak, SidecarExits, SidecarDies, PodReplaced, EmptyHanded, AckedReason, At
<1>6. ASSUME NEW m \in Inputs, Publish(m) \/ WindowEnds(m) \/ Expire(m) PROVE AckedReason'
  BY <1>1, <1>6 DEF Publish, WindowEnds, Expire
<1>7. ASSUME NEW c \in Copies, Deliver(c) \/ AckWait(c) PROVE AckedReason'
  BY <1>1, <1>7 DEF Deliver, AckWait
<1>8. CASE SidecarStarts \/ AgentReady \/ GivesUp \/ AgentStarts \/ AgentDies \/ UNCHANGED vars
  BY <1>1, <1>8 DEF SidecarStarts, AgentReady, GivesUp, AgentStarts, AgentDies, vars
<1> QED BY <1>2, <1>3, <1>4, <1>5, <1>6, <1>7, <1>8 DEF Next

LEMMA InitInvariant == Init => IInv
<1> SUFFICES ASSUME Init PROVE IInv OBVIOUS
<1>1. TypeOK
  <2>1. path \in {"jetstream", "core"} BY InputsAssumption DEF Init
  <2>2. buffer \in Seq(Copies) BY DEF Init
  <2>3. tries \in [Copies -> 0 .. MaxDeliver] /\ published \in 0 .. MaxCopies
        /\ crashes \in 0 .. MaxCrashes
    BY InputsAssumption DEF Init
  <2>4. read \in [Copies -> Nat] /\ excuses \in [Inputs -> Nat] BY DEF Init
  <2> QED BY <2>1, <2>2, <2>3, <2>4 DEF Init, TypeOK
<1>2. Counted
  <2>1. \A c \in Copies : Waiting(c) = 0 BY PlacesOfNone DEF Init, Waiting
  <2>2. \A c \in Copies : Posting(c) = 0 BY DEF Init, Posting, At
  <2> QED BY <2>1, <2>2 DEF Init, Counted
<1>3. AckedReason BY DEF Init, AckedReason, At
<1> QED BY <1>1, <1>2, <1>3 DEF Init, IInv, Numbered, Untouched, MayDeliver

LEMMA StepInvariant == IInv /\ [Next]_vars => IInv'
  BY TypeStep, CountedStep, BrokerStep, AckedStep DEF IInv

LEMMA Invariance == Spec => []IInv
  BY InitInvariant, StepInvariant, PTL DEF Spec

(* The channel keeps its types: in particular no copy is delivered oftener *)
(* than max_deliver, however acks, crashes and ack waits interleave.       *)
THEOREM InputTypes == Spec => []TypeOK
<1>1. IInv => TypeOK BY DEF IInv
<1> QED BY <1>1, Invariance, PTL
-----------------------------------------------------------------------------
(* The refinement.                                                         *)

Stale == {c \in Copies : c[1] \in expired}

(* The mailbox sees nothing of a step that moves no copy between "none",   *)
(* "held" (ready or out), "settled" and "given_up".                        *)
Kind(k) ==
  IF k = "none" THEN "none"
  ELSE IF k \in {"ready", "out"} THEN "held"
  ELSE IF k = "settled" THEN "settled" ELSE "given_up"

LEMMA BoxIsKind ==
  /\ Box = [c \in Copies |-> Kind(phase[c])]
  /\ Box' = [c \in Copies |-> Kind(phase'[c])]
<1>1. \A c \in Copies : Box[c] = Kind(phase[c]) /\ Box'[c] = Kind(phase'[c])
  BY DEF Box, Pending, Kind
<1> QED BY <1>1 DEF Box

LEMMA SameBox ==
  ASSUME \A c \in Copies : Kind(phase'[c]) = Kind(phase[c])
  PROVE  Box' = Box
  BY BoxIsKind

LEMMA OneMoves ==
  ASSUME NEW c \in Copies, NEW k, phase' = [phase EXCEPT ![c] = k],
         phase \in [Copies -> {"none", "ready", "out", "settled", "spent"}]
  PROVE  Box' = [Box EXCEPT ![c] = Kind(k)] /\ Box[c] = Kind(phase[c])
<1>1. \A d \in Copies : phase'[d] = IF d = c THEN k ELSE phase[d] OBVIOUS
<1> QED BY <1>1, BoxIsKind

(* Copies that are given up.                                               *)
LEMMA Dropping ==
  ASSUME NEW some \in SUBSET Copies, \A c \in some : phase[c] \in {"ready", "out"},
         \A c \in Copies : Kind(phase'[c]) = IF c \in some THEN "given_up" ELSE Kind(phase[c]),
         UNCHANGED <<read, expired>>
  PROVE  some \in SUBSET Promise!Held /\ Promise!GiveUp(some)
<1>1. \A c \in some : Box[c] = "held" BY BoxIsKind DEF Kind
<1>2. Box' = [c \in Copies |-> IF c \in some THEN "given_up" ELSE Box[c]] BY BoxIsKind
<1> QED BY <1>1, <1>2 DEF Promise!GiveUp, Promise!Held

LEMMA StepRefines ==
  ASSUME IInv, IInv', [Next]_vars
  PROVE  [Promise!Next]_(Promise!vars)
<1> USE DEF broker, channel
<1>0. /\ phase \in [Copies -> {"none", "ready", "out", "settled", "spent"}]
      /\ read \in [Copies -> Nat] /\ TypeOK
  BY DEF IInv, TypeOK
<1>1. ASSUME UNCHANGED <<read, expired>>, \A c \in Copies : Kind(phase'[c]) = Kind(phase[c])
      PROVE  UNCHANGED Promise!vars
  BY <1>1, SameBox DEF Promise!vars
<1>g. ASSUME NEW some \in SUBSET Promise!Held, Promise!GiveUp(some) PROVE Promise!Next
  BY <1>g DEF Promise!Next
<1>2. ASSUME NEW m \in Inputs, Publish(m) PROVE Promise!Next \/ UNCHANGED Promise!vars
  <2> DEFINE f == Fresh(m)
  <2>1. /\ f \in Copies /\ phase[f] = "none" /\ UNCHANGED <<read, expired>>
        /\ \/ UNCHANGED phase
           \/ \E k \in {"ready", "spent", "out"} : phase' = [phase EXCEPT ![f] = k]
    BY <1>2, Published
  <2> HIDE DEF f
  <2>2. CASE UNCHANGED phase
    BY <1>1, <2>1, <2>2
  <2>3. ASSUME NEW k \in {"ready", "spent", "out"}, phase' = [phase EXCEPT ![f] = k]
        PROVE  Promise!Next
    <3>1. Box' = [Box EXCEPT ![f] = Kind(k)] /\ Box[f] = "none"
      BY <1>0, <2>1, <2>3, OneMoves DEF Kind
    <3>2. Kind(k) \in {"held", "given_up"} BY DEF Kind
    <3>3. Promise!Accept(f) BY <2>1, <3>1, <3>2 DEF Promise!Accept
    <3> QED BY <2>1, <3>3 DEF Promise!Next
  <2> QED BY <2>1, <2>2, <2>3
<1>3. ASSUME NEW m \in Inputs, Expire(m) PROVE Promise!Next
  <2>1. expired' = expired \cup {m} /\ UNCHANGED <<phase, read>> BY <1>3 DEF Expire
  <2>2. Box' = Box BY <2>1, SameBox
  <2>3. /\ {c \in Copies : c[1] \in expired} \subseteq {c \in Copies : c[1] \in expired'}
        /\ {c \in Copies : c[1] \in expired'} \in SUBSET Copies
    BY <2>1
  <2>4. Promise!GoStale BY <2>1, <2>2, <2>3 DEF Promise!GoStale
  <2> QED BY <2>4 DEF Promise!Next
<1>4. ASSUME NEW c \in Copies, Deliver(c) PROVE UNCHANGED Promise!vars
  <2>1. UNCHANGED <<read, expired>> /\ phase[c] = "ready" /\ phase' = [phase EXCEPT ![c] = "out"]
    BY <1>4 DEF Deliver
  <2>2. \A d \in Copies : Kind(phase'[d]) = Kind(phase[d]) BY <1>0, <2>1 DEF Kind
  <2> QED BY <1>1, <2>1, <2>2
<1>5. ASSUME NEW c \in Copies, UNCHANGED <<read, expired>>, phase[c] \in {"ready", "out"},
             \E k \in {"ready", "out", "spent"} : phase' = [phase EXCEPT ![c] = k]
      PROVE  Promise!Next \/ UNCHANGED Promise!vars
  <2>1. PICK k \in {"ready", "out", "spent"} : phase' = [phase EXCEPT ![c] = k] BY <1>5
  <2>2. CASE k = "spent"
    <3>1. \A d \in Copies :
            Kind(phase'[d]) = IF d \in {c} THEN "given_up" ELSE Kind(phase[d])
      BY <1>0, <2>1, <2>2 DEF Kind
    <3>2. {c} \in SUBSET Promise!Held /\ Promise!GiveUp({c}) BY <1>5, <3>1, Dropping
    <3> QED BY <1>g, <3>2
  <2>3. CASE k # "spent"
    <3>1. \A d \in Copies : Kind(phase'[d]) = Kind(phase[d])
      BY <1>0, <1>5, <2>1, <2>3 DEF Kind
    <3> QED BY <1>1, <1>5, <3>1
  <2> QED BY <2>2, <2>3
<1>6. ASSUME NEW c \in Copies, AckWait(c) PROVE Promise!Next \/ UNCHANGED Promise!vars
  <2>1. Again(c) \in {"ready", "spent"} BY DEF Again
  <2> QED BY <1>5, <1>6, <2>1 DEF AckWait
<1>7. CASE Post \/ PostUnanswered
  <2> DEFINE c == hand.copy
  <2>1. /\ At("post") /\ c \in Copies /\ UNCHANGED <<phase, expired>>
        /\ read' = [read EXCEPT ![c] = @ + 1]
    BY <1>0, <1>7, HandCopy DEF Post, PostUnanswered, Handed
  <2>2. Box' = Box /\ Box[c] = Kind(phase[c]) BY <2>1, SameBox, BoxIsKind
  <2>3. read[c] < MaxDeliver /\ tries[c] > 0
    <3>1. Posting(c) = 1 BY <2>1 DEF Posting
    <3>2. read[c] + Waiting(c) + 1 <= tries[c] BY <2>1, <3>1 DEF IInv, Counted
    <3>3. /\ read[c] \in Nat /\ Waiting(c) \in Nat /\ MaxDeliver \in Nat
          /\ tries[c] \in 0 .. MaxDeliver
      BY <1>0, <2>1, CountTypes, InputsAssumption DEF TypeOK
    <3> QED BY <3>2, <3>3
  <2>4. phase[c] # "none" BY <1>0, <2>1, <2>3 DEF IInv, Untouched
  <2>5. Box[c] # "none" BY <2>2, <2>4 DEF Kind
  <2>6. Promise!Hand(c) BY <2>1, <2>2, <2>3, <2>5 DEF Promise!Hand
  <2> QED BY <2>1, <2>6 DEF Promise!Next
<1>8. CASE Ack
  <2> DEFINE c == hand.copy
  <2>1. At("ack") /\ c \in Copies /\ UNCHANGED <<read, expired>>
    BY <1>0, <1>8, HandCopy DEF Ack
  <2>2. phase' = phase \/ phase' = [phase EXCEPT ![c] = IF Pending(c) THEN "settled" ELSE @]
    BY <1>8 DEF Ack
  <2>3. CASE Pending(c) /\ phase' = [phase EXCEPT ![c] = "settled"]
    <3>1. Box' = [Box EXCEPT ![c] = "settled"] /\ Box[c] = "held"
      BY <1>0, <2>1, <2>3, OneMoves DEF Kind, Pending
    <3>2. read[c] > 0 \/ c \in {d \in Copies : d[1] \in expired}
      BY <2>1 DEF IInv, AckedReason
    <3>3. Promise!Settle(c) BY <2>1, <3>1, <3>2 DEF Promise!Settle
    <3> QED BY <2>1, <3>3 DEF Promise!Next
  <2>4. CASE phase' = phase
    BY <1>1, <2>1, <2>4
  <2>5. Pending(c) \/ phase' = phase BY <1>0, <2>1, <2>2
  <2> QED BY <2>2, <2>3, <2>4, <2>5
<1>9. CASE Nak
  <2> DEFINE c == hand.copy
  <2>1. c \in Copies /\ UNCHANGED <<read, expired>>
    BY <1>0, <1>9, HandCopy DEF Nak
  <2>2. Again(c) \in {"ready", "spent"} BY DEF Again
  <2>3. \/ phase' = phase
        \/ phase[c] = "out" /\ \E k \in {"ready", "spent"} : phase' = [phase EXCEPT ![c] = k]
    BY <1>0, <1>9, <2>1, <2>2 DEF Nak
  <2> QED BY <1>1, <1>5, <2>1, <2>3
<1>10. CASE GivesUp \/ SidecarExits \/ SidecarDies \/ PodReplaced
  <2>1. Forgets /\ UNCHANGED <<read, expired>>
    BY <1>10 DEF GivesUp, SidecarExits, SidecarDies, PodReplaced, EmptyHanded
  <2>2. \A c \in Copies :
          Kind(phase'[c]) = IF c \in Unheard THEN "given_up" ELSE Kind(phase[c])
    BY <1>0, <2>1 DEF Forgets, Kind
  <2>3. Unheard \in SUBSET Copies /\ \A c \in Unheard : phase[c] \in {"ready", "out"}
    BY DEF Unheard
  <2> HIDE DEF Unheard
  <2>4. Unheard \in SUBSET Promise!Held /\ Promise!GiveUp(Unheard) BY <2>1, <2>2, <2>3, Dropping
  <2> QED BY <1>g, <2>4
<1>11. CASE Begin \/ PostFails
  BY <1>1, <1>11 DEF Begin, PostFails
<1>12. ASSUME NEW m \in Inputs, WindowEnds(m) PROVE UNCHANGED Promise!vars
  BY <1>1, <1>12 DEF WindowEnds
<1>13. CASE SidecarStarts \/ AgentReady \/ AgentStarts \/ AgentDies \/ UNCHANGED vars
  BY <1>1, <1>13 DEF SidecarStarts, AgentReady, AgentStarts, AgentDies, vars
<1> QED BY <1>2, <1>3, <1>4, <1>6, <1>7, <1>8, <1>9, <1>10, <1>11, <1>12, <1>13 DEF Next

LEMMA InitRefines == Init => Promise!Init
<1> SUFFICES ASSUME Init PROVE Promise!Init OBVIOUS
<1>1. Box = [c \in Copies |-> "none"] BY BoxIsKind DEF Init, Kind
<1> QED BY <1>1 DEF Init, Promise!Init

(* The channel implements the mailbox: nothing is put away unread unless   *)
(* it is stale, no copy is handed over oftener than max_deliver, and what  *)
(* was put away or given up stays so, for any number of inputs, copies,    *)
(* crashes and lost acknowledgements, on either path.                      *)
THEOREM ChannelIsMailbox == Spec => ImplementsMailbox
<1>1. IInv /\ IInv' /\ [Next]_vars => [Promise!Next]_(Promise!vars) BY StepRefines
<1> QED BY InitRefines, Invariance, <1>1, PTL DEF Spec, ImplementsMailbox, Promise!Spec
-----------------------------------------------------------------------------
(* What an input still has coming to it: its deliveries in the buffer, the *)
(* one in hand unless it is only to be acknowledged, its copies that will  *)
(* be delivered, and a first publication that will get through.  Together  *)
(* with what it was handed over they are within its excuses.               *)
CopiesOf(m) == {c \in Copies : c[1] = m}
Held(m) == Cardinality(Places(buffer, CopiesOf(m)))
Due(m) == Cardinality({c \in CopiesOf(m) : phase[c] = "ready"})
Open(m) == IF hand # Nothing /\ hand.stage # "ack" /\ hand.copy[1] = m THEN 1 ELSE 0
New(m) == IF IF path = "jetstream" THEN m \in known ELSE Sent(m) THEN 0 ELSE 1
Within(m) == Readings(m) + Held(m) + Due(m) + Open(m) + New(m) <= 1 + excuses[m]
Accounted == \A m \in Inputs : Within(m)

(* Finite sets that get no larger, one larger, or one smaller.             *)
LEMMA Keeps ==
  ASSUME NEW S, IsFiniteSet(S), NEW T, T \subseteq S
  PROVE  /\ Cardinality(S) \in Nat /\ Cardinality(T) \in Nat
         /\ Cardinality(T) <= Cardinality(S)
<1>1. IsFiniteSet(T) /\ Cardinality(T) <= Cardinality(S) BY FS_Subset
<1> QED BY <1>1, FS_CardinalityType

LEMMA Grows ==
  ASSUME NEW S, IsFiniteSet(S), NEW x, NEW T, T \subseteq S \cup {x}
  PROVE  Cardinality(T) <= Cardinality(S) + 1
<1>1. /\ IsFiniteSet(S \cup {x})
      /\ Cardinality(S \cup {x}) = IF x \in S THEN Cardinality(S) ELSE Cardinality(S) + 1
  BY FS_AddElement
<1>2. Cardinality(S) \in Nat BY FS_CardinalityType
<1>3. Cardinality(T) \in Nat /\ Cardinality(T) <= Cardinality(S \cup {x}) BY <1>1, Keeps
<1> QED BY <1>1, <1>2, <1>3

LEMMA Shrinks ==
  ASSUME NEW S, IsFiniteSet(S), NEW x \in S, NEW T, T \subseteq S \ {x}
  PROVE  Cardinality(T) + 1 <= Cardinality(S)
<1>1. IsFiniteSet(S \ {x}) /\ Cardinality(S \ {x}) = Cardinality(S) - 1 BY FS_RemoveElement
<1>2. Cardinality(S) \in Nat BY FS_CardinalityType
<1> QED BY <1>1, <1>2, Keeps

(* The copies of an input are finitely many.                               *)
LEMMA FewCopies ==
  ASSUME NEW m \in Inputs
  PROVE  /\ IsFiniteSet(CopiesOf(m))
         /\ IsFiniteSet({h \in Copies \X (1 .. MaxDeliver) : h[1][1] = m})
<1> DEFINE C == {m} \X (1 .. MaxCopies)
<1>1. IsFiniteSet(1 .. MaxCopies) /\ IsFiniteSet(1 .. MaxDeliver)
  BY FS_Interval, InputsAssumption
<1>2. IsFiniteSet({m}) BY FS_Singleton
<1>3. IsFiniteSet(C) BY <1>1, <1>2, FS_Product
<1>4. IsFiniteSet(C \X (1 .. MaxDeliver)) BY <1>1, <1>3, FS_Product
<1>5. CopiesOf(m) \subseteq C BY DEF Copies, CopiesOf
<1>6. {h \in Copies \X (1 .. MaxDeliver) : h[1][1] = m} \subseteq C \X (1 .. MaxDeliver)
  BY DEF Copies
<1> QED BY <1>3, <1>4, <1>5, <1>6, FS_Subset

(* All of these are numbers.                                               *)
LEMMA Measured ==
  ASSUME NEW m \in Inputs, NEW s \in Seq(Copies), NEW ph, NEW rd
  PROVE  /\ Cardinality(Places(s, CopiesOf(m))) \in Nat
         /\ Cardinality({c \in CopiesOf(m) : ph[c] = "ready"}) \in Nat
         /\ Cardinality({h \in Copies \X (1 .. MaxDeliver) : h[1][1] = m /\ h[2] <= rd[h[1]]}) \in Nat
<1>1. IsFiniteSet({c \in CopiesOf(m) : ph[c] = "ready"}) BY FewCopies, FS_Subset
<1>2. IsFiniteSet({h \in Copies \X (1 .. MaxDeliver) : h[1][1] = m /\ h[2] <= rd[h[1]]})
  <2>1. {h \in Copies \X (1 .. MaxDeliver) : h[1][1] = m /\ h[2] <= rd[h[1]]}
          \subseteq {h \in Copies \X (1 .. MaxDeliver) : h[1][1] = m}
    OBVIOUS
  <2> QED BY <2>1, FewCopies, FS_Subset
<1> QED BY <1>1, <1>2, PlacesType, FS_CardinalityType

LEMMA Numbers ==
  ASSUME TypeOK, TypeOK', NEW m \in Inputs
  PROVE  /\ Readings(m) \in Nat /\ Held(m) \in Nat /\ Due(m) \in Nat /\ Open(m) \in {0, 1}
         /\ New(m) \in {0, 1} /\ excuses[m] \in Nat
         /\ Readings(m)' \in Nat /\ Held(m)' \in Nat /\ Due(m)' \in Nat /\ Open(m)' \in {0, 1}
         /\ New(m)' \in {0, 1} /\ excuses'[m] \in Nat
<1>1. buffer \in Seq(Copies) /\ buffer' \in Seq(Copies) /\ excuses[m] \in Nat /\ excuses'[m] \in Nat
  BY DEF TypeOK
<1>2. CopiesOf(m)' = CopiesOf(m) BY DEF CopiesOf
<1> QED BY <1>1, <1>2, Measured DEF Held, Due, Readings, Open, New

(* What becomes of each of them when a step moves one copy.                *)
LEMMA DueMoves ==
  ASSUME NEW m \in Inputs
  PROVE  /\ (\A d \in CopiesOf(m) : phase'[d] = "ready" => phase[d] = "ready") => Due(m)' <= Due(m)
         /\ \A c \in Copies :
              (\A d \in CopiesOf(m) \ {c} : phase'[d] = "ready" => phase[d] = "ready") =>
                Due(m)' <= Due(m) + (IF c[1] = m THEN 1 ELSE 0)
         /\ \A c \in CopiesOf(m) :
              /\ \A d \in CopiesOf(m) : phase'[d] = "ready" => phase[d] = "ready" /\ d # c
              /\ phase[c] = "ready"
              => Due(m)' + 1 <= Due(m)
<1> DEFINE R == {c \in CopiesOf(m) : phase[c] = "ready"}
           T == {c \in CopiesOf(m) : phase'[c] = "ready"}
<1>1. IsFiniteSet(R) BY FewCopies, FS_Subset
<1>2. Due(m) = Cardinality(R) /\ Due(m)' = Cardinality(T) BY DEF Due, CopiesOf
<1>3. ASSUME \A d \in CopiesOf(m) : phase'[d] = "ready" => phase[d] = "ready"
      PROVE  Due(m)' <= Due(m)
  <2>1. T \subseteq R BY <1>3
  <2> HIDE DEF R, T
  <2> QED BY <1>1, <1>2, <2>1, Keeps
<1>4. ASSUME NEW c \in Copies,
             \A d \in CopiesOf(m) \ {c} : phase'[d] = "ready" => phase[d] = "ready"
      PROVE  Due(m)' <= Due(m) + (IF c[1] = m THEN 1 ELSE 0)
  <2>1. T \subseteq R \cup {c} BY <1>4
  <2>2. c[1] # m => T \subseteq R BY <1>4 DEF CopiesOf
  <2> HIDE DEF R, T
  <2>3. Cardinality(T) <= Cardinality(R) + 1 BY <1>1, <2>1, Grows
  <2>4. c[1] # m => Cardinality(T) <= Cardinality(R) BY <1>1, <2>2, Keeps
  <2>5. Cardinality(R) \in Nat BY <1>1, FS_CardinalityType
  <2> QED BY <1>2, <2>3, <2>4, <2>5
<1>5. ASSUME NEW c \in CopiesOf(m), phase[c] = "ready",
             \A d \in CopiesOf(m) : phase'[d] = "ready" => phase[d] = "ready" /\ d # c
      PROVE  Due(m)' + 1 <= Due(m)
  <2>1. c \in R /\ T \subseteq R \ {c} BY <1>5
  <2> HIDE DEF R, T
  <2> QED BY <1>1, <1>2, <2>1, Shrinks
<1> QED BY <1>3, <1>4, <1>5

LEMMA ReadMoves ==
  ASSUME TypeOK, NEW c \in Copies, read' = [read EXCEPT ![c] = @ + 1], NEW m \in Inputs
  PROVE  Readings(m)' <= Readings(m) + (IF c[1] = m THEN 1 ELSE 0)
<1> DEFINE H == {h \in Copies \X (1 .. MaxDeliver) : h[1][1] = m /\ h[2] <= read[h[1]]}
           G == {h \in Copies \X (1 .. MaxDeliver) : h[1][1] = m /\ h[2] <= read'[h[1]]}
           last == <<c, read[c] + 1>>
<1>1. IsFiniteSet(H)
  <2>1. H \subseteq {h \in Copies \X (1 .. MaxDeliver) : h[1][1] = m} OBVIOUS
  <2> QED BY <2>1, FewCopies, FS_Subset
<1>2. Readings(m) = Cardinality(H) /\ Readings(m)' = Cardinality(G) BY DEF Readings
<1>3. ASSUME NEW h \in G PROVE h \in H \/ (h = last /\ c[1] = m)
  <2>1. PICK d \in Copies, n \in 1 .. MaxDeliver : h = <<d, n>> OBVIOUS
  <2>2. d[1] = m /\ n <= read'[d] /\ n \in Nat BY <1>3, <2>1
  <2>3. read[d] \in Nat /\ read'[d] = IF d = c THEN read[d] + 1 ELSE read[d] BY DEF TypeOK
  <2>4. n <= read[d] \/ (d = c /\ n = read[c] + 1) BY <2>2, <2>3
  <2> QED BY <2>1, <2>2, <2>4
<1>4. G \subseteq H \cup {last} /\ (c[1] # m => G \subseteq H) BY <1>3
<1> HIDE DEF G, H, last
<1>5. Cardinality(G) <= Cardinality(H) + 1 BY <1>1, <1>4, Grows
<1>6. c[1] # m => Cardinality(G) <= Cardinality(H) BY <1>1, <1>4, Keeps
<1>7. Cardinality(H) \in Nat BY <1>1, FS_CardinalityType
<1> QED BY <1>2, <1>5, <1>6, <1>7

(* A first publication is behind an input once the stream knows it, or     *)
(* once it was sent.                                                       *)
LEMMA SentStays ==
  ASSUME IInv, [Next]_vars, NEW m \in Inputs, Sent(m)
  PROVE  Sent(m)'
<1>1. PICK c \in Copies : c[1] = m /\ phase[c] # "none" BY DEF Sent
<1>0. phase \in [Copies -> {"none", "ready", "out", "settled", "spent"}] BY DEF IInv, TypeOK
<1>2. phase'[c] # "none"
  <2>1. CASE \E k \in Inputs : Publish(k)
    <3>1. PICK k \in Inputs : Publish(k) BY <2>1
    <3>2. /\ phase[Fresh(k)] = "none"
          /\ phase' = phase \/ \E b \in {"ready", "spent", "out"} : phase' = [phase EXCEPT ![Fresh(k)] = b]
      BY <3>1, Published
    <3> QED BY <1>0, <1>1, <3>2
  <2>2. CASE Delivers
    BY <1>0, <1>1, <2>2 DEF Delivers, Deliver
  <2>3. CASE Others
    BY <1>1, <2>3, OthersLeave DEF Unpublished
  <2> QED BY <2>1, <2>2, <2>3, StepCases
<1> QED BY <1>1, <1>2 DEF Sent

LEMMA NewFalls ==
  ASSUME IInv, [Next]_vars, NEW m \in Inputs, path' = path, m \in known => m \in known'
  PROVE  New(m)' <= New(m)
  BY SentStays DEF New

(* A publication.                                                          *)
LEMMA AccountedPublish ==
  ASSUME IInv, TypeOK', Accounted, NEW k \in Inputs, Publish(k), NEW m \in Inputs
  PROVE  Within(m)'
<1> USE DEF broker, channel
<1>0. /\ TypeOK /\ buffer \in Seq(Copies) /\ excuses \in [Inputs -> Nat]
      /\ phase \in [Copies -> {"none", "ready", "out", "settled", "spent"}]
  BY DEF IInv, TypeOK
<1>n. /\ Readings(m) \in Nat /\ Held(m) \in Nat /\ Due(m) \in Nat /\ Open(m) \in {0, 1}
      /\ New(m) \in {0, 1} /\ excuses[m] \in Nat
      /\ Readings(m)' \in Nat /\ Held(m)' \in Nat /\ Due(m)' \in Nat /\ Open(m)' \in {0, 1}
      /\ New(m)' \in {0, 1} /\ excuses'[m] \in Nat
  BY <1>0, Numbers
<1>i. Within(m) BY DEF Accounted
<1>f. Fresh(k) \in Copies /\ Fresh(k)[1] = k BY Published DEF Fresh
<1>s. [Next]_vars BY DEF Next
<1>1. UNCHANGED <<path, hand, read>> /\ known \subseteq known' BY DEF Publish
<1>2. Readings(m)' = Readings(m) /\ Open(m)' = Open(m) BY <1>1 DEF Readings, Open
<1>3. New(m)' <= New(m) BY <1>1, <1>s, NewFalls
<1>4. CASE path = "jetstream" /\ ~Duplicate(k)
  <2>1. /\ known' = known \cup {k} /\ phase' = [phase EXCEPT ![Fresh(k)] = "ready"]
        /\ UNCHANGED <<buffer, excuses>>
    BY <1>4 DEF Publish, Fresh
  <2>2. Held(m)' = Held(m) BY <2>1 DEF Held, CopiesOf
  <2>3. Due(m)' <= Due(m) + (IF k = m THEN 1 ELSE 0)
    <3>1. \A d \in CopiesOf(m) \ {Fresh(k)} : phase'[d] = "ready" => phase[d] = "ready"
      BY <1>0, <2>1 DEF CopiesOf
    <3> QED BY <1>f, <3>1, DueMoves
  <2>4. k = m => New(m) = 1 /\ New(m)' = 0 BY <1>1, <1>4, <2>1 DEF New, Duplicate
  <2> QED BY <1>n, <1>i, <1>2, <1>3, <2>1, <2>2, <2>3, <2>4 DEF Within
<1>5. CASE path = "jetstream" /\ Duplicate(k)
  <2>1. UNCHANGED <<phase, buffer, excuses>> BY <1>5 DEF Publish
  <2>2. Held(m)' = Held(m) /\ Due(m)' = Due(m) BY <2>1 DEF Held, Due, CopiesOf
  <2> QED BY <1>n, <1>i, <1>2, <1>3, <2>1, <2>2 DEF Within
<1>6. CASE path = "core"
  <2>1. /\ \E b \in {"out", "spent"} : phase' = [phase EXCEPT ![Fresh(k)] = b]
        /\ buffer' = buffer \/ buffer' = Append(buffer, Fresh(k))
        /\ IF Sent(k) THEN Excuse(k) ELSE UNCHANGED excuses
    BY <1>6 DEF Publish, Fresh
  <2>2. Due(m)' <= Due(m)
    <3>1. \A d \in CopiesOf(m) : phase'[d] = "ready" => phase[d] = "ready"
      BY <1>0, <2>1 DEF CopiesOf
    <3> QED BY <3>1, DueMoves
  <2>3. Held(m)' <= Held(m) + (IF k = m THEN 1 ELSE 0)
    <3>1. CASE buffer' = buffer
      <4>1. Held(m)' = Held(m) BY <3>1 DEF Held, CopiesOf
      <4> QED BY <1>n, <4>1
    <3>2. CASE buffer' = Append(buffer, Fresh(k))
      <4>1. Fresh(k) \in CopiesOf(m) <=> k = m BY <1>f DEF CopiesOf
      <4>2. Held(m)' = Cardinality(Places(Append(buffer, Fresh(k)), CopiesOf(m)))
        BY <3>2 DEF Held, CopiesOf
      <4>3. Cardinality(Places(Append(buffer, Fresh(k)), CopiesOf(m)))
              = Cardinality(Places(buffer, CopiesOf(m)))
                  + (IF Fresh(k) \in CopiesOf(m) THEN 1 ELSE 0)
        BY <1>0, <1>f, PlacesAppended
      <4> QED BY <1>n, <4>1, <4>2, <4>3 DEF Held
    <3> QED BY <2>1, <3>1, <3>2
  <2>4. excuses'[m] = excuses[m] + (IF k = m /\ Sent(k) THEN 1 ELSE 0)
    BY <1>0, <1>n, <2>1 DEF Excuse
  <2>5. k = m /\ ~Sent(k) => New(m) = 1 /\ New(m)' = 0
    <3>1. Sent(k)' BY <1>0, <1>f, <2>1 DEF Sent
    <3> QED BY <1>1, <1>6, <3>1 DEF New
  <2> QED BY <1>n, <1>i, <1>2, <1>3, <2>2, <2>3, <2>4, <2>5 DEF Within
<1> QED BY <1>4, <1>5, <1>6 DEF Publish

(* Every other step: what comes to an input is moved on, or lost, or one   *)
(* more with an excuse.                                                    *)
LEMMA AccountedElse ==
  ASSUME IInv, TypeOK', Accounted, Delivers \/ Others, NEW m \in Inputs
  PROVE  Within(m)'
<1> USE DEF broker, channel
<1>0. /\ TypeOK /\ buffer \in Seq(Copies) /\ excuses \in [Inputs -> Nat]
      /\ phase \in [Copies -> {"none", "ready", "out", "settled", "spent"}]
  BY DEF IInv, TypeOK
<1>n. /\ Readings(m) \in Nat /\ Held(m) \in Nat /\ Due(m) \in Nat /\ Open(m) \in {0, 1}
      /\ New(m) \in {0, 1} /\ excuses[m] \in Nat
      /\ Readings(m)' \in Nat /\ Held(m)' \in Nat /\ Due(m)' \in Nat /\ Open(m)' \in {0, 1}
      /\ New(m)' \in {0, 1} /\ excuses'[m] \in Nat
  BY <1>0, Numbers
<1>i. Within(m) BY DEF Accounted
<1>s. [Next]_vars BY DEF Delivers, Others, Next
<1>3. known \subseteq known' => New(m)' <= New(m)
  <2>1. path' = path
    BY DEF Delivers, Others, Deliver, WindowEnds, Expire, AckWait, Begin, Post, PostFails, PostUnanswered,
           Ack, Nak, SidecarStarts, AgentReady, GivesUp,
           SidecarExits, SidecarDies, PodReplaced, EmptyHanded, AgentStarts, AgentDies, vars
  <2> QED BY <1>s, <2>1, NewFalls
<1>r. UNCHANGED read => Readings(m)' = Readings(m) BY DEF Readings
<1>h. UNCHANGED buffer => Held(m)' = Held(m) BY DEF Held, CopiesOf
<1>o. UNCHANGED hand => Open(m)' = Open(m) BY DEF Open
<1>d. UNCHANGED phase => Due(m)' = Due(m) BY DEF Due, CopiesOf
<1>e. \A k \in Inputs : Excuse(k) => excuses'[m] = excuses[m] + (IF k = m THEN 1 ELSE 0)
  BY <1>0, <1>n DEF Excuse
<1>c. \A c \in Copies : c[1] \in Inputs /\ (c \in CopiesOf(m) <=> c[1] = m) BY DEF Copies, CopiesOf
<1>4. ASSUME NEW c \in Copies, Deliver(c) PROVE Within(m)'
  <2>1. /\ phase[c] = "ready" /\ phase' = [phase EXCEPT ![c] = "out"]
        /\ buffer' = Append(buffer, c) /\ UNCHANGED <<known, read, hand, excuses>>
    BY <1>4 DEF Deliver
  <2>2. Held(m)' = Held(m) + (IF c \in CopiesOf(m) THEN 1 ELSE 0)
    <3>1. Held(m)' = Cardinality(Places(Append(buffer, c), CopiesOf(m)))
      BY <2>1 DEF Held, CopiesOf
    <3> QED BY <1>0, <3>1, PlacesAppended DEF Held
  <2>3. \A d \in CopiesOf(m) : phase'[d] = "ready" => phase[d] = "ready" /\ d # c
    BY <1>0, <2>1 DEF CopiesOf
  <2>4. c \in CopiesOf(m) => Due(m)' + 1 <= Due(m) BY <2>1, <2>3, DueMoves
  <2>5. Due(m)' <= Due(m) BY <2>3, DueMoves
  <2>6. Held(m)' + Due(m)' <= Held(m) + Due(m) BY <1>n, <2>2, <2>4, <2>5
  <2>7. /\ New(m)' <= New(m) /\ Readings(m)' = Readings(m) /\ Open(m)' = Open(m)
        /\ excuses'[m] = excuses[m]
    BY <1>3, <1>r, <1>o, <2>1
  <2> QED BY <1>n, <1>i, <2>6, <2>7 DEF Within
<1>5. ASSUME NEW k \in Inputs, WindowEnds(k) PROVE Within(m)'
  <2>1. known' = known \ {k} /\ Excuse(k) /\ UNCHANGED <<path, phase, buffer, hand, read>>
    BY <1>5 DEF WindowEnds
  <2>2. k # m => New(m)' = New(m) BY <2>1 DEF New, Sent
  <2> QED BY <1>n, <1>i, <1>r, <1>h, <1>o, <1>d, <1>e, <2>1, <2>2 DEF Within
<1>6. ASSUME NEW c \in Copies, AckWait(c) PROVE Within(m)'
  <2>1. /\ phase' = [phase EXCEPT ![c] = Again(c)] /\ Excuse(c[1])
        /\ UNCHANGED <<known, read, hand, buffer>>
    BY <1>6 DEF AckWait
  <2>2. \A d \in CopiesOf(m) \ {c} : phase'[d] = "ready" => phase[d] = "ready"
    BY <1>0, <2>1 DEF CopiesOf
  <2>3. Due(m)' <= Due(m) + (IF c[1] = m THEN 1 ELSE 0) BY <2>2, DueMoves
  <2> QED BY <1>n, <1>i, <1>3, <1>r, <1>h, <1>o, <1>e, <1>c, <2>1, <2>3 DEF Within
<1>7. CASE Begin
  <2>1. /\ hand'.copy = Head(buffer) /\ buffer # <<>> /\ buffer' = Tail(buffer)
        /\ hand = Nothing /\ UNCHANGED <<known, phase, read, excuses>> /\ Head(buffer) \in Copies
    BY <1>0, <1>7, Begun DEF Begin
  <2>2. Held(m)' + (IF Head(buffer) \in CopiesOf(m) THEN 1 ELSE 0) <= Held(m)
    <3>1. Held(m)' = Cardinality(Places(Tail(buffer), CopiesOf(m))) BY <2>1 DEF Held, CopiesOf
    <3> QED BY <1>0, <2>1, <3>1, PlacesTaken DEF Held
  <2>3. Open(m)' <= IF Head(buffer) \in CopiesOf(m) THEN 1 ELSE 0
    BY <1>c, <2>1 DEF Open
  <2>4. Held(m)' + Open(m)' <= Held(m) + Open(m) BY <1>n, <2>2, <2>3
  <2>5. /\ New(m)' <= New(m) /\ Readings(m)' = Readings(m) /\ Due(m)' = Due(m)
        /\ excuses'[m] = excuses[m]
    BY <1>3, <1>r, <1>d, <2>1
  <2> QED BY <1>n, <1>i, <2>4, <2>5 DEF Within
<1>8. ASSUME At("post"), Handed,
             hand' = [hand EXCEPT !.stage = "ack"] \/
               (Excuse(hand.copy[1]) /\ hand' = [hand EXCEPT !.stage = "nak"]),
             UNCHANGED <<known, phase, buffer>>,
             hand' = [hand EXCEPT !.stage = "ack"] => UNCHANGED excuses
      PROVE  Within(m)'
  <2>1. /\ hand.copy \in Copies /\ hand.stage = "post" /\ hand # Nothing
    BY <1>0, <1>8, HandCopy DEF At
  <2>2. Readings(m)' <= Readings(m) + (IF hand.copy[1] = m THEN 1 ELSE 0)
    BY <1>0, <1>8, <2>1, ReadMoves DEF Handed
  <2>3. CASE hand' = [hand EXCEPT !.stage = "ack"]
    <3>1. hand'.stage = "ack" BY <1>0, <1>8, <2>3, HandMoves
    <3>2. Open(m)' = 0 /\ Open(m) = IF hand.copy[1] = m THEN 1 ELSE 0 BY <2>1, <3>1 DEF Open
    <3> QED BY <1>n, <1>i, <1>3, <1>h, <1>d, <1>8, <2>2, <2>3, <3>2 DEF Within
  <2>4. CASE Excuse(hand.copy[1]) /\ hand' = [hand EXCEPT !.stage = "nak"]
    <3>1. hand'.stage = "nak" /\ hand'.copy = hand.copy /\ hand' # Nothing
      BY <1>0, <1>8, <2>4, HandMoves
    <3>2. Open(m)' = Open(m) BY <2>1, <3>1 DEF Open
    <3>3. excuses'[m] = excuses[m] + (IF hand.copy[1] = m THEN 1 ELSE 0) BY <1>c, <1>e, <2>1, <2>4
    <3> QED BY <1>n, <1>i, <1>3, <1>h, <1>d, <1>8, <2>2, <3>2, <3>3 DEF Within
  <2> QED BY <1>8, <2>3, <2>4
<1>9. CASE Post
  BY <1>8, <1>9 DEF Post
<1>10. CASE PostUnanswered
  <2>1. hand' # [hand EXCEPT !.stage = "ack"]
    <3>1. /\ hand \in [copy : Copies, stage : {"post", "ack", "nak"}]
          /\ hand' = [hand EXCEPT !.stage = "nak"]
      BY <1>0, <1>10, HandCopy DEF PostUnanswered, AfterError
    <3>2. hand'.stage = "nak" /\ [hand EXCEPT !.stage = "ack"].stage = "ack" BY <3>1
    <3> QED BY <3>2
  <2> QED BY <1>8, <1>10, <2>1 DEF PostUnanswered, AfterError
<1>11. CASE PostFails
  <2>1. /\ hand'.stage = "nak" /\ hand'.copy = hand.copy /\ hand' # Nothing /\ hand # Nothing
        /\ hand.stage = "post" /\ UNCHANGED <<known, phase, read, buffer, excuses>>
    BY <1>0, <1>11, HandMoves DEF PostFails, AfterError, At
  <2>2. Open(m)' = Open(m) BY <2>1 DEF Open
  <2> QED BY <1>n, <1>i, <1>3, <1>r, <1>h, <1>d, <2>1, <2>2 DEF Within
<1>12. CASE Ack \/ Nak
  <2>1. /\ hand.copy \in Copies /\ hand # Nothing /\ hand' = Nothing
        /\ UNCHANGED <<known, read, buffer, excuses>>
    BY <1>0, <1>12, HandCopy DEF Ack, Nak, At
  <2>2. Open(m)' = 0 BY <2>1 DEF Open
  <2>3. CASE Ack
    <3>1. \A d \in CopiesOf(m) : phase'[d] = "ready" => phase[d] = "ready"
      BY <1>0, <2>1, <2>3 DEF Ack, CopiesOf
    <3>2. Due(m)' <= Due(m) BY <3>1, DueMoves
    <3> QED BY <1>n, <1>i, <1>3, <1>r, <1>h, <2>1, <2>2, <3>2 DEF Within
  <2>4. CASE Nak
    <3>1. \A d \in CopiesOf(m) \ {hand.copy} : phase'[d] = "ready" => phase[d] = "ready"
      BY <1>0, <2>1, <2>4 DEF Nak, CopiesOf
    <3>2. Due(m)' <= Due(m) + (IF hand.copy[1] = m THEN 1 ELSE 0) BY <2>1, <3>1, DueMoves
    <3>3. Open(m) = IF hand.copy[1] = m THEN 1 ELSE 0
      BY <2>1, <2>4 DEF Open, Nak, At
    <3> QED BY <1>n, <1>i, <1>3, <1>r, <1>h, <2>1, <2>2, <3>2, <3>3 DEF Within
  <2> QED BY <1>12, <2>3, <2>4
<1>13. CASE GivesUp \/ SidecarExits \/ SidecarDies \/ PodReplaced
  <2>1. /\ buffer' = <<>> /\ (hand' = hand \/ hand' = Nothing) /\ Forgets
        /\ UNCHANGED <<known, read, excuses>>
    BY <1>13 DEF GivesUp, SidecarExits, SidecarDies, PodReplaced, EmptyHanded
  <2>2. Held(m)' = 0 BY <2>1, PlacesOfNone DEF Held
  <2>3. Open(m)' <= Open(m) BY <1>n, <2>1 DEF Open
  <2>4. \A d \in CopiesOf(m) : phase'[d] = "ready" => phase[d] = "ready"
    BY <1>0, <2>1 DEF Forgets, CopiesOf
  <2>5. Due(m)' <= Due(m) BY <2>4, DueMoves
  <2>6. New(m)' <= New(m) /\ Readings(m)' = Readings(m) /\ excuses'[m] = excuses[m]
    BY <1>3, <1>r, <2>1
  <2> QED BY <1>n, <1>i, <2>2, <2>3, <2>5, <2>6 DEF Within
<1>14. CASE \/ \E k \in Inputs : Expire(k)
            \/ SidecarStarts \/ AgentReady \/ AgentStarts \/ AgentDies \/ UNCHANGED vars
  <2>1. UNCHANGED <<known, phase, read, buffer, hand, excuses>>
    BY <1>14 DEF Expire, SidecarStarts, AgentReady, AgentStarts, AgentDies, vars
  <2> QED BY <1>n, <1>i, <1>3, <1>r, <1>h, <1>o, <1>d, <2>1 DEF Within
<1> QED BY <1>4, <1>5, <1>6, <1>7, <1>9, <1>10, <1>11, <1>12, <1>13, <1>14 DEF Delivers, Others

(* An input is handed over no more than once without an excuse, for any    *)
(* number of inputs, publications, deliveries, crashes and lost            *)
(* acknowledgements, on either path.                                       *)
THEOREM HandedOverOnce == Spec => []OnceUnlessExcused
<1>1. Init => Accounted
  <2> SUFFICES ASSUME Init, NEW m \in Inputs PROVE Within(m) BY DEF Accounted
  <2>1. read = [c \in Copies |-> 0] /\ phase = [c \in Copies |-> "none"] /\ buffer = <<>>
        /\ hand = Nothing /\ excuses[m] = 0
    BY DEF Init
  <2>2. Readings(m) = 0
    <3>1. {h \in Copies \X (1 .. MaxDeliver) : h[1][1] = m /\ h[2] <= read[h[1]]} = {}
      BY <2>1, InputsAssumption
    <3> QED BY <3>1, FS_EmptySet DEF Readings
  <2>3. Held(m) = 0 BY <2>1, PlacesOfNone DEF Held
  <2>4. Due(m) = 0
    <3>1. {c \in CopiesOf(m) : phase[c] = "ready"} = {} BY <2>1 DEF CopiesOf
    <3> QED BY <3>1, FS_EmptySet DEF Due
  <2>5. Open(m) = 0 /\ New(m) \in {0, 1} BY <2>1 DEF Open, New
  <2> QED BY <2>1, <2>2, <2>3, <2>4, <2>5 DEF Within
<1>2. IInv /\ IInv' /\ Accounted /\ [Next]_vars => Accounted'
  <2> SUFFICES ASSUME IInv, IInv', Accounted, [Next]_vars, NEW m \in Inputs PROVE Within(m)'
    BY DEF Accounted
  <2>1. TypeOK' BY DEF IInv
  <2> QED BY <2>1, StepCases, AccountedPublish, AccountedElse
<1>3. IInv /\ Accounted => OnceUnlessExcused
  <2> SUFFICES ASSUME IInv, Accounted, NEW m \in Inputs PROVE Readings(m) <= 1 + excuses[m]
    BY DEF OnceUnlessExcused
  <2>1. buffer \in Seq(Copies) /\ excuses[m] \in Nat BY DEF IInv, TypeOK
  <2>2. Readings(m) \in Nat /\ Held(m) \in Nat /\ Due(m) \in Nat
    BY <2>1, Measured DEF Held, Due, Readings
  <2>3. Open(m) \in {0, 1} /\ New(m) \in {0, 1} BY DEF Open, New
  <2> QED BY <2>1, <2>2, <2>3 DEF Accounted, Within
<1> QED BY <1>1, <1>2, <1>3, Invariance, PTL DEF Spec
-----------------------------------------------------------------------------
(* Nothing abandoned.  On the core path a copy that is pending came into   *)
(* the buffer with its publication, goes from there to the hand, and       *)
(* leaves the hand only settled or spent; the path never changes.          *)
LetGo == \A c \in Copies : path = "jetstream" /\ phase[c] = "spent" => tries[c] = MaxDeliver
Kept == \A c \in Copies : path = "core" /\ phase[c] = "out" => c \in Range(buffer) \/ InHand(c)

LEMMA RangeAppended ==
  ASSUME NEW s \in Seq(Copies), NEW d \in Copies
  PROVE  Range(s) \cup {d} \subseteq Range(Append(s, d))
<1>1. /\ Len(s) \in Nat /\ DOMAIN s = 1 .. Len(s) /\ DOMAIN Append(s, d) = 1 .. (Len(s) + 1)
      /\ \A i \in 1 .. Len(s) : Append(s, d)[i] = s[i]
      /\ Append(s, d)[Len(s) + 1] = d
  OBVIOUS
<1>2. \A i \in 1 .. Len(s) : i \in 1 .. (Len(s) + 1) BY <1>1
<1>3. Len(s) + 1 \in 1 .. (Len(s) + 1) BY <1>1
<1> QED BY <1>1, <1>2, <1>3 DEF Range

LEMMA RangeTaken ==
  ASSUME NEW s \in Seq(Copies), s # <<>>
  PROVE  Range(s) \subseteq {Head(s)} \cup Range(Tail(s))
<1>1. /\ Len(s) \in Nat \ {0} /\ DOMAIN s = 1 .. Len(s) /\ DOMAIN Tail(s) = 1 .. (Len(s) - 1)
      /\ Head(s) = s[1] /\ \A i \in 1 .. (Len(s) - 1) : Tail(s)[i] = s[i + 1]
  OBVIOUS
<1>2. \A i \in 1 .. Len(s) : i = 1 \/ (i - 1 \in 1 .. (Len(s) - 1) /\ (i - 1) + 1 = i) BY <1>1
<1>3. ASSUME NEW i \in 1 .. Len(s) PROVE s[i] \in {Head(s)} \cup Range(Tail(s))
  <2>1. CASE i = 1 BY <1>1, <2>1
  <2>2. CASE i # 1
    <3>1. i - 1 \in DOMAIN Tail(s) /\ Tail(s)[i - 1] = s[i] BY <1>1, <1>2, <2>2
    <3> QED BY <3>1 DEF Range
  <2> QED BY <2>1, <2>2
<1> QED BY <1>1, <1>3 DEF Range

(* A copy is spent by Again when its tries are used up, or on the core     *)
(* path; its tries do not change from there.                               *)
LEMMA LetGoStep ==
  ASSUME IInv, LetGo, [Next]_vars
  PROVE  LetGo'
<1> USE DEF broker, channel
<1>0. /\ phase \in [Copies -> {"none", "ready", "out", "settled", "spent"}]
      /\ tries \in [Copies -> 0 .. MaxDeliver] /\ MaxDeliver \in Nat \ {0}
      /\ path \in {"jetstream", "core"}
  BY InputsAssumption DEF IInv, TypeOK
<1>p. path' = path
  BY DEF Next, Publish, WindowEnds, Expire, Deliver, AckWait, Begin, Post, PostFails,
         PostUnanswered, Ack, Nak, SidecarStarts, AgentReady, GivesUp,
         SidecarExits, SidecarDies, PodReplaced, EmptyHanded, AgentStarts,
         AgentDies, vars
<1> SUFFICES ASSUME path = "jetstream" PROVE LetGo' BY <1>0, <1>p DEF LetGo
<1>f. \A c \in Copies : phase[c] = "spent" => tries[c] = MaxDeliver BY DEF LetGo
<1>1. ASSUME NEW m \in Inputs, Publish(m) PROVE LetGo'
  <2>1. /\ tries' = tries
        /\ UNCHANGED phase \/ phase' = [phase EXCEPT ![<<m, published'>>] = "ready"]
    BY <1>1 DEF Publish
  <2> QED BY <1>0, <1>f, <2>1 DEF LetGo
<1>2. ASSUME NEW c \in Copies, Deliver(c) PROVE LetGo'
  BY <1>0, <1>f, <1>2 DEF Deliver, LetGo
<1>3. ASSUME NEW c \in Copies, AckWait(c) PROVE LetGo'
  BY <1>0, <1>f, <1>3 DEF AckWait, Again, LetGo
<1>4. ASSUME Ack \/ Nak PROVE LetGo'
  <2>1. hand.copy \in Copies BY <1>4, HandCopy DEF Ack, Nak, IInv
  <2>2. CASE Ack BY <1>0, <1>f, <2>1, <2>2 DEF Ack, LetGo
  <2>3. CASE Nak BY <1>0, <1>f, <2>1, <2>3 DEF Nak, Again, LetGo
  <2> QED BY <1>4, <2>2, <2>3
<1>5. ASSUME GivesUp \/ SidecarExits \/ SidecarDies \/ PodReplaced PROVE LetGo'
  <2>1. Unheard = {} BY DEF Unheard
  <2>2. \A c \in Copies : phase'[c] = phase[c]
    BY <1>5, <2>1 DEF GivesUp, SidecarExits, SidecarDies, PodReplaced, EmptyHanded, Forgets
  <2>3. tries' = tries BY <1>5 DEF GivesUp, SidecarExits, SidecarDies, PodReplaced, EmptyHanded
  <2> QED BY <1>f, <2>2, <2>3 DEF LetGo
<1>6. ASSUME UNCHANGED <<phase, tries>> PROVE LetGo'
  BY <1>f, <1>6 DEF LetGo
<1>7. \/ \E m \in Inputs : Publish(m)
      \/ \E c \in Copies : Deliver(c) \/ AckWait(c)
      \/ Ack \/ Nak \/ GivesUp
      \/ SidecarExits \/ SidecarDies \/ PodReplaced \/ UNCHANGED <<phase, tries>>
  BY DEF Next, WindowEnds, Expire, Begin, Post, PostFails, PostUnanswered, SidecarStarts,
         AgentReady, AgentStarts, AgentDies, vars
<1> QED BY <1>1, <1>2, <1>3, <1>4, <1>5, <1>6, <1>7

LEMMA KeptStep ==
  ASSUME IInv, Kept, [Next]_vars
  PROVE  Kept'
<1> USE DEF broker, channel
<1>t. TypeOK BY DEF IInv
<1>0. /\ phase \in [Copies -> {"none", "ready", "out", "settled", "spent"}]
      /\ buffer \in Seq(Copies) /\ path \in {"jetstream", "core"}
  BY <1>t DEF TypeOK
<1>p. path' = path
  BY DEF Next, Publish, WindowEnds, Expire, Deliver, AckWait, Begin, Post, PostFails,
         PostUnanswered, Ack, Nak, SidecarStarts, AgentReady, GivesUp,
         SidecarExits, SidecarDies, PodReplaced, EmptyHanded, AgentStarts,
         AgentDies, vars
<1> SUFFICES ASSUME path = "core" PROVE Kept' BY <1>0, <1>p DEF Kept
<1>k. \A c \in Copies : phase[c] = "out" => c \in Range(buffer) \/ InHand(c) BY DEF Kept
<1>1. ASSUME UNCHANGED hand, Range(buffer) \subseteq Range(buffer'),
             \A c \in Copies : phase'[c] = "out" => phase[c] = "out" \/ c \in Range(buffer')
      PROVE  Kept'
  BY <1>k, <1>1 DEF Kept, InHand
<1>2. ASSUME NEW m \in Inputs, Publish(m) PROVE Kept'
  <2>1. Fresh(m) \in Copies /\ UNCHANGED hand BY <1>2, Published
  <2>2. CASE UNCHANGED <<phase, tries, buffer>> BY <1>1, <2>1, <2>2
  <2>3. CASE /\ \E k \in {"ready", "spent"} : phase' = [phase EXCEPT ![Fresh(m)] = k]
             /\ UNCHANGED <<tries, buffer>>
    <3>1. \A c \in Copies : phase'[c] = "out" => phase[c] = "out" BY <1>0, <2>3
    <3> QED BY <1>1, <2>1, <2>3, <3>1
  <2>4. CASE phase' = [phase EXCEPT ![Fresh(m)] = "out"] /\ buffer' = Append(buffer, Fresh(m))
    <3>1. Range(buffer) \cup {Fresh(m)} \subseteq Range(buffer') BY <1>0, <2>1, <2>4, RangeAppended
    <3>2. \A c \in Copies : phase'[c] = "out" => phase[c] = "out" \/ c = Fresh(m) BY <1>0, <2>4
    <3> QED BY <1>1, <2>1, <3>1, <3>2
  <2> QED BY <1>2, <2>2, <2>3, <2>4, Published
<1>3. ASSUME NEW d \in Copies, Deliver(d) PROVE Kept'
  <2>1. /\ phase' = [phase EXCEPT ![d] = "out"] /\ buffer' = Append(buffer, d) /\ UNCHANGED hand
    BY <1>3 DEF Deliver
  <2>2. Range(buffer) \cup {d} \subseteq Range(buffer') BY <1>0, <2>1, RangeAppended
  <2>3. \A c \in Copies : phase'[c] = "out" => phase[c] = "out" \/ c = d BY <1>0, <2>1
  <2> QED BY <1>1, <2>1, <2>2, <2>3
<1>4. CASE Begin
  <2>1. /\ hand' # Nothing /\ hand'.copy = Head(buffer) /\ buffer # <<>> /\ buffer' = Tail(buffer)
        /\ hand = Nothing /\ phase' = phase
    BY <1>t, <1>4, Begun DEF Begin
  <2>2. Range(buffer) \subseteq {Head(buffer)} \cup Range(buffer') BY <1>0, <2>1, RangeTaken
  <2> QED BY <1>k, <2>1, <2>2 DEF Kept, InHand
<1>5. CASE Post \/ PostFails \/ PostUnanswered
  <2>1. hand'.copy = hand.copy /\ hand' # Nothing /\ UNCHANGED <<buffer, phase>>
    BY <1>t, <1>5, HandMoves DEF Post, PostFails, PostUnanswered, AfterError
  <2> QED BY <1>k, <2>1 DEF Kept, InHand
<1>6. CASE Ack \/ Nak
  <2>1. hand.copy \in Copies BY <1>t, <1>6, HandCopy DEF Ack, Nak
  <2>2. \A c \in Copies : phase'[c] = "out" => phase[c] = "out" /\ c # hand.copy
    <3>1. CASE Ack BY <1>0, <2>1, <3>1 DEF Ack, Pending
    <3>2. CASE Nak BY <1>0, <2>1, <3>2 DEF Nak
    <3> QED BY <1>6, <3>1, <3>2
  <2>3. UNCHANGED buffer BY <1>6 DEF Ack, Nak
  <2> QED BY <1>k, <2>2, <2>3 DEF Kept, InHand
<1>7. CASE GivesUp \/ SidecarExits \/ SidecarDies \/ PodReplaced
  <2>1. Forgets BY <1>7 DEF GivesUp, SidecarExits, SidecarDies, PodReplaced, EmptyHanded
  <2>2. \A c \in Copies : phase'[c] # "out" BY <1>0, <2>1 DEF Forgets, Unheard
  <2> QED BY <2>2 DEF Kept
<1>8. CASE UNCHANGED <<phase, buffer, hand>>
  BY <1>1, <1>8
<1>9. \/ \E m \in Inputs : Publish(m)
      \/ \E c \in Copies : Deliver(c)
      \/ Begin \/ Post \/ PostFails \/ PostUnanswered \/ Ack \/ Nak \/ GivesUp
      \/ SidecarExits \/ SidecarDies \/ PodReplaced
      \/ UNCHANGED <<phase, buffer, hand>>
  BY DEF Next, WindowEnds, Expire, AckWait, SidecarStarts, AgentReady, AgentStarts, AgentDies, vars
<1> QED BY <1>2, <1>3, <1>4, <1>5, <1>6, <1>7, <1>8, <1>9

(* For any number of inputs, copies and deliveries: the stream gives a     *)
(* copy up after max_deliver deliveries and no sooner, and what is pending *)
(* on the core path is with the sidecar.  It is what Answered rests on:    *)
(* what is pending can be delivered, awaited or handled by a sidecar that  *)
(* listens.                                                                *)
THEOREM InputsNotAbandoned == Spec => []NothingAbandoned
<1>1. Init => LetGo /\ Kept BY DEF Init, LetGo, Kept
<1>2. IInv /\ LetGo /\ Kept /\ [Next]_vars => (LetGo /\ Kept)' BY LetGoStep, KeptStep
<1>3. LetGo /\ Kept => NothingAbandoned BY DEF LetGo, Kept, NothingAbandoned
<1> QED BY <1>1, <1>2, <1>3, Invariance, PTL DEF Spec
=============================================================================
