------------------------------- MODULE Mailbox -------------------------------
(***************************************************************************)
(* What the input channel promises of every message it is given, whatever  *)
(* carries it: a message it accepted is not put away before the agent was  *)
(* handed it, unless it has gone stale; it is handed over a bounded number *)
(* of times; and once put away or given up it stays so.                    *)
(***************************************************************************)
EXTENDS Naturals

CONSTANTS Letters, Tries

VARIABLES
  box,   \* "none", "held", "settled" or "given_up", of each letter
  read,  \* how often each was handed to the agent
  stale  \* the letters whose time has passed

vars == <<box, read, stale>>

Init ==
  /\ box = [l \in Letters |-> "none"]
  /\ read = [l \in Letters |-> 0]
  /\ stale = {}

(* A letter is taken in, or refused because there is nobody to hold it.    *)
Accept(l) ==
  /\ box[l] = "none"
  /\ \E kept \in {"held", "given_up"} : box' = [box EXCEPT ![l] = kept]
  /\ UNCHANGED <<read, stale>>

Hand(l) ==
  /\ box[l] # "none" /\ read[l] < Tries
  /\ read' = [read EXCEPT ![l] = @ + 1]
  /\ UNCHANGED <<box, stale>>

Settle(l) ==
  /\ box[l] = "held" /\ (read[l] > 0 \/ l \in stale)
  /\ box' = [box EXCEPT ![l] = "settled"]
  /\ UNCHANGED <<read, stale>>

Held == {l \in Letters : box[l] = "held"}
GiveUp(some) ==
  /\ box' = [l \in Letters |-> IF l \in some THEN "given_up" ELSE box[l]]
  /\ UNCHANGED <<read, stale>>

GoStale ==
  /\ stale' \in SUBSET Letters /\ stale \subseteq stale'
  /\ UNCHANGED <<box, read>>

Next ==
  \/ GoStale
  \/ \E l \in Letters : Accept(l) \/ Hand(l) \/ Settle(l)
  \/ \E some \in SUBSET Held : GiveUp(some)

Spec == Init /\ [][Next]_vars
=============================================================================
