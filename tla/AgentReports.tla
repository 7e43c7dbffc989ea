---------------------------- MODULE AgentReports ----------------------------
(***************************************************************************)
(* What the api may rely on when it listens to a pod, and what             *)
(* SessionLifecycle takes for granted: in one life an agent says that it   *)
(* has started and, later, how it ended, each once and in this order; a    *)
(* report is on its way until the api takes it, once, or it is lost; and   *)
(* an end is never taken with the start of the same life still on its way. *)
(***************************************************************************)
EXTENDS Naturals

VARIABLES
  life,   \* the agent's present life; a Job without restarts has one
  word,   \* what the agent has said in it: "none", "up", "over"; "dead" if it died
  inbox,  \* reports on their way
  heard   \* reports the api took

vars == <<life, word, inbox, heard>>

Saying(what) == [life |-> life, what |-> what]

Init == life = 1 /\ word = "none" /\ inbox = {} /\ heard = {}

(* What is said is on its way, unless there is nobody to send it.          *)
Say(what) ==
  /\ inbox' \in {inbox, inbox \cup {Saying(what)}}
  /\ UNCHANGED <<life, heard>>
Start == word = "none" /\ word' = "up" /\ Say("started")
End == word = "up" /\ word' = "over" /\ Say("terminal")

Die == word' = "dead" /\ UNCHANGED <<life, inbox, heard>>

(* Another life, in this pod or, without what was on its way, in another.  *)
Restart ==
  /\ life' = life + 1 /\ word' = "none"
  /\ inbox' \subseteq inbox
  /\ UNCHANGED heard

InOrder(r) == r.what = "terminal" => [r EXCEPT !.what = "started"] \notin inbox
Take(r) ==
  /\ r \in inbox /\ InOrder(r)
  /\ inbox' = inbox \ {r} /\ heard' = heard \cup {r}
  /\ UNCHANGED <<life, word>>

Lose ==
  /\ inbox' \subseteq inbox
  /\ UNCHANGED <<life, word, heard>>

Next == Start \/ End \/ Die \/ Restart \/ Lose \/ \E r \in inbox : Take(r)

Spec == Init /\ [][Next]_vars
=============================================================================
