----------------------------- MODULE MCScheduler -----------------------------
(* Instances of Scheduler small enough for TLC: a schedule with a slot at  *)
(* every time, or at every other time so that the clock stands between     *)
(* slots too; one agent of each kind at most, since agents share no state  *)
(* but the tick that takes them in turn.                                   *)
EXTENDS Scheduler, TLC

EveryHour == [a \in Agents |-> [t \in Times |-> t + 1]]
EveryOther == [a \in Agents |-> [t \in Times |-> (t + 2) - (t % 2)]]
(* Replicas run the same code on the same tables.                         *)
SameCode == Permutations(Replicas)
=============================================================================
