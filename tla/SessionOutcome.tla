--------------------------- MODULE SessionOutcome ---------------------------
(***************************************************************************)
(* What the sessions table promises about one run of an agent, seen from   *)
(* far enough that the races between its writers are invisible: a session  *)
(* is created once, stays open while anybody may still write to its row,   *)
(* gets one outcome, and keeps that outcome until the row is deleted.      *)
(*                                                                         *)
(* One step may settle or delete several sessions: a cascade deletes the   *)
(* children with the parent, and an api restart drops at once every        *)
(* handler that was about to write.                                        *)
(***************************************************************************)
CONSTANT Sessions

VARIABLE phase   \* what can be relied on about each session

Phases == {"unborn", "open", "complete", "failed", "deleted"}

(* The only ways a session advances.                                       *)
Moves ==
  { <<"unborn", "open">>, <<"open", "complete">>, <<"open", "failed">>,
    <<"open", "deleted">>, <<"complete", "deleted">>, <<"failed", "deleted">> }

Init == phase = [s \in Sessions |-> "unborn"]

Advance(s) == phase'[s] = phase[s] \/ <<phase[s], phase'[s]>> \in Moves

Next ==
  /\ phase' \in [Sessions -> Phases]
  /\ \A s \in Sessions : Advance(s)

Spec == Init /\ [][Next]_phase
=============================================================================
