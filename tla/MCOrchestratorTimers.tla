------------------------ MODULE MCOrchestratorTimers ------------------------
(* Instances of OrchestratorTimers small enough for TLC: one worker child. *)
EXTENDS OrchestratorTimers

Steps == <<1, 2, 4>>
Apart == {{"watch", "reap"}, {"watch"}, {"checkup"}}
=============================================================================
