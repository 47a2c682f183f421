----------------------------- MODULE MCScheduler -----------------------------
(* Instances of Scheduler for TLC: the task lists users enter. *)
EXTENDS Scheduler

CONSTANT Entered \* names of the task lists below

MCChains ==
  {CASE n = "short"  -> <<"notify">>
     [] n = "backup" -> <<"backup", "restart">>
     [] n = "chain"  -> <<"restart", "delay", "backup">> : n \in Entered}
=============================================================================
