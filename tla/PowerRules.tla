----------------------------- MODULE PowerRules -----------------------------
(***************************************************************************)
(* The rules of power actions that the store, the engine and the telemetry *)
(* share: what an action asks for, which Docker call the engine makes for  *)
(* it, what that call does, and the status the panel derives from what it  *)
(* observes.                                                               *)
(***************************************************************************)

PowerActions == {"start", "stop", "restart", "kill"}

\* The container's state as Docker reports it.
ContainerStates == {"created", "running", "exited", "restarting", "paused", "absent"}

Transition(a) ==
  CASE a = "start" -> "starting" [] a = "restart" -> "restarting"
    [] OTHER -> "stopping"

DesiredBy(a) == IF a \in {"start", "restart"} THEN "running" ELSE "stopped"

\* A container in its restart backoff is both running and restarting.
Running(s) == s \in {"running", "restarting", "paused"}

\* What the Docker call chosen from the inspected state does to the container
\* (Docker: starting a running container and stopping a stopped one succeed,
\* killing a stopped one is an error).
DockerCall(a, seen) ==
  CASE a = "start" /\ ~Running(seen) -> "start"
    [] a = "restart" -> IF Running(seen) THEN "restart" ELSE "start"
    [] a = "stop" /\ Running(seen) -> "stop"
    [] a = "kill" /\ Running(seen) -> "kill"
    [] OTHER -> "nothing"

DockerResult(call, state) ==
  CASE call = "nothing" -> state
    [] call \in {"start", "restart"} -> "running"
    [] OTHER -> IF Running(state) THEN "exited" ELSE state

DockerRefuses(call, state) ==
  \/ call # "nothing" /\ state = "absent"
  \/ call = "kill" /\ ~Running(state)
  \/ call = "start" /\ state = "paused"

\* Mutant: a server being stopped keeps that status whatever is observed.
runtimeServerStatusSticky(observed, desired, previous) ==
  CASE previous = "stopping" -> "stopping"
    [] observed = "running" -> "running"
    [] observed = "paused" -> "suspended"
    [] observed = "restarting" -> "restarting"
    [] observed \in {"created", "exited"} -> "stopped"
    [] OTHER -> previous

runtimeServerStatus(observed, desired, previous) ==
  CASE observed = "running" ->
         IF desired = "stopped" /\ previous = "stopping" THEN "stopping" ELSE "running"
    [] observed = "paused" -> "suspended"
    [] observed = "restarting" -> "restarting"
    [] observed \in {"created", "exited"} -> "stopped"
    [] OTHER -> previous
=============================================================================
