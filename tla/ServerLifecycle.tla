--------------------------- MODULE ServerLifecycle ---------------------------
(***************************************************************************)
(* The lifecycle of one provisioned game server: its row in the servers    *)
(* table, its Docker container, the power, console, delete and workflow    *)
(* requests the app serves concurrently, and the single worker goroutine   *)
(* that applies telemetry, executes queued power actions, runs automatic   *)
(* recovery and the workflows (backup restore, template update).           *)
(*                                                                         *)
(* A workflow is reduced to what it does to the row and to the power of    *)
(* the container; ServerWorkflow has its steps.                            *)
(*                                                                         *)
(* A database transaction is one step.  A call to the engine is several:   *)
(* the engine updates the restart policy, inspects the container and acts  *)
(* on it in separate Docker calls, and everything else may happen between  *)
(* them.  Time is abstracted: an event that is due may be claimed at once  *)
(* or much later, so backoff, recovery delays and lock leases are the      *)
(* scheduler's choice.                                                     *)
(***************************************************************************)
EXTENDS Naturals, FiniteSets, PowerRules

CONSTANTS
  Reqs,        \* requests made of the panel; each is made at most once
  Actions,     \* the kinds of request that are made
  Queued,      \* TRUE: a schedule may request power through the outbox
  EnvEvents,   \* what happens to the container outside the panel
  RecIds,      \* identities of server.recover outbox events
  RecoveryCap, \* the attempt at which recovery becomes persistent (5 in the code)
  MaxFails,    \* bound: engine calls that fail
  MaxAborts,   \* bound: handlers and worker runs cut short by a crash
  Worker,      \* the worker goroutine, as a caller of the engine
  None         \* no request, no event, no snapshot

ASSUME ConstantsAssumption ==
  /\ Actions \subseteq PowerActions \cup {"console", "delete", "workflow"}
  /\ Queued \in BOOLEAN
  /\ EnvEvents \subseteq {"exit", "stop", "pause", "remove"}
  /\ RecoveryCap \in Nat \ {0}
  /\ MaxFails \in Nat
  /\ MaxAborts \in Nat
  /\ Worker \notin Reqs
  /\ None \notin Reqs \cup RecIds

VARIABLES
  srv,    \* the row of table servers
  recEv,  \* recEv[e]: attempt of the unprocessed server.recover event e, 0 if none
  cont,   \* the Docker container
  req,    \* req[r]: the handler of request r and its row in operations
  eng,    \* eng[c]: the engine's power handler serving caller c
  wk,     \* the worker goroutine
  fails,  \* engine failures so far
  aborts  \* crashes so far

vars == <<srv, recEv, cont, req, eng, wk, fails, aborts>>

Callers == Reqs \cup {Worker}
Statuses == {"running", "stopped", "starting", "stopping", "restarting",
             "suspended", "failed", "deleting"}

ServerRow ==
  [status : Statuses, desired : {"running", "stopped", "deleted"},
   reason : {"none", "requested", "unexpected_exit", "clean_exit"},
   attempts : 0 .. RecoveryCap, window : BOOLEAN,
   missing : Nat, deleted : BOOLEAN,
   \* History: the state the users' power requests ask for, and whether desired
   \* was last written by one of them and not by a workflow.
   asked : {"running", "stopped"}, own : BOOLEAN]

Request ==
  [phase : {"idle", "queued", "call", "ready", "marked", "unmarked", "cancel",
            "remove", "finalize", "done", "lost"},
   action : Actions \cup {"none"},
   op : {"none", "running", "succeeded", "failed"},
   was : BOOLEAN]   \* WasRunning in the payload of a workflow

EngineCall ==
  [phase : {"none", "policy", "inspect", "act", "ok", "error"},
   action : Actions \cup PowerActions \cup {"none"}, seen : ContainerStates]

WorkerState ==
  [phase : {"idle", "snapshot", "power", "begin", "recover", "undo", "finish", "ack",
            "prepare", "halt", "work", "resume", "record"},
   ev : RecIds \cup {None}, attempt : 0 .. RecoveryCap,
   job : Reqs \cup {None},
   snap : ContainerStates \cup {None}, stable : BOOLEAN, failed : BOOLEAN]

TypeOK ==
  /\ srv \in ServerRow
  /\ recEv \in [RecIds -> 0 .. RecoveryCap]
  /\ cont \in [state : ContainerStates, policy : BOOLEAN]
  /\ req \in [Reqs -> Request]
  /\ eng \in [Callers -> EngineCall]
  /\ wk \in WorkerState
  /\ fails \in 0 .. MaxFails
  /\ aborts \in 0 .. MaxAborts

NoCall == [phase |-> "none", action |-> "none", seen |-> "absent"]
Answer(result) == [NoCall EXCEPT !.phase = result]
Call(a) == [NoCall EXCEPT !.phase = "policy", !.action = a]
Idle == [phase |-> "idle", ev |-> None, attempt |-> 0, job |-> None,
         snap |-> None, stable |-> FALSE, failed |-> FALSE]

\* A server whose provisioning has succeeded, started or not.
Init ==
  /\ \E started \in BOOLEAN :
       /\ srv = [status |-> IF started THEN "running" ELSE "stopped",
                 desired |-> IF started THEN "running" ELSE "stopped",
                 reason |-> "none", attempts |-> 0, window |-> FALSE,
                 missing |-> 0, deleted |-> FALSE,
                 asked |-> IF started THEN "running" ELSE "stopped", own |-> TRUE]
       /\ cont = [state |-> IF started THEN "running" ELSE "created",
                  policy |-> TRUE]
  /\ recEv = [e \in RecIds |-> 0]
  /\ req = [r \in Reqs |-> [phase |-> "idle", action |-> "none", op |-> "none", was |-> FALSE]]
  /\ eng = [c \in Callers |-> NoCall]
  /\ wk = Idle
  /\ fails = 0
  /\ aborts = 0

-----------------------------------------------------------------------------
(* Power requests: store.requestPower and store.FinishPower.               *)

MayPower(a) ==
  /\ ~srv.deleted
  /\ srv.status \notin {"deleting", "suspended"}
  /\ a # "kill" => srv.status \notin {"starting", "restarting", "stopping"}
  /\ a = "start" => srv.status # "running"
  /\ a \in {"stop", "kill"} => srv.status # "stopped"

\* Mutant: requestPower without its update of the outbox.
CancelRecoverySkipped == recEv

CancelRecovery == [e \in RecIds |-> 0]

\* The transaction of requestPower; queued requests leave a server.power event
\* in the outbox, immediate ones go on to call the engine themselves.
RequestPower(r, a, queue) ==
  /\ req[r].phase = "idle"
  /\ MayPower(a)
  /\ srv' = [srv EXCEPT !.status = Transition(a), !.desired = DesiredBy(a),
                        !.reason = IF DesiredBy(a) = "stopped" THEN "requested" ELSE "none",
                        !.attempts = 0, !.window = FALSE,
                        !.asked = DesiredBy(a), !.own = TRUE]
  /\ recEv' = IF DesiredBy(a) = "stopped" THEN CancelRecovery ELSE recEv
  /\ req' = [req EXCEPT ![r] = [phase |-> IF queue THEN "queued" ELSE "call",
                                action |-> a, op |-> "running", was |-> FALSE]]
  /\ eng' = IF queue THEN eng ELSE [eng EXCEPT ![r] = Call(a)]
  /\ UNCHANGED <<cont, wk, fails, aborts>>

\* What FinishPower writes to the servers row.
PowerFinished(a, ok) ==
  IF srv.desired # DesiredBy(a) THEN srv
  ELSE IF ~ok
  THEN IF DesiredBy(a) = "stopped"
       THEN [srv EXCEPT !.status = "running", !.desired = "running", !.reason = "none",
                        !.asked = "running"]
       ELSE [srv EXCEPT !.status = "failed"]
  ELSE IF DesiredBy(a) = "running"
  THEN [srv EXCEPT !.status = "running", !.reason = "none",
                   !.attempts = 0, !.window = FALSE]
  ELSE [srv EXCEPT !.status = "stopped", !.reason = "requested"]

\* serverPower's last step: the engine has answered.
FinishPower(r) ==
  /\ req[r].phase = "call"
  /\ eng[r].phase \in {"ok", "error"}
  /\ LET ok == eng[r].phase = "ok" IN
       /\ srv' = PowerFinished(req[r].action, ok)
       /\ req' = [req EXCEPT ![r] = [@ EXCEPT !.phase = "done",
                                       !.op = IF ok THEN "succeeded" ELSE "failed"]]
  /\ eng' = [eng EXCEPT ![r] = NoCall]
  /\ UNCHANGED <<recEv, cont, wk, fails, aborts>>

-----------------------------------------------------------------------------
(* The engine's power handler, for any caller: restart policy, inspection, *)
(* action.  Running and restarting are Docker's two flags; a container in  *)
(* its restart backoff has both.                                           *)

PowerPolicy(c) ==
  /\ eng[c].phase = "policy"
  /\ IF cont.state = "absent"
     THEN /\ eng' = [eng EXCEPT ![c] = Answer("error")]
          /\ UNCHANGED cont
     ELSE /\ cont' = [cont EXCEPT !.policy = eng[c].action \in {"start", "restart"}]
          /\ eng' = [eng EXCEPT ![c].phase = "inspect"]
  /\ UNCHANGED <<srv, recEv, req, wk, fails, aborts>>

PowerInspect(c) ==
  /\ eng[c].phase = "inspect"
  /\ eng' = IF cont.state = "absent"
            THEN [eng EXCEPT ![c] = Answer("error")]
            ELSE [eng EXCEPT ![c] = [@ EXCEPT !.phase = "act", !.seen = cont.state]]
  /\ UNCHANGED <<srv, recEv, cont, req, wk, fails, aborts>>

PowerAct(c) ==
  /\ eng[c].phase = "act"
  /\ LET call == DockerCall(eng[c].action, eng[c].seen) IN
       IF DockerRefuses(call, cont.state)
       THEN /\ eng' = [eng EXCEPT ![c] = Answer("error")]
            /\ UNCHANGED cont
       ELSE /\ cont' = [cont EXCEPT !.state = DockerResult(call, @)]
            /\ eng' = [eng EXCEPT ![c] = Answer("ok")]
  /\ UNCHANGED <<srv, recEv, req, wk, fails, aborts>>

\* Docker or the connection to the engine fails: before the call had its
\* effect, or after it with the answer lost.
EngineFails(c) ==
  /\ fails < MaxFails
  /\ eng[c].phase \in {"policy", "inspect", "act", "ok"}
  /\ eng' = [eng EXCEPT ![c] = Answer("error")]
  /\ fails' = fails + 1
  /\ UNCHANGED <<srv, recEv, cont, req, wk, aborts>>

-----------------------------------------------------------------------------
(* Console commands that match the template's stop command, and deletion.  *)

\* ServerCommandReady, in a transaction of its own.
ConsoleReady(r) ==
  /\ req[r].phase = "idle"
  /\ ~srv.deleted /\ srv.status = "running"
  /\ req' = [req EXCEPT ![r] = [@ EXCEPT !.phase = "ready", !.action = "console"]]
  /\ UNCHANGED <<srv, recEv, cont, eng, wk, fails, aborts>>

MarkConsoleRestartIntent(r) ==
  /\ req[r].phase = "ready"
  /\ IF srv.deleted
     THEN /\ req' = [req EXCEPT ![r].phase = "done"]
          /\ UNCHANGED srv
     ELSE IF srv.desired = "running"
     THEN /\ srv' = [srv EXCEPT !.status = "restarting", !.reason = "none"]
          /\ req' = [req EXCEPT ![r].phase = "marked"]
     ELSE /\ req' = [req EXCEPT ![r].phase = "unmarked"]
          /\ UNCHANGED srv
  /\ UNCHANGED <<recEv, cont, eng, wk, fails, aborts>>

\* The process exits by itself: Docker restarts it or leaves it exited.
Exited == IF cont.policy THEN "restarting" ELSE "exited"

\* The command reaches the game, which then exits; or the engine reports an error.
ConsoleSend(r) ==
  /\ req[r].phase \in {"marked", "unmarked"}
  /\ \/ /\ cont.state = "running"
        /\ cont' = [cont EXCEPT !.state = Exited]
        /\ req' = [req EXCEPT ![r].phase = "done"]
        /\ UNCHANGED fails
     \/ /\ \/ cont.state # "running" /\ UNCHANGED fails
           \/ fails < MaxFails /\ fails' = fails + 1
        /\ req' = [req EXCEPT ![r].phase = IF @ = "marked" THEN "cancel" ELSE "done"]
        /\ UNCHANGED cont
  /\ UNCHANGED <<srv, recEv, eng, wk, aborts>>

CancelConsoleRestartIntent(r) ==
  /\ req[r].phase = "cancel"
  /\ srv' = IF srv.desired = "running" /\ srv.status = "restarting"
            THEN [srv EXCEPT !.status = "running"] ELSE srv
  /\ req' = [req EXCEPT ![r].phase = "done"]
  /\ UNCHANGED <<recEv, cont, eng, wk, fails, aborts>>

RequestDelete(r) ==
  /\ req[r].phase = "idle"
  /\ ~srv.deleted
  /\ req' = [req EXCEPT ![r] = [@ EXCEPT !.phase = "remove", !.action = "delete"]]
  /\ UNCHANGED <<srv, recEv, cont, eng, wk, fails, aborts>>

\* The engine removes the container by force, or fails before or after that.
EngineDelete(r) ==
  /\ req[r].phase = "remove"
  /\ \/ /\ cont' = [cont EXCEPT !.state = "absent"]
        /\ req' = [req EXCEPT ![r].phase = "finalize"]
        /\ UNCHANGED fails
     \/ /\ fails < MaxFails /\ fails' = fails + 1
        /\ cont' \in {cont, [cont EXCEPT !.state = "absent"]}
        /\ req' = [req EXCEPT ![r].phase = "done"]
  /\ UNCHANGED <<srv, recEv, eng, wk, aborts>>

FinalizeServerDeletion(r) ==
  /\ req[r].phase = "finalize"
  /\ srv' = IF srv.deleted THEN srv
            ELSE [srv EXCEPT !.status = "deleting", !.desired = "deleted", !.deleted = TRUE]
  /\ req' = [req EXCEPT ![r].phase = "done"]
  /\ UNCHANGED <<recEv, cont, eng, wk, fails, aborts>>

\* The app stops, or the client disconnects and cancels the handler's context,
\* which also cancels the engine call it was making.
AbandonRequest(r) ==
  /\ aborts < MaxAborts
  /\ req[r].phase \notin {"idle", "queued", "done", "lost"}
  /\ req' = [req EXCEPT ![r].phase = "lost"]
  /\ eng' = [eng EXCEPT ![r] = NoCall]
  /\ aborts' = aborts + 1
  /\ UNCHANGED <<srv, recEv, cont, wk, fails>>

-----------------------------------------------------------------------------
(* Telemetry: engine.Stats, then store.SyncRuntimeStats.                   *)

nextRecoveryAttempt(current) == IF current >= RecoveryCap THEN RecoveryCap ELSE current + 1

StopReason(status, desired, previous) ==
  IF status = "stopped" \/ (status = "stopping" /\ desired = "stopped")
  THEN CASE desired # "running" -> "requested"
         [] previous = "restarting" -> "clean_exit"
         [] OTHER -> "unexpected_exit"
  ELSE "none"

\* A snapshot is taken now and applied later.  stable: up for five minutes.
Stats ==
  /\ wk.phase = "idle"
  /\ \E stable \in BOOLEAN :
       /\ stable => cont.state = "running"
       /\ wk' = [Idle EXCEPT !.phase = "snapshot", !.snap = cont.state, !.stable = stable]
  /\ UNCHANGED <<srv, recEv, cont, req, eng, fails, aborts>>

Observed(status) ==
  [srv EXCEPT !.status = status,
              !.reason = StopReason(status, srv.desired, srv.status),
              !.missing = 0,
              !.attempts = IF status = "running" /\ wk.stable THEN 0 ELSE srv.attempts,
              !.window = srv.window /\ ~(status = "running" /\ wk.stable)]

RecoveryPending == \E e \in RecIds : recEv[e] # 0

\* Mutant: recovery is queued without looking for an unprocessed event.
SyncObservedTwice ==
  LET status == runtimeServerStatus(wk.snap, srv.desired, srv.status)
      attempt == nextRecoveryAttempt(IF srv.window THEN srv.attempts ELSE 0)
  IN IF status = "stopped" /\ srv.desired = "running"
     THEN \E e \in RecIds :
            /\ recEv' = [recEv EXCEPT ![e] = attempt]
            /\ srv' = [Observed(status) EXCEPT !.attempts = attempt, !.window = TRUE]
     ELSE srv' = Observed(status) /\ UNCHANGED recEv

\* Mutant: recovery stops once the attempt counter has reached its cap.
SyncObservedGivesUp ==
  LET status == runtimeServerStatus(wk.snap, srv.desired, srv.status)
      attempt == nextRecoveryAttempt(IF srv.window THEN srv.attempts ELSE 0)
  IN IF status = "stopped" /\ srv.desired = "running" /\ ~RecoveryPending
        /\ srv.attempts < RecoveryCap
     THEN \E e \in RecIds :
            /\ recEv' = [recEv EXCEPT ![e] = attempt]
            /\ srv' = [Observed(status) EXCEPT !.attempts = attempt, !.window = TRUE]
     ELSE srv' = Observed(status) /\ UNCHANGED recEv

SyncObserved ==
  LET status == runtimeServerStatus(wk.snap, srv.desired, srv.status)
      attempt == nextRecoveryAttempt(IF srv.window THEN srv.attempts ELSE 0)
  IN IF status = "stopped" /\ srv.desired = "running" /\ ~RecoveryPending
     THEN \E e \in RecIds :
            /\ recEv' = [recEv EXCEPT ![e] = attempt]
            /\ srv' = [Observed(status) EXCEPT !.attempts = attempt, !.window = TRUE]
     ELSE srv' = Observed(status) /\ UNCHANGED recEv

\* A container missing from two observations was deleted outside the panel:
\* the server is deleted and all its outbox events are cancelled.
SyncMissing ==
  IF srv.missing + 1 < 2
  THEN /\ srv' = [srv EXCEPT !.missing = @ + 1]
       /\ UNCHANGED <<recEv, req>>
  ELSE /\ srv' = [srv EXCEPT !.missing = srv.missing + 1, !.status = "deleting",
                             !.desired = "deleted", !.deleted = TRUE]
       /\ recEv' = CancelRecovery
       /\ req' = [r \in Reqs |-> IF req[r].phase = "queued"
                                 THEN [req[r] EXCEPT !.phase = "lost"] ELSE req[r]]

SyncRuntimeStats ==
  /\ wk.phase = "snapshot"
  /\ IF srv.deleted
     THEN UNCHANGED <<srv, recEv, req>>
     ELSE IF wk.snap = "absent" THEN SyncMissing ELSE SyncObserved /\ UNCHANGED req
  /\ wk' = Idle
  /\ UNCHANGED <<cont, eng, fails, aborts>>

-----------------------------------------------------------------------------
(* Outbox events: Worker.processOne and the handlers of server.power and   *)
(* server.recover.                                                         *)

ClaimPower(r) ==
  /\ wk.phase = "idle"
  /\ req[r].phase = "queued" /\ req[r].action # "workflow"
  /\ wk' = [Idle EXCEPT !.phase = "power", !.job = r]
  /\ eng' = [eng EXCEPT ![Worker] = Call(req[r].action)]
  /\ UNCHANGED <<srv, recEv, cont, req, fails, aborts>>

\* Mutant: the handler acknowledges a failed engine call without FinishPower.
FinishQueuedPowerSkipped ==
  /\ wk.phase = "power"
  /\ eng[Worker].phase \in {"ok", "error"}
  /\ IF eng[Worker].phase = "ok"
     THEN /\ srv' = PowerFinished(req[wk.job].action, TRUE)
          /\ req' = [req EXCEPT ![wk.job].op = "succeeded"]
     ELSE UNCHANGED <<srv, req>>
  /\ eng' = [eng EXCEPT ![Worker] = NoCall]
  /\ wk' = [wk EXCEPT !.phase = "ack"]
  /\ UNCHANGED <<recEv, cont, fails, aborts>>

FinishQueuedPower ==
  /\ wk.phase = "power"
  /\ eng[Worker].phase \in {"ok", "error"}
  /\ LET ok == eng[Worker].phase = "ok"  r == wk.job IN
       /\ srv' = PowerFinished(req[r].action, ok)
       /\ req' = [req EXCEPT ![r].op = IF ok THEN "succeeded" ELSE "failed"]
  /\ eng' = [eng EXCEPT ![Worker] = NoCall]
  /\ wk' = [wk EXCEPT !.phase = "ack"]
  /\ UNCHANGED <<recEv, cont, fails, aborts>>

ClaimRecover(e) ==
  /\ wk.phase = "idle"
  /\ recEv[e] # 0
  /\ wk' = [Idle EXCEPT !.phase = "begin", !.ev = e, !.attempt = recEv[e]]
  /\ UNCHANGED <<srv, recEv, cont, req, eng, fails, aborts>>

\* Mutant: recovery begins whatever state and attempt the row records.
BeginRecoveryUnchecked ==
  /\ wk.phase = "begin"
  /\ IF ~srv.deleted /\ srv.status = "stopped"
     THEN /\ srv' = [srv EXCEPT !.status = "starting"]
          /\ eng' = [eng EXCEPT ![Worker] = Call("start")]
          /\ wk' = [wk EXCEPT !.phase = "recover"]
     ELSE /\ wk' = [wk EXCEPT !.phase = "ack"]
          /\ UNCHANGED <<srv, eng>>
  /\ UNCHANGED <<recEv, cont, req, fails, aborts>>

BeginRecovery ==
  /\ wk.phase = "begin"
  /\ IF /\ ~srv.deleted
        /\ srv.desired = "running"
        /\ srv.status = "stopped"
        /\ srv.attempts = wk.attempt
     THEN /\ srv' = [srv EXCEPT !.status = "starting"]
          /\ eng' = [eng EXCEPT ![Worker] = Call("start")]
          /\ wk' = [wk EXCEPT !.phase = "recover"]
     ELSE /\ wk' = [wk EXCEPT !.phase = "ack"]
          /\ UNCHANGED <<srv, eng>>
  /\ UNCHANGED <<recEv, cont, req, fails, aborts>>

\* Mutant: no check after the start, hence no compensating stop.
RecoveryStillDesiredUnchecked ==
  /\ wk.phase = "recover"
  /\ eng[Worker].phase \in {"ok", "error"}
  /\ wk' = [wk EXCEPT !.phase = "finish", !.failed = eng[Worker].phase # "ok"]
  /\ eng' = [eng EXCEPT ![Worker] = NoCall]
  /\ UNCHANGED <<srv, recEv, cont, req, fails, aborts>>

\* After the start: if the server is no longer meant to run, stop it again.
RecoveryStillDesired ==
  /\ wk.phase = "recover"
  /\ eng[Worker].phase \in {"ok", "error"}
  /\ LET ok == eng[Worker].phase = "ok" IN
       IF ~srv.deleted /\ srv.desired = "running"
       THEN /\ wk' = [wk EXCEPT !.phase = "finish", !.failed = ~ok]
            /\ eng' = [eng EXCEPT ![Worker] = NoCall]
       ELSE IF ok
       THEN /\ wk' = [wk EXCEPT !.phase = "undo"]
            /\ eng' = [eng EXCEPT ![Worker] = Call("stop")]
       ELSE /\ wk' = [wk EXCEPT !.phase = "ack"]
            /\ eng' = [eng EXCEPT ![Worker] = NoCall]
  /\ UNCHANGED <<srv, recEv, cont, req, fails, aborts>>

\* The compensating stop succeeded, or its error sends the event to a retry:
\* the lock is released, but an event cancelled meanwhile stays processed.
RecoveryUndone ==
  /\ wk.phase = "undo"
  /\ eng[Worker].phase \in {"ok", "error"}
  /\ wk' = IF eng[Worker].phase = "ok" THEN [wk EXCEPT !.phase = "ack"] ELSE Idle
  /\ eng' = [eng EXCEPT ![Worker] = NoCall]
  /\ UNCHANGED <<srv, recEv, cont, req, fails, aborts>>

FinishRecovery ==
  /\ wk.phase = "finish"
  /\ srv' = IF srv.desired # "running" THEN srv
            ELSE IF wk.failed
            THEN [srv EXCEPT !.status = "stopped", !.reason = "unexpected_exit"]
            ELSE [srv EXCEPT !.status = "starting"]
  /\ wk' = [wk EXCEPT !.phase = "ack"]
  /\ UNCHANGED <<recEv, cont, req, eng, fails, aborts>>

\* processed_at is set on the event this worker has locked.
Ack ==
  /\ wk.phase = "ack"
  /\ recEv' = IF wk.ev = None THEN recEv ELSE [recEv EXCEPT ![wk.ev] = 0]
  /\ req' = IF wk.job = None \/ req[wk.job].phase # "queued" THEN req
            ELSE [req EXCEPT ![wk.job].phase = "done"]
  /\ wk' = Idle
  /\ UNCHANGED <<srv, cont, eng, fails, aborts>>

\* The worker stops at any point; the event's lock expires and it is claimed again.
WorkerCrash ==
  /\ aborts < MaxAborts
  /\ wk.phase # "idle"
  /\ wk' = Idle
  /\ eng' = [eng EXCEPT ![Worker] = NoCall]
  /\ aborts' = aborts + 1
  /\ UNCHANGED <<srv, recEv, cont, req, fails>>

-----------------------------------------------------------------------------
(* Workflows: QueueBackupRestore and QueueTemplateUpdate, their handlers,  *)
(* FinishBackupRestore and FinishTemplateUpdate.                           *)

\* Both requests ask the server to stop and leave queued recovery alone.
QueueWorkflow(r) ==
  /\ req[r].phase = "idle"
  /\ ~srv.deleted
  /\ \A q \in Reqs : req[q].op # "running"
  /\ LET up == srv.status \in {"running", "starting", "restarting"} IN
       /\ srv' = [srv EXCEPT !.desired = "stopped", !.reason = "requested", !.own = FALSE,
                             !.status = IF up THEN "stopping" ELSE @]
       /\ req' = [req EXCEPT ![r] = [phase |-> "queued", action |-> "workflow", op |-> "running",
                                     was |-> srv.desired = "running" \/ up]]
  /\ UNCHANGED <<recEv, cont, eng, wk, fails, aborts>>

ClaimWorkflow(r) ==
  /\ wk.phase = "idle"
  /\ req[r].phase = "queued" /\ req[r].action = "workflow"
  /\ wk' = [Idle EXCEPT !.phase = "prepare", !.job = r]
  /\ UNCHANGED <<srv, recEv, cont, req, eng, fails, aborts>>

\* Up to the stop: the progress marks and the mandatory backup, whose failure
\* sends the event to a retry or ends the workflow.
PrepareWorkflow ==
  /\ wk.phase = "prepare"
  /\ \/ /\ wk' = [wk EXCEPT !.phase = IF req[wk.job].was THEN "halt" ELSE "work"]
        /\ eng' = IF req[wk.job].was THEN [eng EXCEPT ![Worker] = Call("stop")] ELSE eng
        /\ UNCHANGED fails
     \/ /\ fails < MaxFails /\ fails' = fails + 1
        /\ wk' \in {Idle, [wk EXCEPT !.phase = "record", !.failed = TRUE]}
        /\ UNCHANGED eng
  /\ UNCHANGED <<srv, recEv, cont, req, aborts>>

\* A stop that fails ends a template update; a restore starts the server again.
HaltWorkflow ==
  /\ wk.phase = "halt"
  /\ eng[Worker].phase \in {"ok", "error"}
  /\ \/ /\ eng[Worker].phase = "ok"
        /\ wk' = [wk EXCEPT !.phase = "work"]
        /\ eng' = [eng EXCEPT ![Worker] = NoCall]
     \/ /\ eng[Worker].phase = "error"
        /\ \E next \in {"record", "resume"} :
             /\ wk' = [wk EXCEPT !.phase = next, !.failed = TRUE]
             /\ eng' = [eng EXCEPT ![Worker] = IF next = "resume" THEN Call("start") ELSE NoCall]
  /\ UNCHANGED <<srv, recEv, cont, req, fails, aborts>>

\* The files are restored or installed and the container may be replaced by a
\* created one; the engine refuses both for a server that runs or has none.
Workflow ==
  /\ wk.phase = "work"
  /\ LET ready == ~Running(cont.state) /\ cont.state # "absent" IN
       \E failed \in BOOLEAN :
         /\ \/ failed = ~ready /\ UNCHANGED fails
            \/ failed /\ fails < MaxFails /\ fails' = fails + 1
         /\ cont' \in {cont} \cup (IF ready THEN {[state |-> "created", policy |-> TRUE]} ELSE {})
         /\ wk' = [wk EXCEPT !.failed = failed,
                             !.phase = IF req[wk.job].was THEN "resume" ELSE "record"]
  /\ eng' = IF req[wk.job].was THEN [eng EXCEPT ![Worker] = Call("start")] ELSE eng
  /\ UNCHANGED <<srv, recEv, req, aborts>>

ResumeWorkflow ==
  /\ wk.phase = "resume"
  /\ eng[Worker].phase \in {"ok", "error"}
  /\ wk' = [wk EXCEPT !.phase = "record", !.failed = @ \/ eng[Worker].phase = "error"]
  /\ eng' = [eng EXCEPT ![Worker] = NoCall]
  /\ UNCHANGED <<srv, recEv, cont, req, fails, aborts>>

\* Mutant: the request to run is not written back.
FinishWorkflowStays ==
  /\ wk.phase = "record"
  /\ srv' = [srv EXCEPT !.status = "stopped", !.reason = "none", !.own = FALSE]
  /\ req' = [req EXCEPT ![wk.job].op = IF wk.failed THEN "failed" ELSE "succeeded"]
  /\ wk' = [wk EXCEPT !.phase = "ack"]
  /\ UNCHANGED <<recEv, cont, eng, fails, aborts>>

\* The row is set from the payload, whatever it says by now; when the
\* transaction fails the event is retried.
FinishWorkflow ==
  /\ wk.phase = "record"
  /\ \/ /\ srv' = [srv EXCEPT
               !.desired = IF req[wk.job].was THEN "running" ELSE "stopped",
               !.status = IF req[wk.job].was THEN "starting" ELSE "stopped",
               !.reason = "none", !.own = FALSE]
        /\ req' = [req EXCEPT ![wk.job].op = IF wk.failed THEN "failed" ELSE "succeeded"]
        /\ wk' = [wk EXCEPT !.phase = "ack"]
        /\ UNCHANGED fails
     \/ /\ fails < MaxFails /\ fails' = fails + 1
        /\ wk' = Idle
        /\ UNCHANGED <<srv, req>>
  /\ UNCHANGED <<recEv, cont, eng, aborts>>

-----------------------------------------------------------------------------
(* The container outside the panel's control.                              *)

ContainerEvent(state) ==
  /\ cont' = [cont EXCEPT !.state = state]
  /\ UNCHANGED <<srv, recEv, req, eng, wk, fails, aborts>>

ProcessExit ==
  "exit" \in EnvEvents /\ cont.state = "running" /\ ContainerEvent(Exited)

DockerRestart == cont.state = "restarting" /\ ContainerEvent("running")

OutsideStop ==
  "stop" \in EnvEvents /\ cont.state = "running" /\ ContainerEvent("exited")

OutsidePause ==
  /\ "pause" \in EnvEvents
  /\ \/ cont.state = "running" /\ ContainerEvent("paused")
     \/ cont.state = "paused" /\ ContainerEvent("running")

OutsideRemove ==
  "remove" \in EnvEvents /\ cont.state # "absent" /\ ContainerEvent("absent")

-----------------------------------------------------------------------------
Handler(r) ==
  \/ FinishPower(r)
  \/ MarkConsoleRestartIntent(r) \/ ConsoleSend(r) \/ CancelConsoleRestartIntent(r)
  \/ EngineDelete(r) \/ FinalizeServerDeletion(r)

User(r) ==
  \/ \E a \in Actions \cap PowerActions :
       \/ RequestPower(r, a, FALSE)
       \/ Queued /\ RequestPower(r, a, TRUE)
  \/ "console" \in Actions /\ ConsoleReady(r)
  \/ "delete" \in Actions /\ RequestDelete(r)
  \/ "workflow" \in Actions /\ QueueWorkflow(r)

Engine(c) == PowerPolicy(c) \/ PowerInspect(c) \/ PowerAct(c)

ClaimRequest(r) == ClaimPower(r) \/ ClaimWorkflow(r)

Claim == (\E r \in Reqs : ClaimRequest(r)) \/ (\E e \in RecIds : ClaimRecover(e))

WorkflowStep ==
  PrepareWorkflow \/ HaltWorkflow \/ Workflow \/ ResumeWorkflow \/ FinishWorkflow

WorkerStep ==
  \/ FinishQueuedPower
  \/ BeginRecovery \/ RecoveryStillDesired \/ RecoveryUndone \/ FinishRecovery
  \/ WorkflowStep
  \/ Ack \/ SyncRuntimeStats

Outside ==
  ProcessExit \/ DockerRestart \/ OutsideStop \/ OutsidePause \/ OutsideRemove

Next ==
  \/ \E r \in Reqs : User(r) \/ Handler(r) \/ AbandonRequest(r)
  \/ \E c \in Callers : Engine(c) \/ EngineFails(c)
  \/ Claim \/ Stats \/ WorkerStep \/ WorkerCrash
  \/ Outside

Spec == Init /\ [][Next]_vars

\* Handlers and engine calls run to completion unless they are cut short.  The
\* worker's loop selects among its tickers at random, so neither telemetry nor
\* the outbox is passed over for ever, and an event due is eventually the
\* oldest one due.  Docker's restart backoff is bounded.  Nothing is assumed of
\* users, crashes, failures or what happens outside the panel.
Fairness ==
  /\ \A r \in Reqs : WF_vars(Handler(r))
  /\ \A c \in Callers : WF_vars(Engine(c))
  /\ WF_vars(WorkerStep)
  /\ SF_vars(Stats)
  /\ \A r \in Reqs : SF_vars(ClaimRequest(r))
  /\ SF_vars(\E e \in RecIds : ClaimRecover(e))
  /\ WF_vars(DockerRestart)

FairSpec == Spec /\ Fairness

-----------------------------------------------------------------------------
(* Properties.                                                             *)

\* Telemetry never queues a second recovery while one is unprocessed, whatever
\* requests, failures and redeliveries come between its observations.
AtMostOneRecovery ==
  \A e, f \in RecIds : recEv[e] # 0 /\ recEv[f] # 0 => e = f

\* An accepted Stop or Kill cancels queued recovery work, and no stale
\* observation queues new work while that request stands.  The stop a workflow
\* writes is not meant: it leaves the queued recovery for BeginRecovery to refuse.
StopCancelsRecovery == srv.desired = "stopped" /\ srv.own => ~RecoveryPending

\* A recovery whose event was cancelled after the worker claimed it never
\* begins, not even if a later Start makes the server wanted again: the request
\* has reset the attempt counter the event is compared with.
CancelledRecoveryNeverBegins ==
  [][wk.phase = "begin" /\ wk'.phase = "recover" => recEv[wk.ev] # 0]_vars

\* A workflow under way, or one that began with the server stopped.
WorkflowStops ==
  \E r \in Reqs : req[r].action = "workflow" /\ (req[r].op = "running" \/ ~req[r].was)

\* A request to run lasts until a Stop or Kill is accepted: telemetry, failed
\* recoveries and the late ends of older requests never withdraw it, and a
\* workflow that does gives it back at its end, through retries and redelivery.
\* A workflow that found the server stopped is excepted, see DurableRequest.
RunningRequestKept == srv.asked = "running" /\ srv.desired = "stopped" => WorkflowStops

Quiet ==
  /\ wk.phase = "idle"
  /\ \A r \in Reqs : req[r].phase \in {"idle", "done", "lost"}

Offline == cont.state \in {"created", "exited", "absent"}

\* Nothing but stops, kills and console commands was asked for, and every call
\* and every process has lived to its end.
OnlyStops ==
  /\ \A r \in Reqs : req[r].action \notin {"start", "restart", "delete", "workflow"}
  /\ fails = 0 /\ aborts = 0

\* Once the panel has come to rest with a stop request standing, the container
\* is down and Docker will not restart it: a recovery that was already starting
\* the server when the stop was accepted has been undone.
StopKeepsOffline == Quiet /\ OnlyStops /\ srv.desired = "stopped" => Offline

\* Only an explicit Stop or Kill takes a request to run back: once the panel has
\* come to rest after a Start was accepted, the server is still meant to run.
DurableRequest ==
  Quiet /\ srv.asked = "running" => srv.desired \in {"running", "deleted"}

\* A server that is meant to run, whose container exists and is not paused, is
\* running again and again however often it exits or its recovery fails.
RecoveryNeverGivesUp ==
  <>[](srv.desired = "running" /\ cont.state \notin {"absent", "paused"})
  => []<>(cont.state = "running")

\* Every accepted power operation is eventually recorded as finished, unless
\* the app or the worker dies under it or the server is deleted.
OperationsFinish ==
  \A r \in Reqs :
    req[r].op = "running"
      ~> req[r].op \in {"succeeded", "failed"} \/ aborts > 0 \/ srv.deleted

\* However stale the observations applied meanwhile, the panel ends up showing
\* a server that stays down on request as stopped.
StatusConverges ==
  <>[](srv.desired = "stopped" /\ cont.state = "exited")
  => <>[](srv.status = "stopped")
=============================================================================
