------------------------ MODULE ServerLifecycleProofs ------------------------
(* Theorems about ServerLifecycle, for every set of requests and every bound. *)
EXTENDS ServerLifecycle, TLAPS

WorkflowPhases == {"prepare", "halt", "work", "resume", "record"}

\* What the worker holds in each phase: a claimed power event or workflow names
\* its request, a claimed recovery its event and a positive attempt.
WorkerHolds ==
  /\ wk.phase \in {"power"} \cup WorkflowPhases => wk.job \in Reqs
  /\ wk.phase = "begin" => wk.ev \in RecIds /\ wk.attempt > 0

\* While the worker is about to begin a recovery, the event it claimed is either
\* still unprocessed or was cancelled by a request that reset the counter.
ClaimedOrReset ==
  wk.phase = "begin" => (recEv[wk.ev] = 0 => srv.attempts = 0)

TypeInv == TypeOK /\ WorkerHolds

\* The engine's answer to a call, ok or error, has the type of a call.
LEMMA Answers ==
  ASSUME NEW r \in {"ok", "error"} PROVE Answer(r) \in EngineCall
BY DEF Answer, NoCall, EngineCall, ContainerStates

\* A call the panel makes to Engine.Power has the type of a call.
LEMMA Calls ==
  ASSUME NEW a \in Actions \cup PowerActions \cup {"none"} PROVE Call(a) \in EngineCall
BY DEF Call, NoCall, EngineCall, ContainerStates, PowerActions

\* No call in flight is a value of the same type.
LEMMA NoCallType == NoCall \in EngineCall
BY DEF NoCall, EngineCall, ContainerStates

\* The worker between two events has the worker's type.
LEMMA IdleType == Idle \in WorkerState
BY ConstantsAssumption DEF Idle, WorkerState

\* recovery_attempts may be reset: zero is within the bound.
LEMMA ZeroAttempts == 0 \in 0 .. RecoveryCap
BY ConstantsAssumption

\* The row FinishPower writes, on success and on failure, is well typed.
LEMMA PowerFinishedType ==
  ASSUME TypeOK, NEW a, NEW ok \in BOOLEAN
  PROVE  PowerFinished(a, ok) \in ServerRow
<1> srv \in ServerRow BY DEF TypeOK
<1>1. CASE srv.desired # DesiredBy(a) BY <1>1 DEF PowerFinished
<1>2. CASE srv.desired = DesiredBy(a) /\ ~ok
  BY <1>2 DEF PowerFinished, ServerRow, Statuses
<1>3. CASE srv.desired = DesiredBy(a) /\ ok
  BY <1>3, ZeroAttempts DEF PowerFinished, ServerRow, Statuses
<1> QED BY <1>1, <1>2, <1>3

\* Initial states are type correct.
LEMMA TypeInit == Init => TypeInv
<1> SUFFICES ASSUME Init PROVE TypeInv OBVIOUS
<1> USE ConstantsAssumption
<1>1. srv \in ServerRow BY DEF Init, ServerRow, Statuses
<1>2. cont \in [state : ContainerStates, policy : BOOLEAN]
  BY DEF Init, ContainerStates
<1>3. req \in [Reqs -> Request] BY DEF Init, Request
<1>4. eng \in [Callers -> EngineCall] BY NoCallType DEF Init
<1>5. wk \in WorkerState BY IdleType DEF Init
<1> QED BY <1>1, <1>2, <1>3, <1>4, <1>5 DEF Init, TypeInv, TypeOK, WorkerHolds, WorkflowPhases, Idle

\* What a step of a workflow may touch: never the queue of recoveries, of the
\* requests only the outcome of its own, of the engine only its own calls.
LEMMA WorkflowMoves ==
  ASSUME TypeInv, WorkflowStep
  PROVE  /\ recEv' = recEv /\ aborts' = aborts
         /\ wk.phase \in WorkflowPhases /\ wk.job \in Reqs
         /\ wk' \in WorkerState
         /\ \/ wk' = Idle
            \/ wk'.phase \in {"halt", "work", "resume", "record", "ack"} /\ wk'.job = wk.job
         /\ \/ req' = req
            \/ \E o \in {"succeeded", "failed"} : req' = [req EXCEPT ![wk.job].op = o]
         /\ \A r \in Reqs : eng'[r] = eng[r]
         /\ \/ eng' = eng /\ wk.phase \in {"prepare", "work", "record"}
            \/ eng' = [eng EXCEPT ![Worker] = NoCall]
            \/ wk'.phase = "halt" /\ eng' = [eng EXCEPT ![Worker] = Call("stop")]
            \/ wk'.phase = "resume" /\ eng' = [eng EXCEPT ![Worker] = Call("start")]
         /\ FinishWorkflow \/ (srv' = srv /\ req' = req)
<1> USE ConstantsAssumption
<1>1. /\ wk \in WorkerState /\ req \in [Reqs -> Request] /\ eng \in [Callers -> EngineCall]
      /\ Worker \in Callers /\ Worker \notin Reqs /\ Reqs \subseteq Callers
  BY DEF TypeInv, TypeOK, Callers
<1>2. wk.phase \in WorkflowPhases
  BY DEF WorkflowStep, PrepareWorkflow, HaltWorkflow, Workflow, ResumeWorkflow, FinishWorkflow, WorkflowPhases
<1>3. wk.job \in Reqs BY <1>2 DEF TypeInv, WorkerHolds, WorkflowPhases
<1>4. ASSUME NEW p \in {"halt", "work", "resume", "record", "ack"}, NEW b \in BOOLEAN,
             wk' = [wk EXCEPT !.phase = p, !.failed = b]
      PROVE  wk' \in WorkerState /\ wk'.phase = p /\ wk'.job = wk.job
  BY <1>1, <1>4 DEF WorkerState
<1>5. ASSUME NEW p \in {"halt", "work", "resume", "record", "ack"}, wk' = [wk EXCEPT !.phase = p]
      PROVE  wk' \in WorkerState /\ wk'.phase = p /\ wk'.job = wk.job
  BY <1>1, <1>5 DEF WorkerState
<1>6. \A r \in Reqs : eng'[r] = eng[r]
  BY <1>1 DEF WorkflowStep, PrepareWorkflow, HaltWorkflow, Workflow, ResumeWorkflow, FinishWorkflow
<1>7. CASE PrepareWorkflow
  <2>1. \/ /\ wk' = [wk EXCEPT !.phase = IF req[wk.job].was THEN "halt" ELSE "work"]
           /\ eng' = IF req[wk.job].was THEN [eng EXCEPT ![Worker] = Call("stop")] ELSE eng
        \/ eng' = eng /\ wk' = Idle
        \/ eng' = eng /\ wk' = [wk EXCEPT !.phase = "record", !.failed = TRUE]
    BY <1>7 DEF PrepareWorkflow
  <2>2. wk' \in WorkerState /\ (wk' = Idle \/ (wk'.phase \in {"halt", "work", "record"} /\ wk'.job = wk.job))
    BY <1>4, <1>5, <2>1, IdleType
  <2>3. eng' = eng \/ (wk'.phase = "halt" /\ eng' = [eng EXCEPT ![Worker] = Call("stop")])
    BY <1>5, <2>1
  <2> QED BY <1>2, <1>3, <1>6, <1>7, <2>2, <2>3 DEF PrepareWorkflow
<1>8. CASE HaltWorkflow
  <2>1. \/ wk' = [wk EXCEPT !.phase = "work"] /\ eng' = [eng EXCEPT ![Worker] = NoCall]
        \/ wk' = [wk EXCEPT !.phase = "record", !.failed = TRUE] /\ eng' = [eng EXCEPT ![Worker] = NoCall]
        \/ wk' = [wk EXCEPT !.phase = "resume", !.failed = TRUE] /\ eng' = [eng EXCEPT ![Worker] = Call("start")]
    BY <1>8 DEF HaltWorkflow
  <2>2. wk' \in WorkerState /\ wk'.phase \in {"work", "record", "resume"} /\ wk'.job = wk.job
    BY <1>4, <1>5, <2>1
  <2>3. \/ eng' = [eng EXCEPT ![Worker] = NoCall]
        \/ wk'.phase = "resume" /\ eng' = [eng EXCEPT ![Worker] = Call("start")]
    BY <1>4, <2>1
  <2> QED BY <1>2, <1>3, <1>6, <1>8, <2>2, <2>3 DEF HaltWorkflow
<1>9. CASE Workflow
  <2>1. PICK b \in BOOLEAN :
          wk' = [wk EXCEPT !.failed = b, !.phase = IF req[wk.job].was THEN "resume" ELSE "record"]
    BY <1>9 DEF Workflow
  <2>2. eng' = IF req[wk.job].was THEN [eng EXCEPT ![Worker] = Call("start")] ELSE eng BY <1>9 DEF Workflow
  <2>3. /\ req[wk.job].was => wk' = [wk EXCEPT !.phase = "resume", !.failed = b]
        /\ ~req[wk.job].was => wk' = [wk EXCEPT !.phase = "record", !.failed = b]
    BY <1>1, <2>1 DEF WorkerState
  <2>4. wk' \in WorkerState /\ wk'.phase \in {"record", "resume"} /\ wk'.job = wk.job
    BY <1>4, <2>3
  <2>5. eng' = eng \/ (wk'.phase = "resume" /\ eng' = [eng EXCEPT ![Worker] = Call("start")])
    BY <1>4, <2>2, <2>3
  <2> QED BY <1>2, <1>3, <1>6, <1>9, <2>4, <2>5 DEF Workflow
<1>10. CASE ResumeWorkflow
  <2> DEFINE b == wk.failed \/ eng[Worker].phase = "error"
  <2>1. b \in BOOLEAN BY <1>1 DEF WorkerState
  <2>2. wk' = [wk EXCEPT !.phase = "record", !.failed = b] BY <1>10 DEF ResumeWorkflow
  <2> HIDE DEF b
  <2>3. wk' \in WorkerState /\ wk'.phase = "record" /\ wk'.job = wk.job BY <1>4, <2>1, <2>2
  <2> QED BY <1>2, <1>3, <1>6, <1>10, <2>3 DEF ResumeWorkflow
<1>11. CASE FinishWorkflow
  <2>1. wk' = Idle \/ wk' = [wk EXCEPT !.phase = "ack"] BY <1>11 DEF FinishWorkflow
  <2>2. wk' \in WorkerState /\ (wk' = Idle \/ (wk'.phase = "ack" /\ wk'.job = wk.job))
    BY <1>5, <2>1, IdleType
  <2> QED BY <1>2, <1>3, <1>6, <1>11, <2>2 DEF FinishWorkflow
<1> QED BY <1>7, <1>8, <1>9, <1>10, <1>11 DEF WorkflowStep

\* A workflow changes no request but the outcome of its own.
LEMMA WorkflowKeepsRequests ==
  ASSUME TypeInv, WorkflowStep
  PROVE  /\ \A r \in Reqs : /\ req'[r].phase = req[r].phase /\ req'[r].action = req[r].action
                            /\ req'[r].was = req[r].was
         /\ \A r \in Reqs \ {wk.job} : req'[r] = req[r]
<1>1. req \in [Reqs -> Request] BY DEF TypeInv, TypeOK
<1>2. CASE req' = req BY <1>2
<1>3. ASSUME NEW o, req' = [req EXCEPT ![wk.job].op = o]
      PROVE  /\ \A r \in Reqs : /\ req'[r].phase = req[r].phase /\ req'[r].action = req[r].action
                                /\ req'[r].was = req[r].was
             /\ \A r \in Reqs \ {wk.job} : req'[r] = req[r]
  <2> DEFINE j == wk.job
  <2>1. req' = [req EXCEPT ![j].op = o] BY <1>3
  <2> HIDE DEF j
  <2>2. \A r \in Reqs \ {j} : req'[r] = req[r] BY <1>1, <2>1
  <2>3. \A r \in Reqs : r = j => req'[r] = [req[r] EXCEPT !.op = o] BY <1>1, <2>1
  <2>4. \A r \in Reqs : LET h == [req[r] EXCEPT !.op = o] IN
          h.phase = req[r].phase /\ h.action = req[r].action /\ h.was = req[r].was
    BY <1>1 DEF Request
  <2> QED BY <2>2, <2>3, <2>4 DEF j
<1> QED BY <1>2, <1>3, WorkflowMoves

\* A workflow keeps the types.
LEMMA WorkflowType == ASSUME TypeInv, WorkflowStep PROVE TypeInv'
<1> USE ConstantsAssumption DEF TypeInv, TypeOK, WorkerHolds, WorkflowPhases
<1>1. /\ srv \in ServerRow /\ wk \in WorkerState /\ req \in [Reqs -> Request]
      /\ eng \in [Callers -> EngineCall]
  OBVIOUS
<1>2. req' \in [Reqs -> Request]
  <2>1. \A o \in {"succeeded", "failed"} : [req EXCEPT ![wk.job].op = o] \in [Reqs -> Request]
    <3> wk.job \in Reqs BY WorkflowMoves
    <3> QED BY <1>1 DEF Request
  <2> QED BY <1>1, <2>1, WorkflowMoves
<1>3. eng' \in [Callers -> EngineCall] BY <1>1, WorkflowMoves, NoCallType, Calls DEF PowerActions
<1>4. srv' \in ServerRow
  <2>1. CASE FinishWorkflow
    <3> DEFINE d == IF req[wk.job].was THEN "running" ELSE "stopped"
               t == IF req[wk.job].was THEN "starting" ELSE "stopped"
    <3>1. srv' = srv \/ srv' = [srv EXCEPT !.desired = d, !.status = t, !.reason = "none", !.own = FALSE]
      BY <2>1 DEF FinishWorkflow
    <3>2. d \in {"running", "stopped"} /\ t \in Statuses BY DEF Statuses
    <3> HIDE DEF d, t
    <3>3. [srv EXCEPT !.desired = d, !.status = t] \in ServerRow BY <1>1, <3>2 DEF ServerRow
    <3>4. \A q \in ServerRow : [q EXCEPT !.reason = "none", !.own = FALSE] \in ServerRow BY DEF ServerRow
    <3>5. [srv EXCEPT !.desired = d, !.status = t, !.reason = "none", !.own = FALSE]
            = [[srv EXCEPT !.desired = d, !.status = t] EXCEPT !.reason = "none", !.own = FALSE]
      OBVIOUS
    <3> QED BY <1>1, <3>1, <3>3, <3>4, <3>5
  <2> QED BY <1>1, <2>1, WorkflowMoves
<1>5. cont' \in [state : ContainerStates, policy : BOOLEAN] /\ fails' \in 0 .. MaxFails
  <2>1. fails' = fails \/ (fails < MaxFails /\ fails' = fails + 1)
    BY DEF WorkflowStep, PrepareWorkflow, HaltWorkflow, Workflow, ResumeWorkflow, FinishWorkflow
  <2>2. cont' = cont \/ cont' = [state |-> "created", policy |-> TRUE]
    BY DEF WorkflowStep, PrepareWorkflow, HaltWorkflow, Workflow, ResumeWorkflow, FinishWorkflow
  <2>3. fails' \in 0 .. MaxFails BY <2>1
  <2>4. [state |-> "created", policy |-> TRUE] \in [state : ContainerStates, policy : BOOLEAN] BY DEF ContainerStates
  <2> QED BY <2>2, <2>3, <2>4
<1>6. wk'.phase # "begin" /\ (wk'.phase \in {"power"} \cup WorkflowPhases => wk'.job \in Reqs)
  BY WorkflowMoves DEF Idle
<1> QED BY <1>2, <1>3, <1>4, <1>5, <1>6, WorkflowMoves

\* Every step keeps the types, one case per operation of the panel, the
\* engine, the worker and the surroundings.
LEMMA TypeStep == TypeInv /\ [Next]_vars => TypeInv'
<1> SUFFICES ASSUME TypeInv, [Next]_vars PROVE TypeInv' OBVIOUS
<1> USE ConstantsAssumption DEF TypeInv, TypeOK, WorkerHolds, WorkflowPhases
<1>1. ASSUME NEW r \in Reqs, NEW a \in Actions \cap PowerActions, NEW q \in BOOLEAN,
             RequestPower(r, a, q)
      PROVE  TypeInv'
  <2>1. srv' \in ServerRow
    <3>1. Transition(a) \in Statuses BY DEF Transition, Statuses
    <3>2. DesiredBy(a) \in {"running", "stopped"} BY DEF DesiredBy
    <3> QED BY <1>1, <3>1, <3>2, ZeroAttempts DEF RequestPower, ServerRow
  <2>2. recEv' \in [RecIds -> 0 .. RecoveryCap]
    BY <1>1 DEF RequestPower, CancelRecovery
  <2>3. req' \in [Reqs -> Request] BY <1>1 DEF RequestPower, Request
  <2>4. eng' \in [Callers -> EngineCall] BY <1>1, Calls DEF RequestPower, Callers
  <2> QED BY <1>1, <2>1, <2>2, <2>3, <2>4 DEF RequestPower
<1>2. ASSUME NEW r \in Reqs, FinishPower(r) PROVE TypeInv'
  <2>1. srv' \in ServerRow
    <3>1. (eng[r].phase = "ok") \in BOOLEAN OBVIOUS
    <3> QED BY <1>2, <3>1, PowerFinishedType DEF FinishPower
  <2>2. req' \in [Reqs -> Request]
    <3> DEFINE o == IF eng[r].phase = "ok" THEN "succeeded" ELSE "failed"
    <3>1. o \in {"succeeded", "failed"} OBVIOUS
    <3>2. req' = [req EXCEPT ![r] = [@ EXCEPT !.phase = "done", !.op = o]] BY <1>2 DEF FinishPower
    <3> HIDE DEF o
    <3>3. [req[r] EXCEPT !.phase = "done", !.op = o] \in Request
      <4> req[r] \in Request OBVIOUS
      <4> QED BY <3>1 DEF Request
    <3> QED BY <3>2, <3>3
  <2>3. eng' \in [Callers -> EngineCall] BY <1>2, NoCallType DEF FinishPower
  <2> QED BY <1>2, <2>1, <2>2, <2>3 DEF FinishPower
<1>3. ASSUME NEW c \in Callers, PowerPolicy(c) PROVE TypeInv'
  <2>1. eng' \in [Callers -> EngineCall] BY <1>3, Answers DEF PowerPolicy, EngineCall
  <2>2. cont' \in [state : ContainerStates, policy : BOOLEAN]
    <3> DEFINE p == eng[c].action \in {"start", "restart"}
    <3>1. p \in BOOLEAN OBVIOUS
    <3>2. cont' = cont \/ cont' = [cont EXCEPT !.policy = p] BY <1>3 DEF PowerPolicy
    <3> HIDE DEF p
    <3> QED BY <3>1, <3>2
  <2> QED BY <1>3, <2>1, <2>2 DEF PowerPolicy
<1>4. ASSUME NEW c \in Callers, PowerInspect(c) PROVE TypeInv'
  <2>1. eng' \in [Callers -> EngineCall] BY <1>4, Answers DEF PowerInspect, EngineCall
  <2> QED BY <1>4, <2>1 DEF PowerInspect
<1>5. ASSUME NEW c \in Callers, PowerAct(c) PROVE TypeInv'
  <2>1. eng' \in [Callers -> EngineCall] BY <1>5, Answers DEF PowerAct
  <2>2. ASSUME NEW call PROVE DockerResult(call, cont.state) \in ContainerStates
    BY DEF DockerResult, ContainerStates
  <2>3. cont' \in [state : ContainerStates, policy : BOOLEAN] BY <1>5, <2>2 DEF PowerAct
  <2> QED BY <1>5, <2>1, <2>3 DEF PowerAct
<1>6. ASSUME NEW c \in Callers, EngineFails(c) PROVE TypeInv'
  <2>1. eng' \in [Callers -> EngineCall] BY <1>6, Answers DEF EngineFails
  <2> QED BY <1>6, <2>1 DEF EngineFails
<1>7. ASSUME NEW r \in Reqs, "console" \in Actions, ConsoleReady(r) PROVE TypeInv'
  <2>1. req' \in [Reqs -> Request]
    <3>1. [req[r] EXCEPT !.phase = "ready", !.action = "console"] \in Request
      <4> req[r] \in Request OBVIOUS
      <4> QED BY <1>7 DEF Request
    <3> QED BY <1>7, <3>1 DEF ConsoleReady
  <2> QED BY <1>7, <2>1 DEF ConsoleReady
<1>8. ASSUME NEW r \in Reqs, MarkConsoleRestartIntent(r) PROVE TypeInv'
  <2>1. req' \in [Reqs -> Request] BY <1>8 DEF MarkConsoleRestartIntent, Request
  <2>2. srv' \in ServerRow
    <3>1. [srv EXCEPT !.status = "restarting", !.reason = "none"] \in ServerRow
      BY DEF ServerRow, Statuses
    <3> QED BY <1>8, <3>1 DEF MarkConsoleRestartIntent
  <2> QED BY <1>8, <2>1, <2>2 DEF MarkConsoleRestartIntent
<1>9. ASSUME NEW r \in Reqs, ConsoleSend(r) PROVE TypeInv'
  <2>1. req' \in [Reqs -> Request] BY <1>9 DEF ConsoleSend, Request
  <2>2. cont' \in [state : ContainerStates, policy : BOOLEAN]
    BY <1>9 DEF ConsoleSend, Exited, ContainerStates
  <2> QED BY <1>9, <2>1, <2>2 DEF ConsoleSend
<1>10. ASSUME NEW r \in Reqs, CancelConsoleRestartIntent(r) PROVE TypeInv'
  <2>1. req' \in [Reqs -> Request] BY <1>10 DEF CancelConsoleRestartIntent, Request
  <2>2. srv' \in ServerRow BY <1>10 DEF CancelConsoleRestartIntent, ServerRow, Statuses
  <2> QED BY <1>10, <2>1, <2>2 DEF CancelConsoleRestartIntent
<1>11. ASSUME NEW r \in Reqs, "delete" \in Actions, RequestDelete(r) PROVE TypeInv'
  <2>1. req' \in [Reqs -> Request]
    <3>1. [req[r] EXCEPT !.phase = "remove", !.action = "delete"] \in Request
      <4> req[r] \in Request OBVIOUS
      <4> QED BY <1>11 DEF Request
    <3> QED BY <1>11, <3>1 DEF RequestDelete
  <2> QED BY <1>11, <2>1 DEF RequestDelete
<1>12. ASSUME NEW r \in Reqs, EngineDelete(r) PROVE TypeInv'
  <2>1. req' \in [Reqs -> Request] BY <1>12 DEF EngineDelete, Request
  <2>2. cont' \in [state : ContainerStates, policy : BOOLEAN]
    BY <1>12 DEF EngineDelete, ContainerStates
  <2> QED BY <1>12, <2>1, <2>2 DEF EngineDelete
<1>13. ASSUME NEW r \in Reqs, FinalizeServerDeletion(r) PROVE TypeInv'
  <2>1. req' \in [Reqs -> Request] BY <1>13 DEF FinalizeServerDeletion, Request
  <2>2. srv' \in ServerRow BY <1>13 DEF FinalizeServerDeletion, ServerRow, Statuses
  <2> QED BY <1>13, <2>1, <2>2 DEF FinalizeServerDeletion
<1>14. ASSUME NEW r \in Reqs, AbandonRequest(r) PROVE TypeInv'
  <2>1. req' \in [Reqs -> Request] BY <1>14 DEF AbandonRequest, Request
  <2>2. eng' \in [Callers -> EngineCall] BY <1>14, NoCallType DEF AbandonRequest
  <2> QED BY <1>14, <2>1, <2>2 DEF AbandonRequest
<1>15. ASSUME Stats PROVE TypeInv'
  <2>1. wk' \in WorkerState
    <3>1. cont.state \in ContainerStates OBVIOUS
    <3>2. PICK stable \in BOOLEAN :
            wk' = [Idle EXCEPT !.phase = "snapshot", !.snap = cont.state, !.stable = stable]
      BY <1>15 DEF Stats
    <3> QED BY <3>1, <3>2, IdleType DEF WorkerState
  <2> QED BY <1>15, <2>1 DEF Stats, Idle
<1>16. ASSUME SyncRuntimeStats PROVE TypeInv'
  <2>1. srv' \in ServerRow /\ recEv' \in [RecIds -> 0 .. RecoveryCap]
        /\ req' \in [Reqs -> Request]
    <3>1. CASE srv.deleted BY <1>16, <3>1 DEF SyncRuntimeStats
    <3>2. CASE SyncMissing
      <4>1. srv' \in ServerRow
        <5>1. srv.missing + 1 \in Nat BY DEF ServerRow
        <5>2. [srv EXCEPT !.missing = srv.missing + 1] \in ServerRow BY <5>1 DEF ServerRow
        <5>3. [srv EXCEPT !.missing = srv.missing + 1, !.status = "deleting",
                          !.desired = "deleted", !.deleted = TRUE] \in ServerRow
          BY <5>1 DEF ServerRow, Statuses
        <5> QED BY <3>2, <5>2, <5>3 DEF SyncMissing
      <4>2. recEv' \in [RecIds -> 0 .. RecoveryCap]
        BY <3>2, ZeroAttempts DEF SyncMissing, CancelRecovery
      <4>3. req' \in [Reqs -> Request] BY <3>2 DEF SyncMissing, Request
      <4> QED BY <4>1, <4>2, <4>3
    <3>3. CASE SyncObserved /\ UNCHANGED req
      <4> DEFINE st == runtimeServerStatus(wk.snap, srv.desired, srv.status)
                 n == nextRecoveryAttempt(IF srv.window THEN srv.attempts ELSE 0)
      <4>1. st \in Statuses
        <5> srv.status \in Statuses BY DEF ServerRow
        <5> QED BY DEF runtimeServerStatus, Statuses
      <4>2. n \in 0 .. RecoveryCap
        <5> srv.attempts \in 0 .. RecoveryCap BY DEF ServerRow
        <5> QED BY DEF nextRecoveryAttempt
      <4>3. Observed(st) \in ServerRow
        <5>1. StopReason(st, srv.desired, srv.status)
                \in {"none", "requested", "unexpected_exit", "clean_exit"}
          BY DEF StopReason
        <5> HIDE DEF st
        <5> DEFINE at == IF st = "running" /\ wk.stable THEN 0 ELSE srv.attempts
                   wi == srv.window /\ ~(st = "running" /\ wk.stable)
        <5>2. at \in 0 .. RecoveryCap BY ZeroAttempts DEF ServerRow
        <5>3. wi \in BOOLEAN OBVIOUS
        <5>4. Observed(st) = [srv EXCEPT !.status = st,
                                         !.reason = StopReason(st, srv.desired, srv.status),
                                         !.missing = 0, !.attempts = at, !.window = wi]
          BY DEF Observed
        <5> HIDE DEF at, wi
        <5> DEFINE row == [srv EXCEPT !.status = st,
                                      !.reason = StopReason(st, srv.desired, srv.status)]
        <5>5. row \in ServerRow BY <4>1, <5>1 DEF ServerRow
        <5>6. Observed(st) = [row EXCEPT !.missing = 0, !.attempts = at, !.window = wi]
          BY <5>4
        <5> HIDE DEF row
        <5>7. [row EXCEPT !.missing = 0, !.attempts = at] \in ServerRow
          BY <5>2, <5>5 DEF ServerRow
        <5>8. \A q \in ServerRow : [q EXCEPT !.window = wi] \in ServerRow
          BY <5>3 DEF ServerRow
        <5> QED BY <5>6, <5>7, <5>8
      <4>4. [Observed(st) EXCEPT !.attempts = n, !.window = TRUE] \in ServerRow
        <5> HIDE DEF n, st
        <5> QED BY <4>2, <4>3 DEF ServerRow
      <4>5. \/ /\ srv' = [Observed(st) EXCEPT !.attempts = n, !.window = TRUE]
               /\ \E e \in RecIds : recEv' = [recEv EXCEPT ![e] = n]
            \/ srv' = Observed(st) /\ UNCHANGED recEv
        BY <3>3 DEF SyncObserved
      <4> HIDE DEF n, st
      <4> QED BY <3>3, <4>2, <4>3, <4>4, <4>5
    <3> QED BY <1>16, <3>1, <3>2, <3>3 DEF SyncRuntimeStats
  <2> QED BY <1>16, <2>1, IdleType DEF SyncRuntimeStats, Idle
<1>17. ASSUME NEW r \in Reqs, ClaimPower(r) PROVE TypeInv'
  <2>1. wk' \in WorkerState BY <1>17, IdleType DEF ClaimPower, WorkerState
  <2>2. eng' \in [Callers -> EngineCall]
    <3>1. req[r].action \in Actions \cup {"none"} BY DEF Request
    <3> QED BY <1>17, <3>1, Calls DEF ClaimPower
  <2> QED BY <1>17, <2>1, <2>2 DEF ClaimPower, Idle
<1>18. ASSUME FinishQueuedPower PROVE TypeInv'
  <2> DEFINE r == wk.job
             o == IF eng[Worker].phase = "ok" THEN "succeeded" ELSE "failed"
  <2>1. r \in Reqs BY <1>18 DEF FinishQueuedPower
  <2>2. srv' \in ServerRow
    <3>1. (eng[Worker].phase = "ok") \in BOOLEAN OBVIOUS
    <3> QED BY <1>18, <3>1, PowerFinishedType DEF FinishQueuedPower
  <2>3. req' \in [Reqs -> Request]
    <3>1. o \in {"succeeded", "failed"} OBVIOUS
    <3>2. req' = [req EXCEPT ![r].op = o] BY <1>18 DEF FinishQueuedPower
    <3> HIDE DEF o, r
    <3> QED BY <2>1, <3>1, <3>2 DEF Request
  <2>4. eng' \in [Callers -> EngineCall] BY <1>18, NoCallType DEF FinishQueuedPower
  <2>5. wk' \in WorkerState BY <1>18 DEF FinishQueuedPower, WorkerState
  <2> QED BY <1>18, <2>2, <2>3, <2>4, <2>5 DEF FinishQueuedPower, WorkerState
<1>19. ASSUME NEW e \in RecIds, ClaimRecover(e) PROVE TypeInv'
  <2>1. recEv[e] \in 1 .. RecoveryCap BY <1>19 DEF ClaimRecover
  <2>2. wk' = [Idle EXCEPT !.phase = "begin", !.ev = e, !.attempt = recEv[e]]
    BY <1>19 DEF ClaimRecover
  <2>3. wk' \in WorkerState BY <2>1, <2>2, IdleType DEF WorkerState
  <2>4. wk'.phase = "begin" /\ wk'.ev = e /\ wk'.attempt = recEv[e] BY <2>2 DEF Idle
  <2> QED BY <1>19, <2>1, <2>3, <2>4 DEF ClaimRecover
<1>20. ASSUME BeginRecovery PROVE TypeInv'
  <2>1. srv' \in ServerRow BY <1>20 DEF BeginRecovery, ServerRow, Statuses
  <2>2. eng' \in [Callers -> EngineCall] BY <1>20, Calls DEF BeginRecovery, PowerActions
  <2>3. wk' \in WorkerState BY <1>20 DEF BeginRecovery, WorkerState
  <2>4. wk'.phase \in {"recover", "ack"} BY <1>20 DEF BeginRecovery, WorkerState
  <2> QED BY <1>20, <2>1, <2>2, <2>3, <2>4 DEF BeginRecovery
<1>21. ASSUME RecoveryStillDesired PROVE TypeInv'
  <2>1. eng' \in [Callers -> EngineCall]
    BY <1>21, Calls, NoCallType DEF RecoveryStillDesired, PowerActions
  <2>2. \/ wk' = [wk EXCEPT !.phase = "finish", !.failed = ~(eng[Worker].phase = "ok")]
        \/ wk' = [wk EXCEPT !.phase = "undo"]
        \/ wk' = [wk EXCEPT !.phase = "ack"]
    BY <1>21 DEF RecoveryStillDesired
  <2>3. \A b \in BOOLEAN : [wk EXCEPT !.phase = "finish", !.failed = b] \in WorkerState
    BY DEF WorkerState
  <2>4. wk' \in WorkerState
    <3> DEFINE lost == ~(eng[Worker].phase = "ok")
    <3>1. lost \in BOOLEAN OBVIOUS
    <3>2. wk' = [wk EXCEPT !.phase = "finish", !.failed = lost] \/ wk' \in WorkerState
      BY <2>2 DEF WorkerState
    <3> HIDE DEF lost
    <3> QED BY <2>3, <3>1, <3>2
  <2>5. wk'.phase \in {"finish", "undo", "ack"} BY <2>2 DEF WorkerState
  <2> QED BY <1>21, <2>1, <2>4, <2>5 DEF RecoveryStillDesired
<1>22. ASSUME RecoveryUndone PROVE TypeInv'
  <2>1. eng' \in [Callers -> EngineCall] BY <1>22, NoCallType DEF RecoveryUndone
  <2>2. wk' \in WorkerState BY <1>22, IdleType DEF RecoveryUndone, WorkerState
  <2>3. wk'.phase \in {"idle", "ack"} BY <1>22 DEF RecoveryUndone, WorkerState, Idle
  <2> QED BY <1>22, <2>1, <2>2, <2>3 DEF RecoveryUndone
<1>23. ASSUME FinishRecovery PROVE TypeInv'
  <2>1. srv' \in ServerRow
    <3>1. [srv EXCEPT !.status = "stopped", !.reason = "unexpected_exit"] \in ServerRow
      BY DEF ServerRow, Statuses
    <3>2. [srv EXCEPT !.status = "starting"] \in ServerRow BY DEF ServerRow, Statuses
    <3> QED BY <1>23, <3>1, <3>2 DEF FinishRecovery
  <2>2. wk' \in WorkerState BY <1>23 DEF FinishRecovery, WorkerState
  <2>3. wk'.phase = "ack" BY <1>23 DEF FinishRecovery, WorkerState
  <2> QED BY <1>23, <2>1, <2>2, <2>3 DEF FinishRecovery
<1>24. ASSUME Ack PROVE TypeInv'
  <2>1. recEv' \in [RecIds -> 0 .. RecoveryCap] BY <1>24, ZeroAttempts DEF Ack
  <2>2. req' \in [Reqs -> Request]
    <3>1. wk.job \in Reqs \/ wk.job = None BY DEF WorkerState
    <3>2. \A r \in Reqs : [req[r] EXCEPT !.phase = "done"] \in Request BY DEF Request
    <3> QED BY <1>24, <3>1, <3>2 DEF Ack
  <2> QED BY <1>24, <2>1, <2>2, IdleType DEF Ack, Idle
<1>25. ASSUME WorkerCrash PROVE TypeInv'
  <2>1. eng' \in [Callers -> EngineCall] BY <1>25, NoCallType DEF WorkerCrash
  <2> QED BY <1>25, <2>1, IdleType DEF WorkerCrash, Idle
<1>26. ASSUME Outside PROVE TypeInv'
  BY <1>26 DEF Outside, ProcessExit, DockerRestart, OutsideStop, OutsidePause,
               OutsideRemove, ContainerEvent, Exited, ContainerStates
<1>27. CASE UNCHANGED vars BY <1>27 DEF vars
<1>28. ASSUME NEW r \in Reqs, "workflow" \in Actions, QueueWorkflow(r) PROVE TypeInv'
  <2> DEFINE up == srv.status \in {"running", "starting", "restarting"}
             st == IF up THEN "stopping" ELSE srv.status
             w == srv.desired = "running" \/ up
  <2>1. st \in Statuses /\ w \in BOOLEAN BY DEF ServerRow, Statuses
  <2>2. /\ srv' = [srv EXCEPT !.desired = "stopped", !.reason = "requested", !.own = FALSE, !.status = st]
        /\ req' = [req EXCEPT ![r] = [phase |-> "queued", action |-> "workflow", op |-> "running", was |-> w]]
    BY <1>28 DEF QueueWorkflow, ServerRow
  <2> HIDE DEF st, w
  <2>3. srv' \in ServerRow BY <2>1, <2>2 DEF ServerRow
  <2>4. req' \in [Reqs -> Request] BY <1>28, <2>1, <2>2 DEF Request
  <2> QED BY <1>28, <2>3, <2>4 DEF QueueWorkflow
<1>29. ASSUME NEW r \in Reqs, ClaimWorkflow(r) PROVE TypeInv'
  <2>1. wk' \in WorkerState BY <1>29, IdleType DEF ClaimWorkflow, WorkerState
  <2> QED BY <1>29, <2>1 DEF ClaimWorkflow, Idle
<1>30. ASSUME WorkflowStep PROVE TypeInv' BY <1>30, WorkflowType
<1> QED
  BY <1>1, <1>2, <1>3, <1>4, <1>5, <1>6, <1>7, <1>8, <1>9, <1>10, <1>11, <1>12,
     <1>13, <1>14, <1>15, <1>16, <1>17, <1>18, <1>19, <1>20, <1>21, <1>22, <1>23,
     <1>24, <1>25, <1>26, <1>27, <1>28, <1>29, <1>30
  DEF Next, User, Handler, Engine, Claim, ClaimRequest, WorkerStep

\* Every reachable state is type correct.
THEOREM TypeCorrect == Spec => []TypeOK
<1>1. TypeInv => TypeOK BY DEF TypeInv
<1> QED BY <1>1, TypeInit, TypeStep, PTL DEF Spec

-----------------------------------------------------------------------------
(* Recovery work.  AtMostOneRecovery and StopCancelsRecovery are inductive  *)
(* together with ClaimedOrReset, which is what makes a claimed event whose  *)
(* cancellation the worker has not seen harmless.                           *)

RecoveryInv == AtMostOneRecovery /\ StopCancelsRecovery /\ ClaimedOrReset

\* Steps that leave row, queue and worker alone keep the recovery invariant.
LEMMA RecoveryUntouched ==
  RecoveryInv /\ UNCHANGED <<srv, recEv, wk>> => RecoveryInv'
BY DEF RecoveryInv, AtMostOneRecovery, StopCancelsRecovery, RecoveryPending,
       ClaimedOrReset

\* Steps that queue nothing and leave the request and the counter alone, or
\* reset the counter: enough for every step but telemetry and the worker's.
LEMMA RecoveryKept ==
  ASSUME RecoveryInv, UNCHANGED <<recEv, wk>>,
         srv'.desired = "stopped" /\ srv'.own => srv.desired = "stopped" /\ srv.own,
         srv'.attempts \in {0, srv.attempts}
  PROVE  RecoveryInv'
BY DEF RecoveryInv, AtMostOneRecovery, StopCancelsRecovery, RecoveryPending,
       ClaimedOrReset

\* FinishPower leaves recovery_attempts alone or resets it.
LEMMA PowerFinishedRow ==
  ASSUME TypeInv, NEW a, NEW ok \in BOOLEAN
  PROVE  /\ PowerFinished(a, ok).desired = "stopped" =>
              srv.desired = "stopped" /\ PowerFinished(a, ok).asked = srv.asked
         /\ PowerFinished(a, ok).attempts \in {0, srv.attempts}
         /\ PowerFinished(a, ok).own = srv.own
BY DEF TypeInv, TypeOK, ServerRow, PowerFinished

\* Every step keeps the recovery invariant: telemetry queues only when nothing
\* is pending, and a request to stop cancels what is.
LEMMA RecoveryStep == TypeInv /\ RecoveryInv /\ [Next]_vars => RecoveryInv'
<1> SUFFICES ASSUME TypeInv, RecoveryInv, [Next]_vars PROVE RecoveryInv' OBVIOUS
<1> srv \in ServerRow /\ recEv \in [RecIds -> 0 .. RecoveryCap] /\ wk \in WorkerState
  BY DEF TypeInv, TypeOK
<1>1. ASSUME NEW r \in Reqs, NEW a \in Actions \cap PowerActions, NEW q \in BOOLEAN,
             RequestPower(r, a, q)
      PROVE  RecoveryInv'
  <2>1. srv'.attempts = 0 /\ srv'.desired = DesiredBy(a) /\ wk' = wk
    BY <1>1 DEF RequestPower, ServerRow
  <2>2. CASE DesiredBy(a) = "stopped"
    <3>1. \A e \in RecIds : recEv'[e] = 0 BY <1>1, <2>2 DEF RequestPower, CancelRecovery
    <3> QED BY <2>1, <3>1 DEF RecoveryInv, AtMostOneRecovery, StopCancelsRecovery,
                              RecoveryPending, ClaimedOrReset
  <2>3. CASE DesiredBy(a) # "stopped"
    <3>1. recEv' = recEv BY <1>1, <2>3 DEF RequestPower
    <3> QED BY <2>1, <2>3, <3>1, RecoveryKept
  <2> QED BY <2>2, <2>3
<1>2. ASSUME NEW r \in Reqs, FinishPower(r) PROVE RecoveryInv'
  <2>1. (eng[r].phase = "ok") \in BOOLEAN OBVIOUS
  <2> QED BY <1>2, <2>1, PowerFinishedRow, RecoveryKept DEF FinishPower
<1>3. ASSUME NEW r \in Reqs, MarkConsoleRestartIntent(r) PROVE RecoveryInv'
  BY <1>3, RecoveryKept DEF MarkConsoleRestartIntent, ServerRow
<1>4. ASSUME NEW r \in Reqs, CancelConsoleRestartIntent(r) PROVE RecoveryInv'
  BY <1>4, RecoveryKept DEF CancelConsoleRestartIntent, ServerRow
<1>5. ASSUME NEW r \in Reqs, FinalizeServerDeletion(r) PROVE RecoveryInv'
  BY <1>5, RecoveryKept DEF FinalizeServerDeletion, ServerRow
<1>6. ASSUME SyncRuntimeStats PROVE RecoveryInv'
  <2>1. wk' = Idle BY <1>6 DEF SyncRuntimeStats
  <2>2. ClaimedOrReset' BY <2>1 DEF ClaimedOrReset, Idle
  <2>3. AtMostOneRecovery' /\ StopCancelsRecovery'
    <3> USE DEF RecoveryInv, AtMostOneRecovery, StopCancelsRecovery, RecoveryPending
    <3>1. CASE srv.deleted BY <1>6, <3>1 DEF SyncRuntimeStats
    <3>2. CASE SyncMissing
      <4>1. CASE srv.missing + 1 < 2
        BY <3>2, <4>1 DEF SyncMissing, ServerRow
      <4>2. CASE ~(srv.missing + 1 < 2)
        BY <3>2, <4>2 DEF SyncMissing, CancelRecovery
      <4> QED BY <4>1, <4>2
    <3>3. CASE SyncObserved
      <4> DEFINE st == runtimeServerStatus(wk.snap, srv.desired, srv.status)
                 n == nextRecoveryAttempt(IF srv.window THEN srv.attempts ELSE 0)
      <4>1. Observed(st).desired = srv.desired /\ Observed(st).own = srv.own BY DEF Observed, ServerRow
      <4>2. CASE st = "stopped" /\ srv.desired = "running" /\ ~RecoveryPending
        <5>1. srv' = [Observed(st) EXCEPT !.attempts = n, !.window = TRUE]
          BY <3>3, <4>2 DEF SyncObserved
        <5>2. PICK e \in RecIds : recEv' = [recEv EXCEPT ![e] = n]
          BY <3>3, <4>2 DEF SyncObserved
        <5>3. srv'.desired = "running" BY <4>1, <4>2, <5>1 DEF Observed, ServerRow
        <5>4. \A f \in RecIds : recEv'[f] # 0 => f = e BY <4>2, <5>2
        <5> QED BY <5>3, <5>4
      <4>3. CASE ~(st = "stopped" /\ srv.desired = "running" /\ ~RecoveryPending)
        <5>1. srv' = Observed(st) /\ recEv' = recEv BY <3>3, <4>3 DEF SyncObserved
        <5> QED BY <4>1, <5>1
      <4> QED BY <4>2, <4>3
    <3> QED BY <1>6, <3>1, <3>2, <3>3 DEF SyncRuntimeStats
  <2> QED BY <2>2, <2>3 DEF RecoveryInv
<1>7. ASSUME NEW e \in RecIds, ClaimRecover(e) PROVE RecoveryInv'
  <2>1. wk'.ev = e /\ recEv' = recEv /\ srv' = srv /\ recEv[e] # 0
    BY <1>7 DEF ClaimRecover, Idle
  <2> QED BY <2>1 DEF RecoveryInv, AtMostOneRecovery, StopCancelsRecovery,
                      RecoveryPending, ClaimedOrReset
<1>8. ASSUME wk'.phase # "begin",
             \A e \in RecIds : recEv'[e] \in {0, recEv[e]},
             srv'.desired = "stopped" /\ srv'.own => srv.desired = "stopped" /\ srv.own
      PROVE  RecoveryInv'
  BY <1>8 DEF RecoveryInv, AtMostOneRecovery, StopCancelsRecovery, RecoveryPending,
              ClaimedOrReset
<1>9. ASSUME FinishQueuedPower PROVE RecoveryInv'
  <2>1. (eng[Worker].phase = "ok") \in BOOLEAN OBVIOUS
  <2>2. wk'.phase = "ack" BY <1>9 DEF FinishQueuedPower, WorkerState
  <2> QED BY <1>8, <1>9, <2>1, <2>2, PowerFinishedRow DEF FinishQueuedPower
<1>10. ASSUME BeginRecovery PROVE RecoveryInv'
  <2>1. wk'.phase \in {"recover", "ack"} BY <1>10 DEF BeginRecovery, WorkerState
  <2> QED BY <1>8, <1>10, <2>1 DEF BeginRecovery, ServerRow
<1>11. ASSUME RecoveryStillDesired PROVE RecoveryInv'
  <2>1. wk'.phase \in {"finish", "undo", "ack"}
    BY <1>11 DEF RecoveryStillDesired, WorkerState
  <2> QED BY <1>8, <1>11, <2>1 DEF RecoveryStillDesired
<1>12. ASSUME RecoveryUndone PROVE RecoveryInv'
  <2>1. wk'.phase \in {"idle", "ack"} BY <1>12 DEF RecoveryUndone, WorkerState, Idle
  <2> QED BY <1>8, <1>12, <2>1 DEF RecoveryUndone
<1>13. ASSUME FinishRecovery PROVE RecoveryInv'
  <2>1. wk'.phase = "ack" BY <1>13 DEF FinishRecovery, WorkerState
  <2>2. srv'.desired = srv.desired /\ srv'.own = srv.own BY <1>13 DEF FinishRecovery, ServerRow
  <2> QED BY <1>8, <1>13, <2>1, <2>2 DEF FinishRecovery
<1>14. ASSUME Ack PROVE RecoveryInv'
  <2>1. wk'.phase = "idle" BY <1>14 DEF Ack, Idle
  <2>2. \A e \in RecIds : recEv'[e] \in {0, recEv[e]} BY <1>14 DEF Ack
  <2> QED BY <1>8, <1>14, <2>1, <2>2 DEF Ack
<1>15. ASSUME Stats PROVE RecoveryInv'
  <2>1. wk'.phase = "snapshot" BY <1>15 DEF Stats, Idle
  <2> QED BY <1>8, <1>15, <2>1 DEF Stats
<1>16. ASSUME NEW r \in Reqs, ClaimPower(r) PROVE RecoveryInv'
  <2>1. wk'.phase = "power" BY <1>16 DEF ClaimPower, Idle
  <2> QED BY <1>8, <1>16, <2>1 DEF ClaimPower
<1>17. ASSUME WorkerCrash PROVE RecoveryInv'
  <2>1. wk'.phase = "idle" BY <1>17 DEF WorkerCrash, Idle
  <2> QED BY <1>8, <1>17, <2>1 DEF WorkerCrash
<1>18. ASSUME NEW r \in Reqs,
              ConsoleReady(r) \/ ConsoleSend(r) \/ RequestDelete(r)
                \/ EngineDelete(r) \/ AbandonRequest(r)
       PROVE  RecoveryInv'
  BY <1>18, RecoveryUntouched
     DEF ConsoleReady, ConsoleSend, RequestDelete, EngineDelete, AbandonRequest
<1>19. ASSUME NEW c \in Callers, Engine(c) \/ EngineFails(c) PROVE RecoveryInv'
  BY <1>19, RecoveryUntouched DEF Engine, PowerPolicy, PowerInspect, PowerAct, EngineFails
<1>20. ASSUME Outside PROVE RecoveryInv'
  BY <1>20, RecoveryUntouched DEF Outside, ProcessExit, DockerRestart, OutsideStop,
                                  OutsidePause, OutsideRemove, ContainerEvent
<1>21. CASE UNCHANGED vars BY <1>21, RecoveryUntouched DEF vars
<1>22. ASSUME NEW r \in Reqs, QueueWorkflow(r) PROVE RecoveryInv'
  <2>1. ~srv'.own /\ srv'.attempts = srv.attempts BY <1>22 DEF QueueWorkflow, ServerRow
  <2> QED BY <1>22, <2>1, RecoveryKept DEF QueueWorkflow
<1>23. ASSUME NEW r \in Reqs, ClaimWorkflow(r) PROVE RecoveryInv'
  <2>1. wk'.phase = "prepare" BY <1>23 DEF ClaimWorkflow, Idle
  <2> QED BY <1>8, <1>23, <2>1 DEF ClaimWorkflow
<1>24. ASSUME WorkflowStep PROVE RecoveryInv'
  <2>1. wk'.phase # "begin" /\ recEv' = recEv BY <1>24, WorkflowMoves DEF Idle
  <2>2. srv' = srv \/ ~srv'.own
    <3>1. CASE FinishWorkflow BY <3>1 DEF FinishWorkflow, ServerRow
    <3> QED BY <1>24, <3>1, WorkflowMoves
  <2> QED BY <1>8, <2>1, <2>2
<1> QED
  BY <1>1, <1>2, <1>3, <1>4, <1>5, <1>6, <1>7, <1>9, <1>10, <1>11, <1>12, <1>13,
     <1>14, <1>15, <1>16, <1>17, <1>18, <1>19, <1>20, <1>21, <1>22, <1>23, <1>24, ConstantsAssumption
  DEF Next, User, Handler, Claim, ClaimRequest, WorkerStep

\* The recovery invariant holds in every reachable state.
LEMMA RecoveryInvariant == Spec => [](TypeInv /\ RecoveryInv)
<1>1. Init => RecoveryInv
  BY DEF Init, Idle, RecoveryInv, AtMostOneRecovery, StopCancelsRecovery,
         RecoveryPending, ClaimedOrReset
<1> QED BY <1>1, TypeInit, TypeStep, RecoveryStep, PTL DEF Spec

\* At most one server.recover event is ever unprocessed: SyncRuntimeStats looks for a
\* pending one before it queues another, under any interleaving with the requests.
THEOREM OneRecovery == Spec => []AtMostOneRecovery
<1>1. RecoveryInv => AtMostOneRecovery BY DEF RecoveryInv
<1> QED BY <1>1, RecoveryInvariant, PTL

\* No recovery is queued while a Stop or Kill stands: requestPower cancels what is
\* pending, and no observation that was taken before it queues more.
THEOREM RecoveryQueueSafe == Spec => []StopCancelsRecovery
<1>1. RecoveryInv => StopCancelsRecovery BY DEF RecoveryInv
<1> QED BY <1>1, RecoveryInvariant, PTL

\* BeginRecovery refuses every event that was cancelled after it was claimed.
THEOREM CancelledRecovery == Spec => CancelledRecoveryNeverBegins
<1>1. TypeInv /\ RecoveryInv /\ [Next]_vars =>
        [wk.phase = "begin" /\ wk'.phase = "recover" => recEv[wk.ev] # 0]_vars
  <2> SUFFICES ASSUME TypeInv, RecoveryInv, [Next]_vars, wk.phase = "begin",
                      wk'.phase = "recover"
               PROVE  recEv[wk.ev] # 0
    OBVIOUS
  <2> wk \in WorkerState BY DEF TypeInv, TypeOK
  <2>1. CASE BeginRecovery
    <3>1. srv.attempts = wk.attempt
      <4>1. wk' # [wk EXCEPT !.phase = "ack"] BY DEF WorkerState
      <4> QED BY <2>1, <4>1 DEF BeginRecovery
    <3>2. wk.attempt > 0 BY DEF TypeInv, WorkerHolds
    <3> QED BY <3>1, <3>2 DEF RecoveryInv, ClaimedOrReset, TypeInv, TypeOK, ServerRow
  <2>2. CASE ~BeginRecovery
    <3>1. wk' # wk /\ wk' # Idle BY DEF Idle
    <3>2. WorkerStep \/ WorkerCrash
      BY <3>1 DEF Next, User, Handler, Engine, Claim, ClaimRequest, Outside, vars, QueueWorkflow, ClaimWorkflow,
       RequestPower, FinishPower, ConsoleReady, MarkConsoleRestartIntent, ConsoleSend,
       CancelConsoleRestartIntent, RequestDelete, EngineDelete, FinalizeServerDeletion,
       AbandonRequest, PowerPolicy, PowerInspect, PowerAct, EngineFails, ClaimPower,
       ClaimRecover, Stats, ProcessExit, DockerRestart, OutsideStop, OutsidePause,
       OutsideRemove, ContainerEvent
    <3>3. ~WorkflowStep BY WorkflowMoves DEF WorkflowPhases
    <3> QED BY <2>2, <3>1, <3>2, <3>3 DEF WorkerStep, WorkerCrash, SyncRuntimeStats,
          FinishQueuedPower, RecoveryStillDesired, RecoveryUndone, FinishRecovery, Ack
  <2> QED BY <2>1, <2>2
<1> QED BY <1>1, RecoveryInvariant, PTL DEF Spec, CancelledRecoveryNeverBegins

-----------------------------------------------------------------------------
(* What a step may do to the request that stands.                           *)

\* Telemetry sees a container, and never changes what was asked for.
LEMMA TelemetryAsksNothing ==
  ASSUME TypeInv, SyncRuntimeStats
  PROVE  (srv'.desired = srv.desired /\ srv'.asked = srv.asked) \/ srv'.desired = "deleted"
<1>1. srv \in ServerRow BY DEF TypeInv, TypeOK
<1>2. CASE srv.deleted BY <1>2 DEF SyncRuntimeStats
<1>3. CASE SyncMissing BY <1>1, <1>3 DEF SyncMissing, ServerRow
<1>4. CASE SyncObserved
  <2> DEFINE st == runtimeServerStatus(wk.snap, srv.desired, srv.status)
             n == nextRecoveryAttempt(IF srv.window THEN srv.attempts ELSE 0)
  <2>1. Observed(st).desired = srv.desired /\ Observed(st).asked = srv.asked BY <1>1 DEF Observed, ServerRow
  <2>2. srv' = [Observed(st) EXCEPT !.attempts = n, !.window = TRUE] \/ srv' = Observed(st)
    BY <1>4 DEF SyncObserved
  <2> QED BY <1>1, <2>1, <2>2 DEF Observed, ServerRow
<1> QED BY <1>2, <1>3, <1>4 DEF SyncRuntimeStats

-----------------------------------------------------------------------------
(* A stop wins over a recovery.  The container is down, or what will bring  *)
(* it down is still ahead: the stop itself, or the worker's look at the     *)
(* request after it has started the server, and the stop that follows.      *)

Working(c) == eng[c].phase \in {"policy", "inspect", "act"}

\* Whom the engine serves, and what it was asked.
Serves ==
  /\ \A r \in Reqs : req[r].phase = "idle" => req[r].action = "none"
  /\ \A r \in Reqs : req[r].action = "workflow" => req[r].phase \in {"queued", "done", "lost"}
  /\ \A r \in Reqs : Working(r) => req[r].phase = "call" /\ eng[r].action = req[r].action
  /\ wk.job \in Reqs => req[wk.job].phase = "queued"
  /\ wk.phase = "power" => req[wk.job].action # "workflow"
  /\ wk.phase \in WorkflowPhases => req[wk.job].action = "workflow"
  /\ Working(Worker) => \/ wk.phase = "power" /\ eng[Worker].action = req[wk.job].action
                        \/ wk.phase = "recover" /\ eng[Worker].action = "start"
                        \/ wk.phase = "undo" /\ eng[Worker].action = "stop"
                        \/ wk.phase \in {"halt", "resume"}

\* A call that will find the container running if it runs, or has.
Effective(c) == eng[c].phase \in {"policy", "inspect"} \/ (eng[c].phase = "act" /\ Running(eng[c].seen))

\* A stop that has not had its effect, or has failed and will say so.
StopAhead(r) ==
  /\ req[r].action \in {"stop", "kill"}
  /\ \/ req[r].phase = "call" /\ (Effective(r) \/ eng[r].phase = "error")
     \/ req[r].phase = "queued" /\ wk.job # r
     \/ wk.phase = "power" /\ wk.job = r /\ (Effective(Worker) \/ eng[Worker].phase = "error")

\* A recovery that found the server down is the only one who can start it, and is
\* refused only when the container is gone.
StartSeen ==
  OnlyStops /\ wk.phase = "recover" =>
    /\ eng[Worker].phase = "act" /\ ~Running(eng[Worker].seen) => Offline
    /\ eng[Worker].phase = "error" => Offline

WillBeOffline ==
  OnlyStops /\ srv.desired = "stopped" =>
    \/ Offline
    \/ wk.phase = "recover"
    \/ wk.phase = "undo" /\ Effective(Worker)
    \/ \E r \in Reqs : StopAhead(r)

OfflineInv == TypeInv /\ Serves /\ StartSeen /\ WillBeOffline

\* The phases of calls and of the idle worker.
LEMMA CallPhases ==
  /\ NoCall.phase = "none" /\ \A a : Call(a).phase = "policy" /\ Call(a).action = a
  /\ \A v : Answer(v).phase = v
  /\ Idle.phase = "idle" /\ Idle.job = None
BY DEF NoCall, Call, Answer, Idle

\* What an engine step does to its own call, and to the container.
EngineMove(c) ==
  /\ \A d \in Callers \ {c} : eng'[d] = eng[d]
  /\ srv' = srv /\ req' = req /\ wk' = wk
  /\ Working(c)
  /\ \/ eng'[c].phase = "error" /\ cont'.state = cont.state /\ eng[c].phase \in {"policy", "inspect"} /\ Offline
     \/ /\ eng[c].phase = "policy" /\ eng'[c].phase = "inspect" /\ eng'[c].action = eng[c].action
        /\ cont'.state = cont.state
     \/ /\ eng[c].phase = "inspect" /\ eng'[c].phase = "act" /\ eng'[c].action = eng[c].action
        /\ eng'[c].seen = cont.state /\ cont'.state = cont.state
     \/ LET call == DockerCall(eng[c].action, eng[c].seen) IN
        /\ eng[c].phase = "act"
        /\ \/ DockerRefuses(call, cont.state) /\ eng'[c].phase = "error" /\ cont'.state = cont.state
           \/ eng'[c].phase = "ok" /\ cont'.state = DockerResult(call, cont.state)

\* The engine's three steps are such moves.
LEMMA EngineMoves ==
  ASSUME TypeInv, NEW c \in Callers, Engine(c)
  PROVE  EngineMove(c)
<1>1. eng \in [Callers -> EngineCall] /\ cont \in [state : ContainerStates, policy : BOOLEAN]
  BY DEF TypeInv, TypeOK
<1>2. CASE PowerPolicy(c)
  <2>1. cont'.state = cont.state
    <3> DEFINE b == eng[c].action \in {"start", "restart"}
    <3>1. cont' = cont \/ cont' = [cont EXCEPT !.policy = b] BY <1>2 DEF PowerPolicy
    <3> HIDE DEF b
    <3> QED BY <1>1, <3>1
  <2>2. CASE cont.state = "absent"
    <3>1. eng' = [eng EXCEPT ![c] = Answer("error")] BY <1>2, <2>2 DEF PowerPolicy
    <3> QED BY <1>1, <1>2, <2>1, <2>2, <3>1, CallPhases DEF EngineMove, PowerPolicy, Working, Offline
  <2>3. CASE cont.state # "absent"
    <3>1. eng' = [eng EXCEPT ![c].phase = "inspect"] BY <1>2, <2>3 DEF PowerPolicy
    <3>2. eng'[c].phase = "inspect" /\ eng'[c].action = eng[c].action /\ \A d \in Callers \ {c} : eng'[d] = eng[d]
      BY <1>1, <3>1 DEF EngineCall
    <3> QED BY <1>2, <2>1, <3>2 DEF EngineMove, PowerPolicy, Working
  <2> QED BY <2>2, <2>3
<1>3. CASE PowerInspect(c)
  <2>1. CASE cont.state = "absent"
    <3>1. eng' = [eng EXCEPT ![c] = Answer("error")] BY <1>3, <2>1 DEF PowerInspect
    <3> QED BY <1>1, <1>3, <2>1, <3>1, CallPhases DEF EngineMove, PowerInspect, Working, Offline
  <2>2. CASE cont.state # "absent"
    <3>1. eng' = [eng EXCEPT ![c] = [@ EXCEPT !.phase = "act", !.seen = cont.state]] BY <1>3, <2>2 DEF PowerInspect
    <3>2. /\ eng'[c].phase = "act" /\ eng'[c].action = eng[c].action /\ eng'[c].seen = cont.state
          /\ \A d \in Callers \ {c} : eng'[d] = eng[d]
      BY <1>1, <3>1 DEF EngineCall
    <3> QED BY <1>3, <3>2 DEF EngineMove, PowerInspect, Working
  <2> QED BY <2>1, <2>2
<1>4. CASE PowerAct(c)
  <2> DEFINE call == DockerCall(eng[c].action, eng[c].seen)
  <2>1. \/ DockerRefuses(call, cont.state) /\ eng' = [eng EXCEPT ![c] = Answer("error")] /\ cont' = cont
        \/ eng' = [eng EXCEPT ![c] = Answer("ok")] /\ cont' = [cont EXCEPT !.state = DockerResult(call, @)]
    BY <1>4 DEF PowerAct
  <2>2. eng[c].phase = "act" /\ srv' = srv /\ req' = req /\ wk' = wk BY <1>4 DEF PowerAct
  <2> HIDE DEF call
  <2>3. /\ \A d \in Callers \ {c} : eng'[d] = eng[d]
        /\ \/ DockerRefuses(call, cont.state) /\ eng'[c].phase = "error" /\ cont'.state = cont.state
           \/ eng'[c].phase = "ok" /\ cont'.state = DockerResult(call, cont.state)
    BY <1>1, <2>1, CallPhases
  <2> QED BY <2>2, <2>3 DEF EngineMove, Working, call
<1> QED BY <1>2, <1>3, <1>4 DEF Engine

\* The engine serves the handler or the worker that called it, whatever else happens.
LEMMA ServesStep == TypeInv /\ Serves /\ [Next]_vars => Serves'
<1> SUFFICES ASSUME TypeInv, Serves, [Next]_vars PROVE Serves' OBVIOUS
<1> USE ConstantsAssumption
<1>0. /\ req \in [Reqs -> Request] /\ eng \in [Callers -> EngineCall] /\ wk \in WorkerState
  BY DEF TypeInv, TypeOK
<1>a. \A r \in Reqs : r \in Callers /\ r # Worker /\ r # None BY DEF Callers
<1>1. ASSUME NEW r \in Reqs, NEW a \in PowerActions, NEW q \in BOOLEAN, RequestPower(r, a, q) PROVE Serves'
  <2>1. req[r].phase = "idle" /\ wk' = wk BY <1>1 DEF RequestPower
  <2>2. /\ req'[r].phase = (IF q THEN "queued" ELSE "call") /\ req'[r].action = a
        /\ \A o \in Reqs \ {r} : req'[o] = req[o]
    BY <1>0, <1>1 DEF RequestPower
  <2>3. /\ q => eng' = eng
        /\ ~q => eng'[r].phase = "policy" /\ eng'[r].action = a
        /\ \A c \in Callers \ {r} : eng'[c] = eng[c]
    BY <1>0, <1>1, <1>a, CallPhases DEF RequestPower
  <2>4. ~Working(r) /\ wk.job # r BY <2>1 DEF Serves
  <2>5. wk.phase \in {"power"} \cup WorkflowPhases => wk.job \in Reqs BY DEF TypeInv, WorkerHolds
  <2> QED BY <1>a, <2>1, <2>2, <2>3, <2>4, <2>5 DEF Serves, Working, Callers, PowerActions
<1>2. ASSUME NEW r \in Reqs, FinishPower(r) \/ AbandonRequest(r) PROVE Serves'
  <2>1. /\ wk' = wk /\ req[r].phase \notin {"idle", "queued", "done", "lost"}
        /\ eng' = [eng EXCEPT ![r] = NoCall]
    BY <1>2 DEF FinishPower, AbandonRequest
  <2>2. /\ req'[r].phase \in {"done", "lost"} /\ \A o \in Reqs \ {r} : req'[o] = req[o]
        /\ req'[r].action = req[r].action
    <3>1. CASE FinishPower(r)
      <4> DEFINE o == IF eng[r].phase = "ok" THEN "succeeded" ELSE "failed"
                 h == [req[r] EXCEPT !.phase = "done", !.op = o]
      <4>1. h.phase = "done" /\ h.action = req[r].action BY <1>0 DEF Request
      <4>2. req' = [req EXCEPT ![r] = h] BY <3>1 DEF FinishPower
      <4> HIDE DEF h
      <4> QED BY <1>0, <4>1, <4>2
    <3>2. CASE AbandonRequest(r) BY <1>0, <3>2 DEF AbandonRequest, Request
    <3> QED BY <1>2, <3>1, <3>2
  <2>3. ~Working(r)' /\ \A c \in Callers \ {r} : eng'[c] = eng[c] BY <1>0, <1>a, <2>1, CallPhases DEF Working
  <2>4. wk.job # r BY <2>1 DEF Serves
  <2>5. wk.phase \in {"power"} \cup WorkflowPhases => wk.job \in Reqs BY DEF TypeInv, WorkerHolds
  <2> QED BY <1>a, <2>1, <2>2, <2>3, <2>4, <2>5 DEF Serves, Working, Callers
<1>3. ASSUME NEW r \in Reqs,
             \/ ConsoleReady(r) \/ MarkConsoleRestartIntent(r) \/ ConsoleSend(r) \/ CancelConsoleRestartIntent(r)
             \/ RequestDelete(r) \/ EngineDelete(r) \/ FinalizeServerDeletion(r)
      PROVE  Serves'
  <2>1. wk' = wk /\ eng' = eng /\ req[r].phase \notin {"call", "queued", "done", "lost"}
    BY <1>3 DEF ConsoleReady, MarkConsoleRestartIntent, ConsoleSend, CancelConsoleRestartIntent, RequestDelete,
                EngineDelete, FinalizeServerDeletion
  <2>0. req[r].action # "workflow" BY <2>1 DEF Serves
  <2>2. req'[r].phase # "idle" /\ req'[r].action # "workflow" /\ \A o \in Reqs \ {r} : req'[o] = req[o]
    <3>1. CASE ConsoleReady(r) \/ RequestDelete(r)
      <4>1. /\ [req[r] EXCEPT !.phase = "ready", !.action = "console"].phase = "ready"
            /\ [req[r] EXCEPT !.phase = "ready", !.action = "console"].action = "console"
            /\ [req[r] EXCEPT !.phase = "remove", !.action = "delete"].phase = "remove"
            /\ [req[r] EXCEPT !.phase = "remove", !.action = "delete"].action = "delete"
        BY <1>0 DEF Request
      <4> QED BY <1>0, <3>1, <4>1 DEF ConsoleReady, RequestDelete
    <3>2. ASSUME NEW p, p # "idle", req' = [req EXCEPT ![r].phase = p]
          PROVE  req'[r].phase # "idle" /\ req'[r].action # "workflow" /\ \A o \in Reqs \ {r} : req'[o] = req[o]
      BY <1>0, <2>0, <3>2 DEF Request
    <3>3. CASE ConsoleSend(r)
      <4>1. \/ req' = [req EXCEPT ![r].phase = "done"] \/ req' = [req EXCEPT ![r].phase = "cancel"]
        BY <1>0, <3>3 DEF ConsoleSend
      <4> QED BY <3>2, <4>1
    <3>4. CASE MarkConsoleRestartIntent(r) \/ CancelConsoleRestartIntent(r) \/ EngineDelete(r) \/ FinalizeServerDeletion(r)
      BY <3>2, <3>4 DEF MarkConsoleRestartIntent, CancelConsoleRestartIntent, EngineDelete, FinalizeServerDeletion
    <3> QED BY <1>3, <3>1, <3>3, <3>4
  <2>3. wk.phase \in {"power"} \cup WorkflowPhases => wk.job \in Reqs BY DEF TypeInv, WorkerHolds
  <2>4. ~Working(r) /\ wk.job # r BY <2>1 DEF Serves
  <2> QED BY <2>1, <2>2, <2>3, <2>4 DEF Serves, Working
<1>4. ASSUME NEW c \in Callers, Engine(c) PROVE Serves'
  <2>1. EngineMove(c) BY <1>4, EngineMoves
  <2>2. /\ \A d \in Callers \ {c} : eng'[d] = eng[d]
        /\ req' = req /\ wk' = wk /\ Working(c) /\ (Working(c)' => eng'[c].action = eng[c].action)
    BY <2>1 DEF EngineMove, Working
  <2> QED BY <1>a, <2>2 DEF Serves, Working, Callers
<1>5. ASSUME NEW c \in Callers, EngineFails(c) PROVE Serves'
  <2>1. eng' = [eng EXCEPT ![c] = Answer("error")] /\ req' = req /\ wk' = wk BY <1>5 DEF EngineFails
  <2>2. \A d \in Callers : eng'[d] = eng[d] \/ eng'[d].phase = "error" BY <1>0, <2>1, CallPhases
  <2> QED BY <1>a, <2>1, <2>2 DEF Serves, Working, Callers
<1>6. ASSUME wk'.job \notin Reqs, eng' = eng, req' = req, wk.phase \notin {"power", "recover", "undo", "halt", "resume"},
             wk'.phase \notin {"power"} \cup WorkflowPhases
      PROVE  Serves'
  BY <1>6 DEF Serves, Working
<1>7. CASE Stats
  <2>1. wk'.job = None /\ wk'.phase = "snapshot" BY <1>7 DEF Stats, Idle
  <2> QED BY <1>6, <1>7, <2>1 DEF Stats, WorkflowPhases
<1>8. CASE SyncRuntimeStats
  <2>1. wk'.phase = "idle" /\ wk'.job = None /\ eng' = eng /\ wk.phase = "snapshot"
    BY <1>8, CallPhases DEF SyncRuntimeStats
  <2>2. \A r \in Reqs : req'[r] = req[r] \/ (req[r].phase = "queued" /\ req'[r].phase = "lost")
    <3>1. CASE req' = req BY <3>1
    <3>2. CASE SyncMissing BY <1>0, <3>2 DEF SyncMissing, Request
    <3> QED BY <1>8, <3>1, <3>2 DEF SyncRuntimeStats
  <2>3. ~Working(Worker) BY <2>1 DEF Serves
  <2> QED BY <1>a, <2>1, <2>2, <2>3 DEF Serves, Working, WorkflowPhases
<1>9. ASSUME NEW r \in Reqs, ClaimPower(r) PROVE Serves'
  <2>1. /\ wk' = [Idle EXCEPT !.phase = "power", !.job = r] /\ eng' = [eng EXCEPT ![Worker] = Call(req[r].action)]
        /\ req' = req /\ req[r].phase = "queued" /\ req[r].action # "workflow"
    BY <1>9 DEF ClaimPower
  <2>2. wk'.phase = "power" /\ wk'.job = r BY <2>1 DEF Idle
  <2>3. eng'[Worker].action = req[r].action /\ \A o \in Reqs : eng'[o] = eng[o]
    BY <1>0, <1>a, <2>1, CallPhases DEF Callers
  <2> QED BY <2>1, <2>2, <2>3 DEF Serves, Working, WorkflowPhases
<1>10. ASSUME NEW e \in RecIds, ClaimRecover(e) PROVE Serves'
  <2>1. wk'.job = None /\ wk'.phase = "begin" BY <1>10 DEF ClaimRecover, Idle
  <2> QED BY <1>6, <1>10, <2>1 DEF ClaimRecover, WorkflowPhases
<1>11. ASSUME eng' = [eng EXCEPT ![Worker] = NoCall], wk'.job = wk.job \/ wk'.job = None,
              wk'.phase \notin {"power"} \cup WorkflowPhases,
              \A r \in Reqs : req'[r].phase = req[r].phase /\ req'[r].action = req[r].action
       PROVE  Serves'
  <2>1. ~Working(Worker)' /\ \A r \in Reqs : eng'[r] = eng[r]
    BY <1>0, <1>a, <1>11, CallPhases DEF Working, Callers
  <2> QED BY <1>11, <2>1 DEF Serves, Working
<1>12. CASE FinishQueuedPower
  <2>1. wk'.job = wk.job /\ wk'.phase = "ack" BY <1>0, <1>12 DEF FinishQueuedPower, WorkerState
  <2>2. \A r \in Reqs : req'[r].phase = req[r].phase /\ req'[r].action = req[r].action
    <3> DEFINE o == IF eng[Worker].phase = "ok" THEN "succeeded" ELSE "failed"
               j == wk.job
    <3>1. req' = [req EXCEPT ![j].op = o] BY <1>12 DEF FinishQueuedPower
    <3> HIDE DEF o, j
    <3> QED BY <1>0, <3>1 DEF Request
  <2> QED BY <1>11, <1>12, <2>1, <2>2 DEF FinishQueuedPower, WorkflowPhases
<1>13. CASE BeginRecovery
  <2>1. req' = req BY <1>13 DEF BeginRecovery
  <2>2. CASE eng' = eng /\ wk' = [wk EXCEPT !.phase = "ack"]
    <3>1. wk'.job = wk.job /\ wk.phase = "begin" /\ wk'.phase = "ack"
      BY <1>0, <1>13, <2>2 DEF WorkerState, BeginRecovery
    <3> QED BY <2>1, <2>2, <3>1 DEF Serves, Working, WorkflowPhases
  <2>3. CASE eng' = [eng EXCEPT ![Worker] = Call("start")] /\ wk' = [wk EXCEPT !.phase = "recover"]
    <3>1. wk'.job = wk.job /\ wk'.phase = "recover" BY <1>0, <2>3 DEF WorkerState
    <3>2. eng'[Worker].action = "start" /\ \A r \in Reqs : eng'[r] = eng[r]
      BY <1>0, <1>a, <2>3, CallPhases DEF Callers
    <3> QED BY <2>1, <3>1, <3>2 DEF Serves, Working, WorkflowPhases
  <2> QED BY <1>13, <2>2, <2>3 DEF BeginRecovery
<1>14. CASE RecoveryStillDesired
  <2>1. req' = req BY <1>14 DEF RecoveryStillDesired
  <2>2. wk'.job = wk.job /\ wk'.phase \in {"finish", "undo", "ack"}
    <3> DEFINE b == ~(eng[Worker].phase = "ok")
    <3>1. \/ wk' = [wk EXCEPT !.phase = "finish", !.failed = b]
          \/ wk' = [wk EXCEPT !.phase = "undo"] \/ wk' = [wk EXCEPT !.phase = "ack"]
      BY <1>14 DEF RecoveryStillDesired
    <3> HIDE DEF b
    <3> QED BY <1>0, <3>1 DEF WorkerState
  <2>3. CASE eng' = [eng EXCEPT ![Worker] = NoCall] BY <1>11, <2>1, <2>2, <2>3 DEF WorkflowPhases
  <2>4. CASE eng' = [eng EXCEPT ![Worker] = Call("stop")] /\ wk' = [wk EXCEPT !.phase = "undo"]
    <3>1. wk'.phase = "undo" BY <1>0, <2>4 DEF WorkerState
    <3>2. eng'[Worker].action = "stop" /\ \A r \in Reqs : eng'[r] = eng[r]
      BY <1>0, <1>a, <2>4, CallPhases DEF Callers
    <3> QED BY <2>1, <2>2, <3>1, <3>2 DEF Serves, Working, WorkflowPhases
  <2> QED BY <1>14, <2>3, <2>4 DEF RecoveryStillDesired
<1>15. CASE RecoveryUndone \/ WorkerCrash
  <2>1. (wk'.job = wk.job \/ wk'.job = None) /\ wk'.phase \in {"idle", "ack"}
    BY <1>0, <1>15, CallPhases DEF RecoveryUndone, WorkerCrash, WorkerState
  <2> QED BY <1>11, <1>15, <2>1 DEF RecoveryUndone, WorkerCrash, WorkflowPhases
<1>16. CASE FinishRecovery
  <2>1. wk'.job = wk.job /\ wk.phase = "finish" /\ wk'.phase = "ack" BY <1>0, <1>16 DEF FinishRecovery, WorkerState
  <2> QED BY <1>16, <2>1 DEF FinishRecovery, Serves, Working, WorkflowPhases
<1>17. CASE Ack
  <2>1. wk'.phase = "idle" /\ wk'.job = None /\ eng' = eng /\ wk.phase = "ack" BY <1>17, CallPhases DEF Ack
  <2>2. \A r \in Reqs : req'[r] = req[r] \/ (req[r].phase = "queued" /\ req'[r].phase = "done")
    BY <1>0, <1>17 DEF Ack, Request
  <2> QED BY <1>a, <2>1, <2>2 DEF Serves, Working, WorkflowPhases
<1>18. CASE Outside \/ UNCHANGED vars
  <2>1. req' = req /\ eng' = eng /\ wk' = wk
    BY <1>18 DEF Outside, ProcessExit, DockerRestart, OutsideStop, OutsidePause, OutsideRemove, ContainerEvent, vars
  <2> QED BY <2>1 DEF Serves, Working
<1>19. ASSUME NEW r \in Reqs, QueueWorkflow(r) PROVE Serves'
  <2>1. /\ req[r].phase = "idle" /\ wk' = wk /\ eng' = eng
        /\ req'[r].phase = "queued" /\ req'[r].action = "workflow" /\ \A o \in Reqs \ {r} : req'[o] = req[o]
    BY <1>0, <1>19 DEF QueueWorkflow
  <2>2. wk.phase \in {"power"} \cup WorkflowPhases => wk.job \in Reqs BY DEF TypeInv, WorkerHolds
  <2>3. ~Working(r) /\ wk.job # r BY <2>1 DEF Serves
  <2> QED BY <2>1, <2>2, <2>3 DEF Serves, Working
<1>20. ASSUME NEW r \in Reqs, ClaimWorkflow(r) PROVE Serves'
  <2>1. /\ wk.phase = "idle" /\ req[r].phase = "queued" /\ req[r].action = "workflow" /\ req' = req /\ eng' = eng
        /\ wk'.phase = "prepare" /\ wk'.job = r
    BY <1>20 DEF ClaimWorkflow, Idle
  <2> QED BY <2>1 DEF Serves, Working, WorkflowPhases
<1>21. CASE WorkflowStep
  <2>1. \A r \in Reqs : req'[r].phase = req[r].phase /\ req'[r].action = req[r].action
    BY <1>21, WorkflowKeepsRequests
  <2>2. wk.phase \in WorkflowPhases /\ wk.job \in Reqs /\ \A r \in Reqs : eng'[r] = eng[r] BY <1>21, WorkflowMoves
  <2>3. \/ wk'.phase = "idle" /\ wk'.job = None
        \/ wk'.phase \in {"halt", "work", "resume", "record", "ack"} /\ wk'.job = wk.job
    BY <1>21, WorkflowMoves, CallPhases
  <2>4. Working(Worker)' => wk'.phase \in {"halt", "resume"}
    <3>1. CASE eng' = eng /\ wk.phase \in {"prepare", "work", "record"} BY <3>1 DEF Serves, Working
    <3>2. CASE eng' = [eng EXCEPT ![Worker] = NoCall] BY <1>0, <3>2, CallPhases DEF Working, Callers
    <3> QED BY <1>21, <3>1, <3>2, WorkflowMoves
  <2> QED BY <1>a, <2>1, <2>2, <2>3, <2>4 DEF Serves, Working, WorkflowPhases
<1> QED
  BY <1>1, <1>2, <1>3, <1>4, <1>5, <1>7, <1>8, <1>9, <1>10, <1>12, <1>13, <1>14, <1>15, <1>16, <1>17, <1>18,
     <1>19, <1>20, <1>21
  DEF Next, User, Handler, Claim, ClaimRequest, WorkerStep

\* Steps that take nothing away of what will bring the container down.
LEMMA StaysAhead ==
  ASSUME OnlyStops, StartSeen, WillBeOffline, Offline => Offline',
         srv'.desired = "stopped" =>
           srv.desired = "stopped" /\ \A r \in Reqs : StopAhead(r) => StopAhead(r)',
         wk.phase = "recover" => wk'.phase = "recover",
         wk.phase = "undo" /\ Effective(Worker) => wk'.phase = "undo" /\ Effective(Worker)',
         wk'.phase = "recover" => wk.phase = "recover" /\ eng'[Worker] = eng[Worker]
  PROVE  StartSeen' /\ WillBeOffline'
BY DEF StartSeen, WillBeOffline

\* As long as nobody asks for a start, only the recovery starts the server.
LEMMA OfflineEngine ==
  ASSUME OfflineInv, OnlyStops, NEW c \in Callers, Engine(c)
  PROVE  StartSeen' /\ WillBeOffline'
<1> USE ConstantsAssumption
<1>1. EngineMove(c) BY EngineMoves DEF OfflineInv
<1>2. /\ \A d \in Callers \ {c} : eng'[d] = eng[d]
      /\ srv' = srv /\ req' = req /\ wk' = wk /\ Working(c)
  BY <1>1 DEF EngineMove
<1>3. cont.state \in ContainerStates BY DEF OfflineInv, TypeInv, TypeOK
<1>4. Offline <=> ~Running(cont.state) BY <1>3 DEF Offline, Running, ContainerStates
<1>5. wk.phase \in {"power"} \cup WorkflowPhases => wk.job \in Reqs BY DEF OfflineInv, TypeInv, WorkerHolds
<1>6. \A r \in Reqs : req[r].action \notin {"start", "restart", "delete", "workflow"} BY DEF OnlyStops
<1>7. CASE c = Worker /\ wk.phase = "recover"
  <2>1. eng[c].action = "start" BY <1>2, <1>7 DEF OfflineInv, Serves
  <2>2. WillBeOffline' BY <1>2, <1>7 DEF WillBeOffline
  <2>3. CASE eng[c].phase \in {"policy", "inspect"}
    <3>1. cont'.state = cont.state BY <1>1, <2>3 DEF EngineMove
    <3>2. Offline' <=> Offline BY <3>1 DEF Offline
    <3>3. eng'[c].phase = "act" => eng'[c].seen = cont.state BY <1>1, <2>3 DEF EngineMove
    <3>4. eng'[c].phase = "error" => Offline BY <1>1, <2>3 DEF EngineMove
    <3> QED BY <1>4, <1>7, <2>2, <3>2, <3>3, <3>4 DEF StartSeen
  <2>4. CASE eng[c].phase = "act"
    <3>1. eng'[c].phase \in {"error", "ok"} BY <1>1, <2>4 DEF EngineMove
    <3>2. eng'[c].phase = "error" => DockerRefuses(DockerCall("start", eng[c].seen), cont.state) /\ cont'.state = cont.state
      BY <1>1, <2>1, <2>4 DEF EngineMove
    <3>3. CASE Running(eng[c].seen)
      <4>1. DockerCall("start", eng[c].seen) = "nothing" BY <3>3 DEF DockerCall
      <4> QED BY <1>7, <2>2, <3>1, <3>2, <4>1 DEF DockerRefuses, StartSeen
    <3>4. CASE ~Running(eng[c].seen)
      <4>1. Offline BY <1>7, <2>4, <3>4 DEF OfflineInv, StartSeen
      <4>2. eng'[c].phase = "error" => Offline' BY <3>2, <4>1 DEF Offline
      <4> QED BY <1>7, <2>2, <3>1, <4>2 DEF StartSeen
    <3> QED BY <3>3, <3>4
  <2> QED BY <1>2, <2>3, <2>4 DEF Working
<1>8. CASE ~(c = Worker /\ wk.phase = "recover")
  <2>1. eng[c].action \notin {"start", "restart"}
    BY <1>2, <1>5, <1>6, <1>8 DEF OfflineInv, Serves, Callers, WorkflowPhases
  <2> DEFINE call == DockerCall(eng[c].action, eng[c].seen)
  <2>2. call \in {"nothing", "stop", "kill"} BY <2>1 DEF DockerCall
  <2>3. Offline => Offline'
    <3>1. cont'.state = cont.state \/ cont'.state = DockerResult(call, cont.state) BY <1>1 DEF EngineMove
    <3>2. DockerResult(call, cont.state) \in {cont.state, "exited"} BY <2>2 DEF DockerResult
    <3> HIDE DEF call
    <3> QED BY <3>1, <3>2 DEF Offline
  <2>4. ASSUME eng[c].action \in {"stop", "kill"}, Effective(c)
        PROVE  Offline' \/ Effective(c)' \/ (eng'[c].phase = "error" /\ eng[c].action = "kill")
    <3>1. CASE eng[c].phase \in {"policy", "inspect"}
      <4>1. cont'.state = cont.state BY <1>1, <3>1 DEF EngineMove
      <4>2. Offline' <=> Offline BY <4>1 DEF Offline
      <4>3. \/ eng'[c].phase = "error" /\ Offline
            \/ eng'[c].phase = "inspect"
            \/ eng'[c].phase = "act" /\ eng'[c].seen = cont.state
        BY <1>1, <3>1 DEF EngineMove
      <4> QED BY <1>4, <4>2, <4>3 DEF Effective
    <3>2. CASE eng[c].phase = "act"
      <4>1. Running(eng[c].seen) BY <2>4, <3>2 DEF Effective
      <4>2. call = eng[c].action BY <2>4, <4>1 DEF DockerCall
      <4>3. \/ DockerRefuses(call, cont.state) /\ eng'[c].phase = "error" /\ cont'.state = cont.state
            \/ eng'[c].phase = "ok" /\ cont'.state = DockerResult(call, cont.state)
        BY <1>1, <3>2 DEF EngineMove
      <4>4. DockerRefuses("stop", cont.state) => cont.state = "absent" BY DEF DockerRefuses
      <4>5. DockerResult("stop", cont.state) = "exited" \/ (~Running(cont.state) /\ DockerResult("stop", cont.state) = cont.state)
        BY DEF DockerResult
      <4>6. DockerResult("kill", cont.state) = "exited" \/ (~Running(cont.state) /\ DockerResult("kill", cont.state) = cont.state)
        BY DEF DockerResult
      <4>7. \A v : v = "exited" \/ v = "absent" \/ (v = cont.state /\ ~Running(cont.state)) => v \in {"created", "exited", "absent"}
        BY <1>4 DEF Offline
      <4>8. CASE eng[c].action = "stop"
        <5>1. cont'.state \in {"created", "exited", "absent"} BY <4>2, <4>3, <4>4, <4>5, <4>7, <4>8
        <5> QED BY <5>1 DEF Offline
      <4>9. CASE eng[c].action = "kill"
        <5>1. cont'.state \in {"created", "exited", "absent"} \/ eng'[c].phase = "error" BY <4>2, <4>3, <4>6, <4>7, <4>9
        <5> QED BY <4>9, <5>1 DEF Offline
      <4> QED BY <2>4, <4>8, <4>9
    <3> QED BY <1>2, <3>1, <3>2 DEF Working
  <2>5. CASE Offline'
    <3>1. wk.phase = "recover" => c # Worker BY <1>8
    <3> QED BY <2>5, <3>1 DEF StartSeen, WillBeOffline
  <2>6. CASE ~Offline'
    <3>1. \A r \in Reqs : StopAhead(r) => StopAhead(r)'
      <4> SUFFICES ASSUME NEW r \in Reqs, StopAhead(r) PROVE StopAhead(r)' OBVIOUS
      <4>1. r # Worker /\ Worker \in Callers /\ r \in Callers BY DEF Callers
      <4>2. CASE req[r].phase = "call" /\ (Effective(r) \/ eng[r].phase = "error")
        <5>1. CASE c # r BY <1>2, <4>1, <4>2, <5>1 DEF StopAhead, Effective
        <5>2. CASE c = r
          <6>1. eng[c].action = req[r].action /\ Effective(c)
            BY <1>2, <4>2, <5>2 DEF OfflineInv, Serves, Working
          <6>2. Effective(r)' \/ eng'[r].phase = "error" BY <2>4, <2>6, <5>2, <6>1 DEF StopAhead
          <6> QED BY <1>2, <4>2, <6>2 DEF StopAhead
        <5> QED BY <5>1, <5>2
      <4>3. CASE req[r].phase = "queued" /\ wk.job # r BY <1>2, <4>3 DEF StopAhead
      <4>4. CASE wk.phase = "power" /\ wk.job = r /\ (Effective(Worker) \/ eng[Worker].phase = "error")
        <5>1. CASE c # Worker BY <1>2, <4>1, <4>4, <5>1 DEF StopAhead, Effective
        <5>2. CASE c = Worker
          <6>1. eng[c].action = req[r].action /\ Effective(c)
            BY <1>2, <4>4, <5>2 DEF OfflineInv, Serves, Working
          <6>2. Effective(Worker)' \/ eng'[Worker].phase = "error" BY <2>4, <2>6, <5>2, <6>1 DEF StopAhead
          <6> QED BY <1>2, <4>4, <6>2 DEF StopAhead
        <5> QED BY <5>1, <5>2
      <4> QED BY <4>2, <4>3, <4>4 DEF StopAhead
    <3>2. wk.phase = "undo" /\ Effective(Worker) => wk'.phase = "undo" /\ Effective(Worker)'
      <4> SUFFICES ASSUME wk.phase = "undo", Effective(Worker) PROVE Effective(Worker)' BY <1>2
      <4>1. CASE c # Worker
        <5>1. eng'[Worker] = eng[Worker] BY <1>2, <4>1 DEF Callers
        <5> QED BY <5>1 DEF Effective
      <4>2. CASE c = Worker
        <5>1. eng[c].action = "stop" BY <1>2, <4>2 DEF OfflineInv, Serves
        <5> QED BY <2>4, <2>6, <4>2, <5>1
      <4> QED BY <4>1, <4>2
    <3>3. wk'.phase = "recover" => wk.phase = "recover" /\ eng'[Worker] = eng[Worker]
      BY <1>2, <1>8 DEF Callers
    <3> QED BY <1>2, <2>3, <3>1, <3>2, <3>3, StaysAhead DEF OfflineInv
  <2> QED BY <2>5, <2>6
<1> QED BY <1>7, <1>8

\* A stop still ahead stays so if its call is left alone and the worker takes
\* nothing but its hands off.
LEMMA StopKept ==
  ASSUME NEW r \in Reqs, StopAhead(r),
         req'[r].phase = req[r].phase, req'[r].action = req[r].action, eng'[r] = eng[r],
         \/ wk' = wk /\ eng'[Worker] = eng[Worker]
         \/ wk.phase # "power" /\ (wk'.job = wk.job \/ wk'.job = None)
         \/ wk.phase = "power" /\ wk.job # r /\ wk'.job = wk.job
  PROVE  StopAhead(r)'
<1>1. r # None BY ConstantsAssumption
<1> QED BY <1>1 DEF StopAhead, Effective

\* A history of stops only was one before the step.
LEMMA OnlyStopsBefore ==
  ASSUME TypeInv, Serves, [Next]_vars, OnlyStops' PROVE OnlyStops
<1> USE ConstantsAssumption
<1>0. /\ req \in [Reqs -> Request] /\ fails \in Nat /\ aborts \in Nat
  BY DEF TypeInv, TypeOK
<1> SUFFICES /\ \A r \in Reqs : req'[r].action = req[r].action \/ req[r].action = "none"
             /\ fails' = fails \/ fails' = fails + 1
             /\ aborts' = aborts \/ aborts' = aborts + 1
  BY <1>0 DEF OnlyStops
<1>1. ASSUME NEW r \in Reqs, NEW h, req' = [req EXCEPT ![r] = h],
             h.action = req[r].action \/ req[r].action = "none"
      PROVE  \A o \in Reqs : req'[o].action = req[o].action \/ req[o].action = "none"
  BY <1>0, <1>1
<1>2. ASSUME NEW r \in Reqs, NEW p, req' = [req EXCEPT ![r].phase = p]
      PROVE  \A o \in Reqs : req'[o].action = req[o].action \/ req[o].action = "none"
  BY <1>0, <1>2 DEF Request
<1>3. \A r \in Reqs : req[r].phase = "idle" => req[r].action = "none" BY DEF Serves
<1>4. ASSUME NEW r \in Reqs, NEW a, NEW q \in BOOLEAN, RequestPower(r, a, q)
      PROVE  \A o \in Reqs : req'[o].action = req[o].action \/ req[o].action = "none"
  BY <1>1, <1>3, <1>4 DEF RequestPower
<1>5. ASSUME NEW r \in Reqs, FinishPower(r)
      PROVE  \A o \in Reqs : req'[o].action = req[o].action \/ req[o].action = "none"
  <2> DEFINE o == IF eng[r].phase = "ok" THEN "succeeded" ELSE "failed"
             h == [req[r] EXCEPT !.phase = "done", !.op = o]
  <2>1. h.action = req[r].action BY <1>0 DEF Request
  <2>2. req' = [req EXCEPT ![r] = h] BY <1>5 DEF FinishPower
  <2> HIDE DEF h
  <2> QED BY <1>1, <2>1, <2>2
<1>6. ASSUME NEW r \in Reqs, ConsoleReady(r) \/ RequestDelete(r)
      PROVE  \A o \in Reqs : req'[o].action = req[o].action \/ req[o].action = "none"
  BY <1>1, <1>3, <1>6 DEF ConsoleReady, RequestDelete
<1>6w. ASSUME NEW r \in Reqs, QueueWorkflow(r)
      PROVE  \A o \in Reqs : req'[o].action = req[o].action \/ req[o].action = "none"
  BY <1>1, <1>3, <1>6w DEF QueueWorkflow
<1>7. ASSUME NEW r \in Reqs,
             \/ MarkConsoleRestartIntent(r) \/ CancelConsoleRestartIntent(r)
             \/ EngineDelete(r) \/ FinalizeServerDeletion(r) \/ AbandonRequest(r)
      PROVE  \A o \in Reqs : req'[o].action = req[o].action \/ req[o].action = "none"
  BY <1>2, <1>7
  DEF MarkConsoleRestartIntent, CancelConsoleRestartIntent, EngineDelete, FinalizeServerDeletion, AbandonRequest
<1>8. ASSUME NEW r \in Reqs, ConsoleSend(r)
      PROVE  \A o \in Reqs : req'[o].action = req[o].action \/ req[o].action = "none"
  <2>1. \/ req' = [req EXCEPT ![r].phase = "done"] \/ req' = [req EXCEPT ![r].phase = "cancel"]
    BY <1>0, <1>8 DEF ConsoleSend
  <2> QED BY <1>2, <2>1
<1>9. CASE FinishQueuedPower
  <2> DEFINE o == IF eng[Worker].phase = "ok" THEN "succeeded" ELSE "failed"
             j == wk.job
  <2>1. req' = [req EXCEPT ![j].op = o] BY <1>9 DEF FinishQueuedPower
  <2> HIDE DEF o, j
  <2>2. \A r \in Reqs : req'[r].action = req[r].action BY <1>0, <2>1 DEF Request
  <2>3. fails' = fails /\ aborts' = aborts BY <1>9 DEF FinishQueuedPower
  <2> QED BY <2>2, <2>3
<1>10. CASE SyncRuntimeStats
  <2>1. \A r \in Reqs : req'[r].action = req[r].action
    <3>1. CASE req' = req BY <3>1
    <3>2. CASE SyncMissing BY <1>0, <3>2 DEF SyncMissing, Request
    <3> QED BY <1>10, <3>1, <3>2 DEF SyncRuntimeStats
  <2>2. fails' = fails /\ aborts' = aborts BY <1>10 DEF SyncRuntimeStats
  <2> QED BY <2>1, <2>2
<1>11. CASE Ack
  <2>1. \A r \in Reqs : req'[r].action = req[r].action BY <1>0, <1>11 DEF Ack, Request
  <2>2. fails' = fails /\ aborts' = aborts BY <1>11 DEF Ack
  <2> QED BY <2>1, <2>2
<1>12. ASSUME NEW c \in Callers, Engine(c)
       PROVE  req' = req /\ fails' = fails /\ aborts' = aborts
  BY <1>12 DEF Engine, PowerPolicy, PowerInspect, PowerAct
<1>13. ASSUME NEW c \in Callers, EngineFails(c) PROVE req' = req /\ fails' = fails + 1 /\ aborts' = aborts
  BY <1>13 DEF EngineFails
<1>14. CASE \/ Claim \/ Stats \/ BeginRecovery \/ RecoveryStillDesired \/ RecoveryUndone \/ FinishRecovery
            \/ WorkerCrash
  <2>1. req' = req /\ fails' = fails /\ (aborts' = aborts \/ aborts' = aborts + 1)
    BY <1>14 DEF Claim, ClaimRequest, ClaimPower, ClaimWorkflow, ClaimRecover, Stats, BeginRecovery,
                 RecoveryStillDesired, RecoveryUndone, FinishRecovery, WorkerCrash
  <2> QED BY <2>1
<1>15. CASE Outside \/ UNCHANGED vars
  <2>1. req' = req /\ fails' = fails /\ aborts' = aborts
    BY <1>15 DEF Outside, ProcessExit, DockerRestart, OutsideStop, OutsidePause, OutsideRemove, ContainerEvent, vars
  <2> QED BY <2>1
<1>16. ASSUME NEW r \in Reqs, User(r) \/ Handler(r) \/ AbandonRequest(r)
       PROVE  /\ fails' = fails \/ fails' = fails + 1
              /\ aborts' = aborts \/ aborts' = aborts + 1
  <2>1. CASE User(r) BY <2>1 DEF User, RequestPower, ConsoleReady, RequestDelete, QueueWorkflow
  <2>2. CASE ConsoleSend(r) \/ EngineDelete(r) BY <2>2 DEF ConsoleSend, EngineDelete
  <2>3. CASE \/ FinishPower(r) \/ MarkConsoleRestartIntent(r) \/ CancelConsoleRestartIntent(r)
             \/ FinalizeServerDeletion(r) \/ AbandonRequest(r)
    BY <2>3
    DEF FinishPower, MarkConsoleRestartIntent, CancelConsoleRestartIntent, FinalizeServerDeletion, AbandonRequest
  <2> QED BY <1>16, <2>1, <2>2, <2>3 DEF Handler
<1>17. ASSUME NEW r \in Reqs, User(r) \/ Handler(r) \/ AbandonRequest(r)
       PROVE  \A o \in Reqs : req'[o].action = req[o].action \/ req[o].action = "none"
  BY <1>4, <1>5, <1>6, <1>6w, <1>7, <1>8, <1>17 DEF User, Handler
<1>18. CASE WorkflowStep
  <2>1. \A r \in Reqs : req'[r].action = req[r].action BY <1>18, WorkflowKeepsRequests
  <2>2. (fails' = fails \/ fails' = fails + 1) /\ aborts' = aborts
    BY <1>18 DEF WorkflowStep, PrepareWorkflow, HaltWorkflow, Workflow, ResumeWorkflow, FinishWorkflow
  <2> QED BY <2>1, <2>2
<1> QED
  BY <1>9, <1>10, <1>11, <1>12, <1>13, <1>14, <1>15, <1>16, <1>17, <1>18 DEF Next, WorkerStep

\* What FinishPower does to the request to stop when nothing else is asked for.
LEMMA StopFinished ==
  ASSUME TypeInv, NEW a, a \notin {"start", "restart"}, NEW ok \in BOOLEAN,
         srv' = PowerFinished(a, ok), srv'.desired = "stopped"
  PROVE  srv.desired = "stopped" /\ ok
<1>1. srv \in ServerRow /\ DesiredBy(a) = "stopped" BY DEF TypeInv, TypeOK, DesiredBy
<1>2. CASE ~ok BY <1>1, <1>2 DEF PowerFinished, ServerRow
<1>3. CASE ok BY <1>1, <1>3, PowerFinishedRow
<1> QED BY <1>2, <1>3

\* A request of the user or a step of its handler.
LEMMA OfflineRequests ==
  ASSUME OfflineInv, OnlyStops, OnlyStops', NEW r \in Reqs, User(r) \/ Handler(r)
  PROVE  StartSeen' /\ WillBeOffline'
<1> USE ConstantsAssumption
<1>0. /\ req \in [Reqs -> Request] /\ eng \in [Callers -> EngineCall] /\ wk \in WorkerState
      /\ srv \in ServerRow /\ cont \in [state : ContainerStates, policy : BOOLEAN] /\ TypeInv
  BY DEF OfflineInv, TypeInv, TypeOK
<1>a. \A o \in Callers : o \in Reqs \/ o = Worker BY DEF Callers
<1>b. r \in Callers /\ Worker \in Callers /\ r # Worker /\ Reqs \subseteq Callers BY DEF Callers
<1>1. ASSUME NEW a \in Actions \cap PowerActions, NEW q \in BOOLEAN, RequestPower(r, a, q)
      PROVE  StartSeen' /\ WillBeOffline'
  <2>1. req[r].phase = "idle" /\ wk' = wk /\ cont' = cont BY <1>1 DEF RequestPower
  <2>2. req'[r].phase = (IF q THEN "queued" ELSE "call") /\ req'[r].action = a
    BY <1>0, <1>1 DEF RequestPower
  <2>3. /\ ~q => eng'[r].phase = "policy"
        /\ eng'[Worker] = eng[Worker]
    BY <1>0, <1>1, <1>b, CallPhases DEF RequestPower
  <2>4. a \in {"stop", "kill"} BY <2>2 DEF OnlyStops, PowerActions
  <2>5. wk.job # r BY <2>1 DEF OfflineInv, Serves
  <2>6. StopAhead(r)' BY <2>1, <2>2, <2>3, <2>4, <2>5 DEF StopAhead, Effective
  <2> QED BY <2>1, <2>3, <2>6 DEF OfflineInv, StartSeen, WillBeOffline, Offline
<1>2. CASE FinishPower(r)
  <2> DEFINE ok == eng[r].phase = "ok"
  <2>1. /\ req[r].phase = "call" /\ srv' = PowerFinished(req[r].action, ok)
        /\ wk' = wk /\ cont' = cont /\ eng' = [eng EXCEPT ![r] = NoCall] /\ ok \in BOOLEAN
    BY <1>2 DEF FinishPower
  <2>2. req[r].action \notin {"start", "restart"} BY DEF OnlyStops
  <2>3. \A o \in Reqs \ {r} : req'[o] = req[o] BY <1>0, <1>2 DEF FinishPower
  <2>4. \A c \in Callers \ {r} : eng'[c] = eng[c] BY <1>0, <2>1
  <2>5. srv'.desired = "stopped" => srv.desired = "stopped" /\ ok
    <3> HIDE DEF ok
    <3> QED BY <1>0, <2>1, <2>2, StopFinished
  <2>6. ok => ~StopAhead(r)
    <3>1. wk.job # r BY <2>1 DEF OfflineInv, Serves
    <3> QED BY <2>1, <3>1 DEF StopAhead, Effective
  <2>7. ok => \A o \in Reqs : StopAhead(o) => StopAhead(o)'
    BY <1>b, <2>1, <2>3, <2>4, <2>6, StopKept
  <2>8. eng'[Worker] = eng[Worker] BY <1>b, <2>4
  <2>9. Effective(Worker) => Effective(Worker)' BY <2>8 DEF Effective
  <2>10. Offline => Offline' BY <2>1 DEF Offline
  <2> HIDE DEF ok
  <2> QED BY <2>1, <2>5, <2>7, <2>8, <2>9, <2>10, StaysAhead DEF OfflineInv
<1>3. ASSUME eng' = eng, wk' = wk, Offline => Offline', srv'.desired = "stopped" => srv.desired = "stopped",
             req[r].phase \notin {"call", "queued"}, \A o \in Reqs \ {r} : req'[o] = req[o]
      PROVE  StartSeen' /\ WillBeOffline'
  <2>1. wk.job # r BY <1>3 DEF OfflineInv, Serves
  <2>2. ~StopAhead(r) BY <1>3, <2>1 DEF StopAhead
  <2>3. \A o \in Reqs : StopAhead(o) => StopAhead(o)' BY <1>3, <2>2, StopKept
  <2>4. Effective(Worker) => Effective(Worker)' BY <1>3 DEF Effective
  <2> QED BY <1>3, <2>3, <2>4, StaysAhead DEF OfflineInv
<1>4. CASE ConsoleReady(r) \/ RequestDelete(r)
  <2>1. /\ eng' = eng /\ wk' = wk /\ cont' = cont /\ srv' = srv /\ req[r].phase = "idle"
        /\ \A o \in Reqs \ {r} : req'[o] = req[o]
    BY <1>0, <1>4 DEF ConsoleReady, RequestDelete
  <2> QED BY <1>3, <2>1 DEF Offline
<1>5. CASE \/ MarkConsoleRestartIntent(r) \/ CancelConsoleRestartIntent(r) \/ FinalizeServerDeletion(r)
  <2>1. eng' = eng /\ wk' = wk /\ cont' = cont /\ req[r].phase \in {"ready", "cancel", "finalize"}
    BY <1>5 DEF MarkConsoleRestartIntent, CancelConsoleRestartIntent, FinalizeServerDeletion
  <2>2. srv'.desired = "stopped" => srv.desired = "stopped"
    BY <1>0, <1>5 DEF MarkConsoleRestartIntent, CancelConsoleRestartIntent, FinalizeServerDeletion, ServerRow
  <2>3. \A o \in Reqs \ {r} : req'[o] = req[o]
    BY <1>0, <1>5 DEF MarkConsoleRestartIntent, CancelConsoleRestartIntent, FinalizeServerDeletion
  <2> QED BY <1>3, <2>1, <2>2, <2>3 DEF Offline
<1>6. CASE ConsoleSend(r) \/ EngineDelete(r)
  <2>1. /\ eng' = eng /\ wk' = wk /\ srv' = srv /\ req[r].phase \in {"marked", "unmarked", "remove"}
    BY <1>6 DEF ConsoleSend, EngineDelete
  <2>2. cont' = cont \/ cont.state = "running" \/ cont' = [cont EXCEPT !.state = "absent"]
    BY <1>6 DEF ConsoleSend, EngineDelete
  <2>3. Offline => Offline' BY <1>0, <2>2 DEF Offline
  <2>4. \A o \in Reqs \ {r} : req'[o] = req[o]
    <3>1. CASE ConsoleSend(r) BY <1>0, <3>1 DEF ConsoleSend
    <3>2. CASE EngineDelete(r) BY <1>0, <3>2 DEF EngineDelete
    <3> QED BY <1>6, <3>1, <3>2
  <2> QED BY <1>3, <2>1, <2>3, <2>4
<1>7. ASSUME QueueWorkflow(r) PROVE FALSE
  <2>1. req'[r].action = "workflow" BY <1>0, <1>7 DEF QueueWorkflow
  <2> QED BY <2>1 DEF OnlyStops
<1> QED BY <1>1, <1>2, <1>4, <1>5, <1>6, <1>7 DEF User, Handler

\* A step of the worker: claiming, finishing, recovering, observing.
LEMMA OfflineWorker ==
  ASSUME OfflineInv, OnlyStops, OnlyStops', Claim \/ Stats \/ WorkerStep
  PROVE  StartSeen' /\ WillBeOffline'
<1> USE ConstantsAssumption
<1>0. /\ req \in [Reqs -> Request] /\ eng \in [Callers -> EngineCall] /\ wk \in WorkerState
      /\ srv \in ServerRow /\ TypeInv
  BY DEF OfflineInv, TypeInv, TypeOK
<1>a. Worker \in Callers /\ Worker \notin Reqs /\ Reqs \subseteq Callers BY DEF Callers
\* Nobody has asked for a workflow, so none is claimed or under way.
<1>w. ~WorkflowStep /\ \A r \in Reqs : ~ClaimWorkflow(r)
  <2>1. ASSUME WorkflowStep PROVE FALSE
    <3>1. wk.phase \in WorkflowPhases /\ wk.job \in Reqs BY <1>0, <2>1, WorkflowMoves
    <3> QED BY <3>1 DEF OfflineInv, Serves, OnlyStops
  <2>2. ASSUME NEW r \in Reqs, ClaimWorkflow(r) PROVE FALSE BY <2>2 DEF ClaimWorkflow, OnlyStops
  <2> QED BY <2>1, <2>2
<1>b. cont' = cont
  <2>1. CASE Claim \/ Stats BY <1>w, <2>1 DEF Claim, ClaimRequest, ClaimPower, ClaimRecover, Stats
  <2>2. CASE WorkerStep
    BY <1>w, <2>2
    DEF WorkerStep, FinishQueuedPower, BeginRecovery, RecoveryStillDesired, RecoveryUndone, FinishRecovery, Ack,
                SyncRuntimeStats
  <2> QED BY <2>1, <2>2
<1>c. Offline => Offline' BY <1>b DEF Offline
\* A worker outside its calls to the engine changes nothing that is ahead.
<1>1. ASSUME wk.phase \notin {"power", "recover", "undo"}, wk'.phase # "recover", wk'.job = wk.job \/ wk'.job = None,
             \A r \in Reqs : eng'[r] = eng[r],
             srv'.desired = "stopped" => srv.desired = "stopped" /\ \A r \in Reqs : StopAhead(r) => req'[r] = req[r]
      PROVE  StartSeen' /\ WillBeOffline'
  <2>1. srv'.desired = "stopped" => \A r \in Reqs : StopAhead(r) => StopAhead(r)' BY <1>1, StopKept
  <2> QED BY <1>1, <1>c, <2>1, StaysAhead DEF OfflineInv
<1>2. ASSUME NEW r \in Reqs, ClaimPower(r) PROVE StartSeen' /\ WillBeOffline'
  <2>1. /\ wk.phase = "idle" /\ req[r].phase = "queued" /\ srv' = srv /\ req' = req
        /\ wk' = [Idle EXCEPT !.phase = "power", !.job = r]
        /\ eng' = [eng EXCEPT ![Worker] = Call(req[r].action)]
    BY <1>2 DEF ClaimPower
  <2>2. wk'.phase = "power" /\ wk'.job = r BY <2>1 DEF Idle
  <2>3. eng'[Worker].phase = "policy" /\ \A o \in Reqs : eng'[o] = eng[o] BY <1>0, <1>a, <2>1, CallPhases
  <2>4. ASSUME NEW o \in Reqs, StopAhead(o) PROVE StopAhead(o)'
    BY <2>1, <2>2, <2>3, <2>4 DEF StopAhead, Effective
  <2> QED BY <1>c, <2>1, <2>2, <2>4, StaysAhead DEF OfflineInv
<1>3. ASSUME NEW e \in RecIds, ClaimRecover(e) PROVE StartSeen' /\ WillBeOffline'
  <2>1. wk.phase = "idle" /\ srv' = srv /\ req' = req /\ eng' = eng BY <1>3 DEF ClaimRecover
  <2>2. wk'.phase = "begin" /\ wk'.job = None BY <1>3 DEF ClaimRecover, Idle
  <2> QED BY <1>1, <2>1, <2>2
<1>4. CASE Stats
  <2>1. wk.phase = "idle" /\ srv' = srv /\ req' = req /\ eng' = eng BY <1>4 DEF Stats
  <2>2. wk'.phase = "snapshot" /\ wk'.job = None BY <1>4 DEF Stats, Idle
  <2> QED BY <1>1, <2>1, <2>2
<1>5. CASE SyncRuntimeStats
  <2>1. wk.phase = "snapshot" /\ eng' = eng /\ wk'.phase = "idle" /\ wk'.job = None
    BY <1>5, CallPhases DEF SyncRuntimeStats
  <2>2. srv'.desired = "stopped" => srv.desired = "stopped" BY <1>0, <1>5, TelemetryAsksNothing
  <2>3. srv'.desired = "stopped" => req' = req
    <3>1. CASE SyncMissing BY <1>0, <3>1 DEF SyncMissing, ServerRow
    <3> QED BY <1>5, <3>1 DEF SyncRuntimeStats
  <2> QED BY <1>1, <2>1, <2>2, <2>3
<1>6. CASE FinishQueuedPower
  <2> DEFINE ok == eng[Worker].phase = "ok"
             j == wk.job
  <2>1. /\ wk.phase = "power" /\ srv' = PowerFinished(req[j].action, ok) /\ ok \in BOOLEAN
        /\ eng' = [eng EXCEPT ![Worker] = NoCall] /\ wk' = [wk EXCEPT !.phase = "ack"]
        /\ req' = [req EXCEPT ![j].op = IF ok THEN "succeeded" ELSE "failed"]
    BY <1>6 DEF FinishQueuedPower
  <2>2. j \in Reqs /\ req[j].phase = "queued" BY <2>1 DEF OfflineInv, TypeInv, WorkerHolds, Serves
  <2>3. req[j].action \notin {"start", "restart"} BY <2>2 DEF OnlyStops
  <2>4. \A o \in Reqs : req'[o].phase = req[o].phase /\ req'[o].action = req[o].action
    <3> HIDE DEF j, ok
    <3> QED BY <1>0, <2>1 DEF Request
  <2>5. \A o \in Reqs : eng'[o] = eng[o] BY <1>0, <1>a, <2>1
  <2>6. wk'.job = j /\ wk'.phase = "ack" BY <1>0, <2>1 DEF WorkerState
  <2>7. srv'.desired = "stopped" => srv.desired = "stopped" /\ ok
    <3> HIDE DEF j, ok
    <3> QED BY <1>0, <2>1, <2>3, StopFinished
  <2>8. ok => ~StopAhead(j) BY <2>2 DEF StopAhead, Effective
  <2>9. ok => \A o \in Reqs : StopAhead(o) => StopAhead(o)'
    BY <2>1, <2>4, <2>5, <2>6, <2>8, StopKept
  <2> HIDE DEF ok
  <2> QED BY <1>c, <2>1, <2>6, <2>7, <2>9, StaysAhead DEF OfflineInv
<1>7. CASE BeginRecovery
  <2>1. wk.phase = "begin" /\ req' = req /\ srv'.desired = srv.desired BY <1>0, <1>7 DEF BeginRecovery, ServerRow
  <2>2. CASE eng' = eng /\ wk' = [wk EXCEPT !.phase = "ack"]
    <3>1. wk'.job = wk.job /\ wk'.phase = "ack" BY <1>0, <2>2 DEF WorkerState
    <3> QED BY <1>1, <2>1, <2>2, <3>1
  <2>3. CASE eng' = [eng EXCEPT ![Worker] = Call("start")] /\ wk' = [wk EXCEPT !.phase = "recover"]
    <3>1. wk'.phase = "recover" /\ eng'[Worker].phase = "policy" BY <1>0, <1>a, <2>3, CallPhases DEF WorkerState
    <3> QED BY <3>1 DEF StartSeen, WillBeOffline
  <2> QED BY <1>7, <2>2, <2>3 DEF BeginRecovery
<1>8. CASE RecoveryStillDesired
  <2>1. wk.phase = "recover" /\ eng[Worker].phase \in {"ok", "error"} /\ srv' = srv BY <1>8 DEF RecoveryStillDesired
  <2>2. CASE srv.desired = "running"
    <3> DEFINE b == ~(eng[Worker].phase = "ok")
    <3>1. \/ wk' = [wk EXCEPT !.phase = "finish", !.failed = b]
          \/ wk' = [wk EXCEPT !.phase = "undo"] \/ wk' = [wk EXCEPT !.phase = "ack"]
      BY <1>8 DEF RecoveryStillDesired
    <3> HIDE DEF b
    <3>2. wk'.phase # "recover" BY <1>0, <3>1 DEF WorkerState
    <3> QED BY <2>1, <2>2, <3>2 DEF StartSeen, WillBeOffline
  <2>3. CASE srv.desired # "running" /\ eng[Worker].phase = "ok"
    <3>1. wk' = [wk EXCEPT !.phase = "undo"] /\ eng' = [eng EXCEPT ![Worker] = Call("stop")]
      BY <1>8, <2>3 DEF RecoveryStillDesired
    <3>2. wk'.phase = "undo" /\ eng'[Worker].phase = "policy" BY <1>0, <1>a, <3>1, CallPhases DEF WorkerState
    <3> QED BY <3>2 DEF StartSeen, WillBeOffline, Effective
  <2>4. CASE srv.desired # "running" /\ eng[Worker].phase = "error"
    <3>1. wk' = [wk EXCEPT !.phase = "ack"] BY <1>8, <2>4 DEF RecoveryStillDesired
    <3>2. wk'.phase = "ack" BY <1>0, <3>1 DEF WorkerState
    <3>3. Offline' BY <1>c, <2>1, <2>4 DEF OfflineInv, StartSeen
    <3> QED BY <3>2, <3>3 DEF StartSeen, WillBeOffline
  <2> QED BY <2>1, <2>2, <2>3, <2>4
<1>9. CASE RecoveryUndone
  <2>1. /\ wk.phase = "undo" /\ eng[Worker].phase \in {"ok", "error"} /\ srv' = srv /\ req' = req
        /\ eng' = [eng EXCEPT ![Worker] = NoCall]
    BY <1>9 DEF RecoveryUndone
  <2>2. wk'.phase # "recover" /\ (wk'.job = wk.job \/ wk'.job = None)
    BY <1>0, <1>9, CallPhases DEF RecoveryUndone, WorkerState
  <2>3. \A r \in Reqs : eng'[r] = eng[r] BY <1>0, <1>a, <2>1
  <2>4. \A r \in Reqs : StopAhead(r) => StopAhead(r)' BY <2>1, <2>2, <2>3, StopKept
  <2>5. ~Effective(Worker) BY <2>1 DEF Effective
  <2> QED BY <1>c, <2>1, <2>2, <2>4, <2>5, StaysAhead DEF OfflineInv
<1>10. CASE FinishRecovery
  <2>1. wk.phase = "finish" /\ req' = req /\ eng' = eng BY <1>10 DEF FinishRecovery
  <2>2. srv'.desired = srv.desired BY <1>0, <1>10 DEF FinishRecovery, ServerRow
  <2>3. wk'.phase = "ack" /\ wk'.job = wk.job BY <1>0, <1>10 DEF FinishRecovery, WorkerState
  <2> QED BY <1>1, <2>1, <2>2, <2>3
<1>11. CASE Ack
  <2>1. wk.phase = "ack" /\ srv' = srv /\ eng' = eng /\ wk'.phase = "idle" /\ wk'.job = None
    BY <1>11, CallPhases DEF Ack
  <2>2. \A r \in Reqs : req'[r] = req[r] \/ (wk.job = r /\ req[r].phase = "queued")
    BY <1>0, <1>11 DEF Ack
  <2>3. \A r \in Reqs : StopAhead(r) => req'[r] = req[r] BY <2>1, <2>2 DEF StopAhead
  <2> QED BY <1>1, <2>1, <2>3
<1> QED
  BY <1>w, <1>2, <1>3, <1>4, <1>5, <1>6, <1>7, <1>8, <1>9, <1>10, <1>11 DEF Claim, ClaimRequest, WorkerStep

\* Every step keeps what will bring the container down ahead.
LEMMA OfflineStep == OfflineInv /\ [Next]_vars => OfflineInv'
<1> SUFFICES ASSUME OfflineInv, [Next]_vars PROVE OfflineInv' OBVIOUS
<1>1. TypeInv' /\ Serves' BY TypeStep, ServesStep DEF OfflineInv
<1>2. CASE ~OnlyStops' BY <1>1, <1>2 DEF OfflineInv, StartSeen, WillBeOffline
<1>3. CASE OnlyStops'
  <2>1. OnlyStops BY <1>3, OnlyStopsBefore DEF OfflineInv
  <2>2. fails = 0 /\ fails' = 0 /\ aborts = 0 /\ aborts' = 0 BY <1>3, <2>1 DEF OnlyStops
  <2>3. ASSUME NEW r \in Reqs, User(r) \/ Handler(r) PROVE StartSeen' /\ WillBeOffline'
    BY <1>3, <2>1, <2>3, OfflineRequests
  <2>4. ASSUME NEW r \in Reqs, AbandonRequest(r) PROVE FALSE BY <2>2, <2>4 DEF AbandonRequest
  <2>5. ASSUME NEW c \in Callers, Engine(c) PROVE StartSeen' /\ WillBeOffline' BY <2>1, <2>5, OfflineEngine
  <2>6. ASSUME NEW c \in Callers, EngineFails(c) PROVE FALSE BY <2>2, <2>6 DEF EngineFails
  <2>7. ASSUME WorkerCrash PROVE FALSE BY <2>2, <2>7 DEF WorkerCrash
  <2>8. ASSUME Claim \/ Stats \/ WorkerStep PROVE StartSeen' /\ WillBeOffline'
    BY <1>3, <2>1, <2>8, OfflineWorker
  <2>9. ASSUME Outside \/ UNCHANGED vars PROVE StartSeen' /\ WillBeOffline'
    <3>1. req' = req /\ eng' = eng /\ wk' = wk /\ srv' = srv
      BY <2>9 DEF Outside, ProcessExit, DockerRestart, OutsideStop, OutsidePause, OutsideRemove, ContainerEvent, vars
    <3>2. cont' = cont \/ cont.state \in {"running", "restarting", "paused"} \/ cont' = [cont EXCEPT !.state = "absent"]
      BY <2>9 DEF Outside, ProcessExit, DockerRestart, OutsideStop, OutsidePause, OutsideRemove, ContainerEvent, vars
    <3>3. cont \in [state : ContainerStates, policy : BOOLEAN] BY DEF OfflineInv, TypeInv, TypeOK
    <3>4. Offline => Offline' BY <3>2, <3>3 DEF Offline
    <3>5. \A r \in Reqs : StopAhead(r) => StopAhead(r)' BY <3>1, StopKept
    <3>6. Effective(Worker) => Effective(Worker)' BY <3>1 DEF Effective
    <3> QED BY <2>1, <3>1, <3>4, <3>5, <3>6, StaysAhead DEF OfflineInv
  <2>10. StartSeen' /\ WillBeOffline'
    BY <2>3, <2>4, <2>5, <2>6, <2>7, <2>8, <2>9 DEF Next
  <2> QED BY <1>1, <2>10 DEF OfflineInv
<1> QED BY <1>2, <1>3

\* Initially nothing is asked for, and a server that is meant to be stopped is.
LEMMA OfflineInit == Init => OfflineInv
<1> SUFFICES ASSUME Init PROVE OfflineInv OBVIOUS
<1> USE ConstantsAssumption
<1>1. TypeInv BY TypeInit
<1>2. wk.phase = "idle" /\ wk.job = None BY CallPhases DEF Init
<1>3. \A c \in Callers : ~Working(c) BY CallPhases DEF Init, Working
<1>4. Serves BY <1>2, <1>3 DEF Serves, Init, Callers, WorkflowPhases
<1>5. StartSeen BY <1>2 DEF StartSeen
<1>6. srv.desired = "stopped" => Offline BY DEF Init, Offline
<1> QED BY <1>1, <1>4, <1>5, <1>6 DEF OfflineInv, WillBeOffline

\* When the panel has come to rest with a stop request standing, the container is
\* down: a recovery that was starting the server when the stop was accepted has
\* been undone.
THEOREM StopWins == Spec => []StopKeepsOffline
<1>1. OfflineInv => StopKeepsOffline
  <2> SUFFICES ASSUME OfflineInv, Quiet, OnlyStops, srv.desired = "stopped" PROVE Offline
    BY DEF StopKeepsOffline
  <2>1. \A r \in Reqs : ~StopAhead(r) BY DEF Quiet, StopAhead
  <2> QED BY <2>1 DEF OfflineInv, WillBeOffline, Quiet
<1> QED BY <1>1, OfflineInit, OfflineStep, PTL DEF Spec

-----------------------------------------------------------------------------
(* What a step may do to the request to run.  The row says stopped against  *)
(* it only while a workflow is under way or after one that found the server *)
(* stopped; Serves is what tells a workflow from the other requests.        *)

\* Steps that neither write stopped nor end a workflow keep the request to run.
LEMMA RequestKept ==
  ASSUME RunningRequestKept,
         srv'.desired = "stopped" => srv.desired = "stopped" /\ srv'.asked = srv.asked,
         \A r \in Reqs : req[r].action = "workflow" =>
           req'[r].action = "workflow" /\ req'[r].op = req[r].op /\ req'[r].was = req[r].was
  PROVE  RunningRequestKept'
BY DEF RunningRequestKept, WorkflowStops

\* Every step keeps the request to run.
LEMMA RequestStep == TypeInv /\ Serves /\ RunningRequestKept /\ [Next]_vars => RunningRequestKept'
<1> SUFFICES ASSUME TypeInv, Serves, RunningRequestKept, [Next]_vars PROVE RunningRequestKept' OBVIOUS
<1> USE ConstantsAssumption
<1>0. srv \in ServerRow /\ req \in [Reqs -> Request] /\ wk \in WorkerState BY DEF TypeInv, TypeOK
<1>1. ASSUME NEW r \in Reqs, NEW a \in PowerActions, NEW q \in BOOLEAN, RequestPower(r, a, q)
      PROVE  RunningRequestKept'
  <2>1. srv'.asked = srv'.desired BY <1>0, <1>1 DEF RequestPower, ServerRow
  <2> QED BY <2>1 DEF RunningRequestKept
<1>2. ASSUME NEW r \in Reqs, QueueWorkflow(r) PROVE RunningRequestKept'
  <2>1. req'[r].action = "workflow" /\ req'[r].op = "running" BY <1>0, <1>2 DEF QueueWorkflow
  <2> QED BY <2>1 DEF RunningRequestKept, WorkflowStops
<1>3. ASSUME NEW r \in Reqs, NEW a, NEW ok \in BOOLEAN, srv' = PowerFinished(a, ok), req[r].action # "workflow",
             \A o \in Reqs \ {r} : req'[o] = req[o]
      PROVE  RunningRequestKept'
  BY <1>3, PowerFinishedRow, RequestKept
<1>4. ASSUME NEW r \in Reqs, FinishPower(r) PROVE RunningRequestKept'
  <2>1. (eng[r].phase = "ok") \in BOOLEAN OBVIOUS
  <2>2. req[r].action # "workflow" BY <1>4 DEF FinishPower, Serves
  <2>3. \A o \in Reqs \ {r} : req'[o] = req[o] BY <1>0, <1>4 DEF FinishPower
  <2> QED BY <1>3, <1>4, <2>1, <2>2, <2>3 DEF FinishPower
<1>5. CASE FinishQueuedPower
  <2>1. (eng[Worker].phase = "ok") \in BOOLEAN OBVIOUS
  <2>2. wk.job \in Reqs /\ req[wk.job].action # "workflow"
    BY <1>5 DEF FinishQueuedPower, Serves, TypeInv, WorkerHolds
  <2>3. \A o \in Reqs \ {wk.job} : req'[o] = req[o] BY <1>0, <1>5 DEF FinishQueuedPower
  <2> QED BY <1>3, <1>5, <2>1, <2>2, <2>3 DEF FinishQueuedPower
<1>6. CASE WorkflowStep
  <2>1. wk.job \in Reqs /\ req[wk.job].action = "workflow" BY <1>6, WorkflowMoves DEF Serves
  <2>2. CASE srv' = srv /\ req' = req BY <2>2, RequestKept
  <2>3. CASE FinishWorkflow /\ ~(srv' = srv /\ req' = req)
    <3>1. CASE req[wk.job].was
      <4>1. srv'.desired = "running" BY <1>0, <2>3, <3>1 DEF FinishWorkflow, ServerRow
      <4> QED BY <4>1 DEF RunningRequestKept
    <3>2. CASE ~req[wk.job].was
      <4>1. req'[wk.job].action = "workflow" /\ ~req'[wk.job].was BY <1>6, <2>1, <3>2, WorkflowKeepsRequests
      <4> QED BY <2>1, <4>1 DEF RunningRequestKept, WorkflowStops
    <3> QED BY <3>1, <3>2
  <2> QED BY <1>6, <2>2, <2>3, WorkflowMoves
<1>7. ASSUME NEW r \in Reqs,
             \/ ConsoleReady(r) \/ MarkConsoleRestartIntent(r) \/ ConsoleSend(r) \/ CancelConsoleRestartIntent(r)
             \/ RequestDelete(r) \/ EngineDelete(r) \/ FinalizeServerDeletion(r) \/ AbandonRequest(r)
      PROVE  RunningRequestKept'
  <2>1. req[r].phase \notin {"queued", "done", "lost"}
    BY <1>7 DEF ConsoleReady, MarkConsoleRestartIntent, ConsoleSend, CancelConsoleRestartIntent, RequestDelete,
                EngineDelete, FinalizeServerDeletion, AbandonRequest
  <2>2. req[r].action # "workflow" BY <2>1 DEF Serves
  <2>3. \A o \in Reqs \ {r} : req'[o] = req[o]
    <3>1. CASE ConsoleReady(r) \/ MarkConsoleRestartIntent(r) BY <1>0, <3>1 DEF ConsoleReady, MarkConsoleRestartIntent
    <3>2. CASE ConsoleSend(r) \/ CancelConsoleRestartIntent(r) BY <1>0, <3>2 DEF ConsoleSend, CancelConsoleRestartIntent
    <3>3. CASE RequestDelete(r) \/ EngineDelete(r) BY <1>0, <3>3 DEF RequestDelete, EngineDelete
    <3>4. CASE FinalizeServerDeletion(r) \/ AbandonRequest(r) BY <1>0, <3>4 DEF FinalizeServerDeletion, AbandonRequest
    <3> QED BY <1>7, <3>1, <3>2, <3>3, <3>4
  <2>4. srv'.desired = "stopped" => srv.desired = "stopped" /\ srv'.asked = srv.asked
    BY <1>0, <1>7 DEF ConsoleReady, MarkConsoleRestartIntent, ConsoleSend, CancelConsoleRestartIntent, RequestDelete,
                      EngineDelete, FinalizeServerDeletion, AbandonRequest, ServerRow
  <2> QED BY <2>2, <2>3, <2>4, RequestKept
<1>8. CASE SyncRuntimeStats
  <2>1. \A r \in Reqs : req'[r].action = req[r].action /\ req'[r].op = req[r].op /\ req'[r].was = req[r].was
    <3>1. CASE req' = req BY <3>1
    <3>2. CASE SyncMissing BY <1>0, <3>2 DEF SyncMissing, Request
    <3> QED BY <1>8, <3>1, <3>2 DEF SyncRuntimeStats
  <2> QED BY <1>8, <2>1, TelemetryAsksNothing, RequestKept
<1>9. CASE BeginRecovery \/ FinishRecovery
  <2>1. req' = req /\ srv'.desired = srv.desired /\ srv'.asked = srv.asked
    BY <1>0, <1>9 DEF BeginRecovery, FinishRecovery, ServerRow
  <2> QED BY <2>1, RequestKept
<1>10. CASE Ack
  <2>1. \A r \in Reqs : req'[r].action = req[r].action /\ req'[r].op = req[r].op /\ req'[r].was = req[r].was
    BY <1>0, <1>10 DEF Ack, Request
  <2>2. srv' = srv BY <1>10 DEF Ack
  <2> QED BY <2>1, <2>2, RequestKept
<1>11. ASSUME \/ \E c \in Callers : Engine(c) \/ EngineFails(c)
              \/ Claim \/ Stats \/ RecoveryStillDesired \/ RecoveryUndone \/ WorkerCrash
              \/ Outside \/ UNCHANGED vars
       PROVE  RunningRequestKept'
  <2>1. srv' = srv /\ req' = req
    BY <1>11 DEF Engine, PowerPolicy, PowerInspect, PowerAct, EngineFails, Claim, ClaimRequest, ClaimPower, ClaimWorkflow,
                 ClaimRecover, Stats, RecoveryStillDesired, RecoveryUndone, WorkerCrash, Outside, ProcessExit,
                 DockerRestart, OutsideStop, OutsidePause, OutsideRemove, ContainerEvent, vars
  <2> QED BY <2>1, RequestKept
<1> QED
  BY <1>1, <1>2, <1>4, <1>5, <1>6, <1>7, <1>8, <1>9, <1>10, <1>11 DEF Next, User, Handler, WorkerStep

\* A request to run lasts until a Stop or Kill is accepted: a workflow that has
\* written stopped over it gives it back at its end, and nothing else takes it,
\* unless the workflow found the server stopped.
THEOREM RunningStaysRequested == Spec => []RunningRequestKept
<1>1. Init => RunningRequestKept BY DEF Init, RunningRequestKept
<1>2. OfflineInv => TypeInv /\ Serves BY DEF OfflineInv
<1> QED BY <1>1, <1>2, OfflineInit, OfflineStep, RequestStep, PTL DEF Spec
=============================================================================
