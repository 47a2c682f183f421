------------------------- MODULE ServerWorkflowProofs -------------------------
(***************************************************************************)
(* Proofs about ServerWorkflow, for any jobs, requests and bounds: its     *)
(* state is well typed, and each property holds as long as what is named   *)
(* in its theorem (a crash, a second failure, a request to start) has not  *)
(* happened.                                                               *)
(***************************************************************************)
EXTENDS ServerWorkflow, TLAPS

-----------------------------------------------------------------------------
(* Type correctness.                                                       *)

ServerRow ==
  [status : {"running", "stopped", "starting", "stopping", "restarting", "failed"},
   desired : {"running", "stopped"}, version : Versions]

Container == [state : {"created", "running", "exited"}, version : Versions]

Archive ==
  [file : Contents \cup {None}, sha : Contents \cup {None},
   status : {"none", "queued", "running", "succeeded", "failed"}]

Job ==
  [event : BOOLEAN, was : BOOLEAN, attempts : 0 .. BackupAttempts,
   op : {"none", "pending", "running", "succeeded", "failed"}, installer : BOOLEAN, before : Contents,
   again : BOOLEAN]

WorkerPcs ==
  {"idle", "begin", "stop", "call", "wait", "start", "finish", "ack", "archive", "record", "stopping",
   "version", "install", "reconfigure", "return", "revert", "files", "filesWait", "runtime", "restart"}

WorkerState == [pc : WorkerPcs, kind : Jobs \cup {None}, failed : BOOLEAN, previous : Versions]

EnginePcs == {"idle", "verify", "save", "clear", "copy", "undoClear", "undoCopy", "remove", "ok", "error"}

EngineState == [pc : EnginePcs, kind : Jobs \cup {None}, failed : BOOLEAN, cancelled : BOOLEAN]

StrayCall == [pc : EnginePcs, safety : Contents \cup {None}]

PowerRequest == [phase : {"idle", "call", "ok", "error", "done"}, action : Actions \cup {"none"}]

FailCounts == [engine : 0 .. MaxFails, store : 0 .. MaxStoreFails]

\* TypeOK in these terms.
Typed ==
  /\ srv \in ServerRow /\ cont \in Container /\ vol \in Contents /\ arch \in [Jobs -> Archive]
  /\ safety \in Contents \cup {None} /\ job \in [Jobs -> Job] /\ wk \in WorkerState /\ eng \in EngineState
  /\ stray \in Seq(StrayCall)
  /\ req \in [Reqs -> PowerRequest] /\ fails \in FailCounts /\ crashes \in 0 .. MaxCrashes

UpdatePcs ==
  {"archive", "record", "stopping", "version", "install", "reconfigure", "return", "revert", "files",
   "filesWait", "runtime", "restart"}

\* Which steps are of which workflow, who has a job, and what is there to be restored.
Stages ==
  /\ \A k \in Jobs : job[k].event = TRUE => job[k].op # "none"
  /\ wk.pc # "idle" => wk.kind \in Jobs /\ job[wk.kind].op # "none"
  /\ wk.pc = "idle" => wk = IdleWorker
  /\ wk.pc \in {"stop", "call", "wait"} => wk.kind = "restore"
  /\ wk.pc \in UpdatePcs => wk.kind # "restore"
  /\ wk.pc \in UpdatePcs \ {"archive"} => arch[wk.kind].file \in Contents
  /\ wk.pc \in {"files", "filesWait"} => wk.kind = "reinstall"
  /\ wk.pc = "install" => job[wk.kind].installer = TRUE
  /\ eng.pc # "idle" => eng.kind \in Jobs /\ arch[eng.kind].file \in Contents
  /\ eng.pc = "idle" => eng = NoEngine
  /\ eng.pc \in {"clear", "copy", "undoClear", "undoCopy"} => safety \in Contents
  /\ \A i \in DOMAIN stray :
       stray[i].pc \in {"clear", "copy", "undoClear", "undoCopy"} => stray[i].safety \in Contents
  /\ \A k \in Jobs : job[k].installer = TRUE => k = "reinstall"
  /\ "restore" \in Jobs => arch["restore"].file = "selected" /\ arch["restore"].sha = "selected"

TypeInv == Typed /\ Stages

\* The two ways to state the types agree.
LEMMA TypedIsTypeOK == Typed <=> TypeOK
  BY DEF Typed, TypeOK, ServerRow, Container, Archive, Job, WorkerPcs, WorkerState, EnginePcs, EngineState,
     StrayCall, PowerRequest, FailCounts

\* The initial state is well typed.
LEMMA InitTyped == Init => TypeInv
  <1> SUFFICES ASSUME Init PROVE Typed /\ Stages BY DEF TypeInv
  <1>1. srv \in ServerRow /\ cont \in Container BY DEF Init, ServerRow, Container, Versions
  <1>2. arch \in [Jobs -> Archive] BY DEF Init, Archive, Contents
  <1>3. job \in [Jobs -> Job] BY WorkflowAssumption DEF Init, Job, Contents
  <1>4. wk \in WorkerState /\ eng \in EngineState /\ wk.pc = "idle" /\ eng.pc = "idle"
    BY DEF Init, IdleWorker, NoEngine, WorkerState, EngineState, WorkerPcs, EnginePcs, Versions
  <1>5. req \in [Reqs -> PowerRequest] BY DEF Init, PowerRequest
  <1>6. fails \in FailCounts /\ crashes \in 0 .. MaxCrashes BY WorkflowAssumption DEF Init, FailCounts
  <1>7. stray = <<>> /\ stray \in Seq(StrayCall) BY DEF Init
  <1>8. Stages BY <1>4, <1>7 DEF Init, Stages, UpdatePcs
  <1> QED BY <1>1, <1>2, <1>3, <1>4, <1>5, <1>6, <1>7, <1>8 DEF Init, Typed, Contents

\* What the worker's moves write.
LEMMA WorkerMoves ==
  ASSUME Typed
  PROVE  /\ \A pc : Goto(pc) => wk'.pc = pc /\ wk'.kind = wk.kind /\ wk'.failed = wk.failed /\ wk'.previous = wk.previous
         /\ \A pc : Failed(pc) => wk'.pc = pc /\ wk'.kind = wk.kind /\ wk'.failed = TRUE /\ wk'.previous = wk.previous
         /\ \A pc \in WorkerPcs : Goto(pc) \/ Failed(pc) => wk' \in WorkerState
         /\ IdleWorker \in WorkerState /\ IdleWorker.pc = "idle" /\ IdleWorker.kind = None
         /\ \A k : /\ [IdleWorker EXCEPT !.pc = "begin", !.kind = k].pc = "begin"
                   /\ [IdleWorker EXCEPT !.pc = "begin", !.kind = k].kind = k
                   /\ [IdleWorker EXCEPT !.pc = "begin", !.kind = k].failed = FALSE
                   /\ [IdleWorker EXCEPT !.pc = "begin", !.kind = k].previous = "old"
                   /\ k \in Jobs => [IdleWorker EXCEPT !.pc = "begin", !.kind = k] \in WorkerState
  <1>1. wk \in WorkerState BY DEF Typed
  <1>2. \A pc : Goto(pc) => wk'.pc = pc /\ wk'.kind = wk.kind /\ wk'.failed = wk.failed /\ wk'.previous = wk.previous
    BY <1>1 DEF Goto, WorkerState
  <1>3. \A pc : Failed(pc) => wk'.pc = pc /\ wk'.kind = wk.kind /\ wk'.failed = TRUE /\ wk'.previous = wk.previous
    BY <1>1 DEF Failed, WorkerState
  <1>4. \A pc \in WorkerPcs : Goto(pc) \/ Failed(pc) => wk' \in WorkerState
    BY <1>1 DEF Goto, Failed, WorkerState
  <1>5. IdleWorker \in WorkerState /\ IdleWorker.pc = "idle" /\ IdleWorker.kind = None
    BY DEF IdleWorker, WorkerState, WorkerPcs, Versions
  <1>6. \A k : /\ [IdleWorker EXCEPT !.pc = "begin", !.kind = k].pc = "begin"
               /\ [IdleWorker EXCEPT !.pc = "begin", !.kind = k].kind = k
               /\ [IdleWorker EXCEPT !.pc = "begin", !.kind = k].failed = FALSE
               /\ [IdleWorker EXCEPT !.pc = "begin", !.kind = k].previous = "old"
               /\ k \in Jobs => [IdleWorker EXCEPT !.pc = "begin", !.kind = k] \in WorkerState
    BY DEF IdleWorker, WorkerState, WorkerPcs, Versions
  <1> QED BY <1>2, <1>3, <1>4, <1>5, <1>6

\* What the engine's moves write.
LEMMA EngineMoves ==
  ASSUME Typed
  PROVE  /\ \A pc : [eng EXCEPT !.pc = pc].pc = pc /\ [eng EXCEPT !.pc = pc].kind = eng.kind
                    /\ [eng EXCEPT !.pc = pc].failed = eng.failed /\ [eng EXCEPT !.pc = pc].cancelled = eng.cancelled
         /\ \A pc : [eng EXCEPT !.pc = pc, !.failed = TRUE].pc = pc
                    /\ [eng EXCEPT !.pc = pc, !.failed = TRUE].kind = eng.kind
                    /\ [eng EXCEPT !.pc = pc, !.failed = TRUE].failed = TRUE
                    /\ [eng EXCEPT !.pc = pc, !.failed = TRUE].cancelled = eng.cancelled
         /\ [eng EXCEPT !.cancelled = TRUE].pc = eng.pc /\ [eng EXCEPT !.cancelled = TRUE].kind = eng.kind
         /\ [eng EXCEPT !.cancelled = TRUE].failed = eng.failed /\ [eng EXCEPT !.cancelled = TRUE].cancelled = TRUE
         /\ \A k : [NoEngine EXCEPT !.pc = "verify", !.kind = k].pc = "verify"
                   /\ [NoEngine EXCEPT !.pc = "verify", !.kind = k].kind = k
                   /\ [NoEngine EXCEPT !.pc = "verify", !.kind = k].failed = FALSE
                   /\ [NoEngine EXCEPT !.pc = "verify", !.kind = k].cancelled = FALSE
         /\ \A pc \in EnginePcs : [eng EXCEPT !.pc = pc] \in EngineState /\ [eng EXCEPT !.pc = pc, !.failed = TRUE] \in EngineState
         /\ [eng EXCEPT !.cancelled = TRUE] \in EngineState
         /\ \A k \in Jobs : [NoEngine EXCEPT !.pc = "verify", !.kind = k] \in EngineState
         /\ NoEngine \in EngineState /\ NoEngine.pc = "idle"
  <1>1. eng \in EngineState BY DEF Typed
  <1>2. \A pc : [eng EXCEPT !.pc = pc].pc = pc /\ [eng EXCEPT !.pc = pc].kind = eng.kind
                    /\ [eng EXCEPT !.pc = pc].failed = eng.failed /\ [eng EXCEPT !.pc = pc].cancelled = eng.cancelled
    BY <1>1 DEF EngineState
  <1>3. \A pc : [eng EXCEPT !.pc = pc, !.failed = TRUE].pc = pc
                    /\ [eng EXCEPT !.pc = pc, !.failed = TRUE].kind = eng.kind
                    /\ [eng EXCEPT !.pc = pc, !.failed = TRUE].failed = TRUE
                    /\ [eng EXCEPT !.pc = pc, !.failed = TRUE].cancelled = eng.cancelled
    BY <1>1 DEF EngineState
  <1>4. /\ [eng EXCEPT !.cancelled = TRUE].pc = eng.pc /\ [eng EXCEPT !.cancelled = TRUE].kind = eng.kind
        /\ [eng EXCEPT !.cancelled = TRUE].failed = eng.failed /\ [eng EXCEPT !.cancelled = TRUE].cancelled = TRUE
        /\ [eng EXCEPT !.cancelled = TRUE] \in EngineState
    BY <1>1 DEF EngineState
  <1>5. \A k : [NoEngine EXCEPT !.pc = "verify", !.kind = k].pc = "verify"
                   /\ [NoEngine EXCEPT !.pc = "verify", !.kind = k].kind = k
                   /\ [NoEngine EXCEPT !.pc = "verify", !.kind = k].failed = FALSE
                   /\ [NoEngine EXCEPT !.pc = "verify", !.kind = k].cancelled = FALSE
    BY DEF NoEngine
  <1>6. \A pc \in EnginePcs : [eng EXCEPT !.pc = pc] \in EngineState /\ [eng EXCEPT !.pc = pc, !.failed = TRUE] \in EngineState
    BY <1>1 DEF EngineState
  <1>7. /\ \A k \in Jobs : [NoEngine EXCEPT !.pc = "verify", !.kind = k] \in EngineState
        /\ NoEngine \in EngineState /\ NoEngine.pc = "idle"
    BY DEF NoEngine, EngineState, EnginePcs
  <1> QED BY <1>2, <1>3, <1>4, <1>5, <1>6, <1>7

\* Failures are counted, and power calls leave a container.
LEMMA CallsTyped ==
  ASSUME Typed
  PROVE  /\ \A reason : Fails(reason) => fails' \in FailCounts
         /\ StoreFails => fails' \in FailCounts
         /\ \A a \in PowerActions : Powered(a) \in Container
         /\ \A a \in PowerActions : \A ok : Power(a, ok) => cont' \in Container /\ fails' \in FailCounts
         /\ \A v \in Versions : \A ok : Reconfigure(v, ok) => cont' \in Container /\ fails' \in FailCounts
  <1>0. fails \in FailCounts /\ cont \in Container BY DEF Typed
  <1>1. \A n \in Nat : n < MaxFails => n + 1 \in 0 .. MaxFails BY WorkflowAssumption
  <1>2. \A n \in Nat : n < MaxStoreFails => n + 1 \in 0 .. MaxStoreFails BY WorkflowAssumption
  <1>3. fails.engine \in Nat /\ fails.store \in Nat BY <1>0 DEF FailCounts
  <1>4. /\ \A n \in 0 .. MaxFails : [fails EXCEPT !.engine = n] \in FailCounts
        /\ \A n \in 0 .. MaxStoreFails : [fails EXCEPT !.store = n] \in FailCounts
    BY <1>0 DEF FailCounts
  <1>5. \A reason : Fails(reason) => fails' \in FailCounts
    <2> SUFFICES ASSUME fails.engine < MaxFails, fails' = [fails EXCEPT !.engine = @ + 1] PROVE fails' \in FailCounts
      BY <1>0 DEF Fails
    <2>1. fails.engine + 1 \in 0 .. MaxFails BY <1>1, <1>3
    <2> QED BY <1>4, <2>1
  <1>6. StoreFails => fails' \in FailCounts
    <2> SUFFICES ASSUME fails.store < MaxStoreFails, fails' = [fails EXCEPT !.store = @ + 1] PROVE fails' \in FailCounts
      BY DEF StoreFails
    <2>1. fails.store + 1 \in 0 .. MaxStoreFails BY <1>2, <1>3
    <2> QED BY <1>4, <2>1
  <1>7. \A a \in PowerActions : Powered(a) \in Container
    <2>1. cont.state \in {"created", "running", "exited"} BY <1>0 DEF Container
    <2>2. \A a \in PowerActions : DockerResult(DockerCall(a, cont.state), cont.state) \in {"created", "running", "exited"}
      BY <2>1 DEF PowerActions, DockerResult, DockerCall, Running
    <2>3. \A s \in {"created", "running", "exited"} : [cont EXCEPT !.state = s] \in Container BY <1>0 DEF Container
    <2> QED BY <2>2, <2>3 DEF Powered
  <1>8. \A a \in PowerActions : \A ok : Power(a, ok) => cont' \in Container /\ fails' \in FailCounts
    BY <1>0, <1>5, <1>7 DEF Power, MayFail
  <1>9. \A v \in Versions : [state |-> "created", version |-> v] \in Container BY DEF Container
  <1>10. \A v \in Versions : \A ok : Reconfigure(v, ok) => cont' \in Container /\ fails' \in FailCounts
    BY <1>0, <1>5, <1>9 DEF Reconfigure
  <1> QED BY <1>5, <1>6, <1>7, <1>8, <1>10

\* A job keeps what is not written.
SameJob(k) == job'[k].was = job[k].was /\ job'[k].installer = job[k].installer
SameRest(k) ==
  /\ SameJob(k) /\ job'[k].before = job[k].before /\ job'[k].attempts = job[k].attempts
  /\ job'[k].again = job[k].again
  /\ \A j \in Jobs \ {k} : job'[j] = job[j]

\* What is written into jobs.
LEMMA JobWrites ==
  ASSUME Typed, NEW k \in Jobs
  PROVE  /\ \A x \in {"none", "pending", "running", "succeeded", "failed"} :
              job' = [job EXCEPT ![k].op = x] =>
                job' \in [Jobs -> Job] /\ job'[k].op = x /\ job'[k].event = job[k].event /\ SameRest(k)
         /\ job' = [job EXCEPT ![k].event = FALSE] =>
              job' \in [Jobs -> Job] /\ job'[k].op = job[k].op /\ job'[k].event = FALSE /\ SameRest(k)
         /\ Claim(k) =>
              /\ job' \in [Jobs -> Job] /\ job'[k].op = job[k].op /\ job'[k].event = job[k].event /\ SameJob(k)
              /\ \A j \in Jobs \ {k} : job'[j] = job[j]
              /\ job'[k].before = (IF job[k].attempts = 0 THEN vol ELSE job[k].before) /\ job'[k].attempts # 0
              /\ job'[k].again = (AtWork \/ job[k].again \/ (job[k].attempts # 0 /\ vol # job[k].before))
         /\ \A i \in BOOLEAN : Accept(k, i) =>
              /\ job' \in [Jobs -> Job] /\ job'[k].op = "pending" /\ job'[k].event = TRUE /\ job'[k].installer = i
              /\ job'[k].was = (\/ srv.desired = "running"
                                \/ srv.status \in {"running", "starting", "restarting"})
              /\ job'[k].attempts = job[k].attempts
              /\ \A j \in Jobs \ {k} : job'[j] = job[j]
  <1>0. job \in [Jobs -> Job] /\ vol \in Contents BY DEF Typed
  <1>1. ASSUME NEW x \in {"none", "pending", "running", "succeeded", "failed"}, job' = [job EXCEPT ![k].op = x]
        PROVE  job' \in [Jobs -> Job] /\ job'[k].op = x /\ job'[k].event = job[k].event /\ SameRest(k)
    <2>1. job'[k] = [job[k] EXCEPT !.op = x] /\ \A j \in Jobs \ {k} : job'[j] = job[j] BY <1>0, <1>1
    <2>2. [job[k] EXCEPT !.op = x] \in Job BY <1>0 DEF Job
    <2>3. job' \in [Jobs -> Job] BY <1>0, <1>1, <2>2
    <2> QED BY <1>0, <2>1, <2>3 DEF SameRest, SameJob, Job
  <1>2. ASSUME job' = [job EXCEPT ![k].event = FALSE]
        PROVE  job' \in [Jobs -> Job] /\ job'[k].op = job[k].op /\ job'[k].event = FALSE /\ SameRest(k)
    <2>1. job'[k] = [job[k] EXCEPT !.event = FALSE] /\ \A j \in Jobs \ {k} : job'[j] = job[j] BY <1>0, <1>2
    <2>2. [job[k] EXCEPT !.event = FALSE] \in Job BY <1>0 DEF Job
    <2>3. job' \in [Jobs -> Job] BY <1>0, <1>2, <2>2
    <2> QED BY <1>0, <2>1, <2>3 DEF SameRest, SameJob, Job
  <1>3. ASSUME Claim(k)
        PROVE /\ job' \in [Jobs -> Job] /\ job'[k].op = job[k].op /\ job'[k].event = job[k].event /\ SameJob(k)
              /\ \A j \in Jobs \ {k} : job'[j] = job[j]
              /\ job'[k].before = (IF job[k].attempts = 0 THEN vol ELSE job[k].before) /\ job'[k].attempts # 0
              /\ job'[k].again = (AtWork \/ job[k].again \/ (job[k].attempts # 0 /\ vol # job[k].before))
    <2> DEFINE b == IF job[k].attempts = 0 THEN vol ELSE job[k].before
               g == AtWork \/ job[k].again \/ (job[k].attempts # 0 /\ vol # job[k].before)
               n == IF job[k].attempts < BackupAttempts THEN job[k].attempts + 1 ELSE job[k].attempts
    <2>1. job[k] \in Job /\ job[k].attempts \in 0 .. BackupAttempts /\ job[k].before \in Contents BY <1>0 DEF Job
    <2>2. b \in Contents /\ g \in BOOLEAN BY <1>0, <2>1
    <2>3. n \in 0 .. BackupAttempts /\ n # 0 BY <2>1, WorkflowAssumption
    <2>4. job' = [job EXCEPT ![k] = [job[k] EXCEPT !.before = b, !.again = g, !.attempts = n]]
      BY <1>0, <1>3, <2>1 DEF Claim, Take
    <2>5. /\ b = IF job[k].attempts = 0 THEN vol ELSE job[k].before
          /\ g = (AtWork \/ job[k].again \/ (job[k].attempts # 0 /\ vol # job[k].before))
      OBVIOUS
    <2> HIDE DEF b, g, n
    <2>6. [job[k] EXCEPT !.before = b, !.again = g, !.attempts = n] \in Job BY <2>1, <2>2, <2>3 DEF Job
    <2>7. job' \in [Jobs -> Job] BY <1>0, <2>4, <2>6
    <2>8. /\ job'[k] = [job[k] EXCEPT !.before = b, !.again = g, !.attempts = n]
          /\ \A j \in Jobs \ {k} : job'[j] = job[j]
      BY <1>0, <2>4
    <2>9. /\ job'[k].before = b /\ job'[k].again = g /\ job'[k].attempts = n /\ SameJob(k)
          /\ job'[k].op = job[k].op /\ job'[k].event = job[k].event
      BY <2>1, <2>8 DEF SameJob, Job
    <2> QED BY <2>3, <2>5, <2>7, <2>8, <2>9
  <1>4. ASSUME NEW i \in BOOLEAN, Accept(k, i)
        PROVE /\ job' \in [Jobs -> Job] /\ job'[k].op = "pending" /\ job'[k].event = TRUE /\ job'[k].installer = i
              /\ job'[k].was = (\/ srv.desired = "running"
                                \/ srv.status \in {"running", "starting", "restarting"})
              /\ job'[k].attempts = job[k].attempts
              /\ \A j \in Jobs \ {k} : job'[j] = job[j]
    <2> DEFINE w == \/ srv.desired = "running"
                    \/ srv.status \in {"running", "starting", "restarting"}
    <2>1. job[k] \in Job /\ w \in BOOLEAN BY <1>0
    <2>2. job' = [job EXCEPT ![k] = [job[k] EXCEPT !.event = TRUE, !.op = "pending", !.installer = i, !.was = w]]
      BY <1>0, <1>4 DEF Accept
    <2> HIDE DEF w
    <2>3. [job[k] EXCEPT !.event = TRUE, !.op = "pending", !.installer = i, !.was = w] \in Job BY <2>1 DEF Job
    <2>4. job' \in [Jobs -> Job] BY <1>0, <2>2, <2>3
    <2>5. job'[k] = [job[k] EXCEPT !.event = TRUE, !.op = "pending", !.installer = i, !.was = w]
          /\ \A j \in Jobs \ {k} : job'[j] = job[j]
      BY <1>0, <2>2
    <2>6. job'[k].op = "pending" /\ job'[k].event = TRUE /\ job'[k].installer = i /\ job'[k].was = w
          /\ job'[k].attempts = job[k].attempts
      BY <2>1, <2>5 DEF Job
    <2> QED BY <2>4, <2>5, <2>6 DEF w
  <1> QED BY <1>1, <1>2, <1>3, <1>4

\* What is written into the rows and files of backups.
LEMMA ArchiveWrites ==
  ASSUME Typed, NEW k \in Jobs
  PROVE  /\ \A st \in {"none", "queued", "running", "succeeded", "failed"} :
              arch' = [arch EXCEPT ![k].status = st] =>
                /\ arch' \in [Jobs -> Archive] /\ arch'[k].file = arch[k].file /\ arch'[k].sha = arch[k].sha
                /\ arch'[k].status = st /\ \A j \in Jobs \ {k} : arch'[j] = arch[j]
         /\ \A f \in Contents \cup {None} :
              arch' = [arch EXCEPT ![k].file = f] =>
                /\ arch' \in [Jobs -> Archive] /\ arch'[k].file = f /\ arch'[k].status = arch[k].status
                /\ \A j \in Jobs \ {k} : arch'[j] = arch[j]
         /\ \A f \in Contents \cup {None} :
              arch' = [arch EXCEPT ![k] = [@ EXCEPT !.file = f, !.status = "failed"]] =>
                /\ arch' \in [Jobs -> Archive] /\ arch'[k].file = f /\ arch'[k].status = "failed"
                /\ \A j \in Jobs \ {k} : arch'[j] = arch[j]
         /\ arch' = [arch EXCEPT ![k] = [@ EXCEPT !.sha = arch[k].file, !.status = "succeeded"]] =>
                /\ arch' \in [Jobs -> Archive] /\ arch'[k].file = arch[k].file /\ arch'[k].sha = arch[k].file
                /\ arch'[k].status = "succeeded" /\ \A j \in Jobs \ {k} : arch'[j] = arch[j]
  <1>0. arch \in [Jobs -> Archive] /\ arch[k] \in Archive BY DEF Typed
  <1>1. ASSUME NEW st \in {"none", "queued", "running", "succeeded", "failed"}, arch' = [arch EXCEPT ![k].status = st]
        PROVE  /\ arch' \in [Jobs -> Archive] /\ arch'[k].file = arch[k].file /\ arch'[k].sha = arch[k].sha
               /\ arch'[k].status = st /\ \A j \in Jobs \ {k} : arch'[j] = arch[j]
    <2>1. arch'[k] = [arch[k] EXCEPT !.status = st] /\ \A j \in Jobs \ {k} : arch'[j] = arch[j] BY <1>0, <1>1
    <2>2. [arch[k] EXCEPT !.status = st] \in Archive BY <1>0 DEF Archive
    <2>3. arch' \in [Jobs -> Archive] BY <1>0, <1>1, <2>2
    <2> QED BY <1>0, <2>1, <2>3 DEF Archive
  <1>2. ASSUME NEW f \in Contents \cup {None}, arch' = [arch EXCEPT ![k].file = f]
        PROVE  /\ arch' \in [Jobs -> Archive] /\ arch'[k].file = f /\ arch'[k].status = arch[k].status
               /\ \A j \in Jobs \ {k} : arch'[j] = arch[j]
    <2>1. arch'[k] = [arch[k] EXCEPT !.file = f] /\ \A j \in Jobs \ {k} : arch'[j] = arch[j] BY <1>0, <1>2
    <2>2. [arch[k] EXCEPT !.file = f] \in Archive BY <1>0 DEF Archive
    <2>3. arch' \in [Jobs -> Archive] BY <1>0, <1>2, <2>2
    <2> QED BY <1>0, <2>1, <2>3 DEF Archive
  <1>3. ASSUME NEW f \in Contents \cup {None}, arch' = [arch EXCEPT ![k] = [@ EXCEPT !.file = f, !.status = "failed"]]
        PROVE  /\ arch' \in [Jobs -> Archive] /\ arch'[k].file = f /\ arch'[k].status = "failed"
               /\ \A j \in Jobs \ {k} : arch'[j] = arch[j]
    <2>1. arch'[k] = [arch[k] EXCEPT !.file = f, !.status = "failed"] /\ \A j \in Jobs \ {k} : arch'[j] = arch[j] BY <1>0, <1>3
    <2>2. [arch[k] EXCEPT !.file = f, !.status = "failed"] \in Archive BY <1>0 DEF Archive
    <2>3. arch' \in [Jobs -> Archive] BY <1>0, <1>3, <2>2
    <2> QED BY <1>0, <2>1, <2>3 DEF Archive
  <1>4. ASSUME arch' = [arch EXCEPT ![k] = [@ EXCEPT !.sha = arch[k].file, !.status = "succeeded"]]
        PROVE  /\ arch' \in [Jobs -> Archive] /\ arch'[k].file = arch[k].file /\ arch'[k].sha = arch[k].file
               /\ arch'[k].status = "succeeded" /\ \A j \in Jobs \ {k} : arch'[j] = arch[j]
    <2> DEFINE f == arch[k].file
    <2>0. f \in Contents \cup {None} BY <1>0 DEF Archive
    <2>1. arch' = [arch EXCEPT ![k] = [arch[k] EXCEPT !.sha = f, !.status = "succeeded"]] BY <1>0, <1>4
    <2> HIDE DEF f
    <2>2. arch'[k] = [arch[k] EXCEPT !.sha = f, !.status = "succeeded"] /\ \A j \in Jobs \ {k} : arch'[j] = arch[j] BY <1>0, <2>1
    <2>3. [arch[k] EXCEPT !.sha = f, !.status = "succeeded"] \in Archive BY <1>0, <2>0 DEF Archive
    <2>4. arch' \in [Jobs -> Archive] BY <1>0, <2>1, <2>3
    <2>5. arch'[k].file = arch[k].file /\ arch'[k].sha = f /\ arch'[k].status = "succeeded" BY <1>0, <2>2 DEF Archive
    <2> QED BY <2>2, <2>4, <2>5 DEF f
  <1> QED BY <1>1, <1>2, <1>3, <1>4

\* Requests, power calls and telemetry keep the types.
LEMMA OutsideTyped ==
  ASSUME TypeInv,
         \/ QueueBackupRestore
         \/ \E k \in Jobs, i \in BOOLEAN : QueueTemplateUpdate(k, i)
         \/ \E r \in Reqs : (\E a \in Actions : RequestPower(r, a)) \/ CallPower(r) \/ FinishPower(r)
         \/ ObserveStatus
  PROVE  TypeInv'
  <1>0. Typed /\ Stages BY DEF TypeInv
  <1>1. /\ srv \in ServerRow /\ cont \in Container /\ arch \in [Jobs -> Archive] /\ req \in [Reqs -> PowerRequest]
        /\ Actions \subseteq PowerActions
    BY <1>0, WorkflowAssumption DEF Typed
  <1>2. ASSUME NEW k \in Jobs, NEW i \in BOOLEAN, Accept(k, i), i => k = "reinstall",
               \/ UNCHANGED arch
               \/ k # "restore" /\ arch' = [arch EXCEPT ![k].status = "queued"]
        PROVE  TypeInv'
    <2>1. srv' \in ServerRow
      <3> DEFINE st == IF srv.status \in {"running", "starting", "restarting"} THEN "stopping" ELSE srv.status
      <3>1. srv' = [srv EXCEPT !.desired = "stopped", !.status = st] BY <1>1, <1>2 DEF Accept, ServerRow
      <3>2. st \in {"running", "stopped", "starting", "stopping", "restarting", "failed"} BY <1>1 DEF ServerRow
      <3> HIDE DEF st
      <3> QED BY <1>1, <3>1, <3>2 DEF ServerRow
    <2>2. /\ job' \in [Jobs -> Job] /\ job'[k].op = "pending" /\ job'[k].installer = i
          /\ \A j \in Jobs \ {k} : job'[j] = job[j]
      BY <1>0, <1>2, JobWrites
    <2>3. /\ arch' \in [Jobs -> Archive] /\ arch'[k].file = arch[k].file
          /\ \A j \in Jobs : arch'[j].file = arch[j].file
          /\ "restore" \in Jobs => arch'["restore"] = arch["restore"]
      <3>1. CASE UNCHANGED arch BY <1>1, <3>1
      <3>2. CASE k # "restore" /\ arch' = [arch EXCEPT ![k].status = "queued"]
        <4>1. /\ arch' \in [Jobs -> Archive] /\ arch'[k].file = arch[k].file
              /\ \A j \in Jobs \ {k} : arch'[j] = arch[j]
          BY <1>0, <3>2, ArchiveWrites
        <4> QED BY <3>2, <4>1
      <3> QED BY <1>2, <3>1, <3>2
    <2>4. /\ UNCHANGED <<cont, vol, safety, wk, eng, stray, req, fails, crashes>> /\ job[k].op = "none" BY <1>2 DEF Accept
    <2>5. Typed' BY <1>0, <2>1, <2>2, <2>3, <2>4 DEF Typed
    <2>6. wk.pc # "idle" => wk.kind # k BY <1>0, <2>4 DEF Stages
    <2>7. /\ wk.pc # "idle" => wk.kind \in Jobs /\ job'[wk.kind] = job[wk.kind]
          /\ \A j \in Jobs : job'[j].event = TRUE => job'[j].op # "none"
          /\ \A j \in Jobs : job'[j].installer = TRUE => j = "reinstall"
      BY <1>0, <1>2, <2>2, <2>6 DEF Stages
    <2>8. Stages' BY <1>0, <2>3, <2>4, <2>7 DEF Stages, UpdatePcs
    <2> QED BY <2>5, <2>8 DEF TypeInv
  <1>3. CASE QueueBackupRestore BY <1>2, <1>3 DEF QueueBackupRestore
  <1>4. ASSUME NEW k \in Jobs, NEW i \in BOOLEAN, QueueTemplateUpdate(k, i) PROVE TypeInv'
    BY <1>2, <1>4 DEF QueueTemplateUpdate
  <1>5. ASSUME UNCHANGED <<vol, arch, safety, job, wk, eng, stray, crashes>>, srv' \in ServerRow, cont' \in Container,
               req' \in [Reqs -> PowerRequest], fails' \in FailCounts
        PROVE  TypeInv'
    <2>1. Typed' BY <1>0, <1>5 DEF Typed
    <2>2. Stages' BY <1>0, <1>5 DEF Stages
    <2> QED BY <2>1, <2>2 DEF TypeInv
  <1>6. ASSUME NEW r \in Reqs, NEW a \in Actions, RequestPower(r, a) PROVE TypeInv'
    <2>1. Transition(a) \in {"starting", "restarting", "stopping"} /\ DesiredBy(a) \in {"running", "stopped"}
      BY DEF Transition, DesiredBy
    <2>2. \A st \in {"starting", "restarting", "stopping"}, d \in {"running", "stopped"} :
             [srv EXCEPT !.status = st, !.desired = d] \in ServerRow
      BY <1>1 DEF ServerRow
    <2>3. srv' \in ServerRow BY <1>6, <2>1, <2>2 DEF RequestPower
    <2>4. [phase |-> "call", action |-> a] \in PowerRequest BY DEF PowerRequest
    <2>5. req' \in [Reqs -> PowerRequest] BY <1>1, <1>6, <2>4 DEF RequestPower
    <2> QED BY <1>0, <1>5, <1>6, <2>3, <2>5 DEF RequestPower, Typed
  <1>7. ASSUME NEW r \in Reqs, CallPower(r) PROVE TypeInv'
    <2>0. PICK ok \in BOOLEAN : /\ Power(req[r].action, ok)
                                /\ req' = [req EXCEPT ![r].phase = IF ok THEN "ok" ELSE "error"]
      BY <1>7 DEF CallPower
    <2>1. req[r] \in PowerRequest BY <1>1
    <2>2. \A ph \in {"ok", "error", "done"} : [req[r] EXCEPT !.phase = ph] \in PowerRequest BY <2>1 DEF PowerRequest
    <2>3. req' \in [Reqs -> PowerRequest] BY <1>1, <2>0, <2>2
    <2>4. \A a : a \in PowerActions /\ Power(a, ok) => cont' \in Container /\ fails' \in FailCounts
      BY <1>0, CallsTyped
    <2>5. ASSUME req[r].action \notin PowerActions PROVE cont' \in Container /\ fails' \in FailCounts
      <3>1. \A a : a \notin PowerActions => DockerCall(a, cont.state) = "nothing" BY DEF DockerCall, PowerActions
      <3>2. \A a : a \notin PowerActions => Powered(a) \in Container
        BY <1>1, <3>1 DEF Powered, DockerResult, Container
      <3>3. Fails(FALSE) => fails' \in FailCounts BY <1>0, CallsTyped
      <3> QED BY <1>0, <1>1, <2>0, <2>5, <3>2, <3>3 DEF Power, MayFail, Typed
    <2>6. cont' \in Container /\ fails' \in FailCounts BY <2>0, <2>4, <2>5
    <2> QED BY <1>1, <1>5, <1>7, <2>3, <2>6 DEF CallPower
  <1>8. ASSUME NEW r \in Reqs, FinishPower(r) PROVE TypeInv'
    <2>1. [req[r] EXCEPT !.phase = "done"] \in PowerRequest BY <1>1 DEF PowerRequest
    <2>2. req' \in [Reqs -> PowerRequest] BY <1>1, <1>8, <2>1 DEF FinishPower
    <2>3. /\ \A st \in {"running", "stopped", "failed"} : [srv EXCEPT !.status = st] \in ServerRow
          /\ [srv EXCEPT !.status = "running", !.desired = "running"] \in ServerRow
      BY <1>1 DEF ServerRow
    <2>4. DesiredBy(req[r].action) \in {"running", "stopped"} BY DEF DesiredBy
    <2>5. srv' \in ServerRow BY <1>1, <1>8, <2>3, <2>4 DEF FinishPower
    <2> QED BY <1>0, <1>1, <1>5, <1>8, <2>2, <2>5 DEF FinishPower, Typed
  <1>9. CASE ObserveStatus
    <2>1. cont.state \in {"created", "running", "exited"} BY <1>1 DEF Container
    <2>2. runtimeServerStatus(cont.state, srv.desired, srv.status) \in {"running", "stopped", "stopping"}
      BY <2>1 DEF runtimeServerStatus
    <2>3. \A st \in {"running", "stopped", "stopping"} : [srv EXCEPT !.status = st] \in ServerRow BY <1>1 DEF ServerRow
    <2>4. srv' \in ServerRow BY <1>1, <1>9, <2>2, <2>3 DEF ObserveStatus
    <2> QED BY <1>0, <1>1, <1>5, <1>9, <2>4 DEF ObserveStatus, Typed
  <1> QED BY <1>3, <1>4, <1>6, <1>7, <1>8, <1>9

-----------------------------------------------------------------------------
(* What each step of the worker and of the engine writes, field by field.  *)

Moved(pc, failed) ==
  /\ wk' \in WorkerState /\ wk'.pc = pc /\ wk'.kind = wk.kind /\ wk'.failed = failed
  /\ wk'.previous = wk.previous

OpBecomes(x) ==
  /\ job' \in [Jobs -> Job] /\ job'[wk.kind].op = x /\ job'[wk.kind].event = job[wk.kind].event
  /\ SameRest(wk.kind)

FailedCall == fails' \in FailCounts /\ fails'.engine = fails.engine + 1 /\ fails'.store = fails.store
FailedStatement == fails' \in FailCounts /\ fails'.engine = fails.engine /\ fails'.store = fails.store + 1

SameContainer == cont' \in Container /\ cont'.version = cont.version
TurnedOff == SameContainer /\ ~Running(cont'.state)
TurnedOn == SameContainer /\ Running(cont'.state)
MaybeOff == SameContainer /\ (Running(cont'.state) => Running(cont.state))

EngineAt(pc, failed) ==
  /\ eng' \in EngineState /\ eng'.pc = pc /\ eng'.kind = eng.kind /\ eng'.failed = failed
  /\ eng'.cancelled = eng.cancelled

EngineCalled ==
  /\ eng' \in EngineState /\ eng'.pc = "verify" /\ eng'.kind = wk.kind /\ eng'.failed = FALSE
  /\ eng'.cancelled = FALSE

\* Goto and Failed move the worker, and failures are counted one at a time.
LEMMA Moves ==
  ASSUME Typed
  PROVE  /\ \A pc \in WorkerPcs : Goto(pc) => Moved(pc, wk.failed)
         /\ \A pc \in WorkerPcs : Failed(pc) => Moved(pc, TRUE)
         /\ MayFail => FailedCall
         /\ \A reason : Fails(reason) => (reason /\ UNCHANGED fails) \/ FailedCall
         /\ StoreFails => FailedStatement
  <1>0. fails \in FailCounts BY DEF Typed
  <1>1. \A pc \in WorkerPcs : Goto(pc) => Moved(pc, wk.failed) BY WorkerMoves DEF Moved
  <1>2. \A pc \in WorkerPcs : Failed(pc) => Moved(pc, TRUE) BY WorkerMoves DEF Moved
  <1>3. ASSUME fails.engine < MaxFails, fails' = [fails EXCEPT !.engine = @ + 1] PROVE FailedCall
    <2>1. Fails(FALSE) BY <1>3 DEF Fails
    <2>2. fails' \in FailCounts BY <2>1, CallsTyped
    <2> QED BY <1>0, <1>3, <2>2 DEF FailedCall, FailCounts
  <1>4. \A reason : Fails(reason) => (reason /\ UNCHANGED fails) \/ FailedCall BY <1>3 DEF Fails
  <1>5. MayFail => FailedCall BY <1>4 DEF MayFail
  <1>6. StoreFails => FailedStatement
    <2> SUFFICES ASSUME StoreFails PROVE FailedStatement OBVIOUS
    <2>1. fails' \in FailCounts BY CallsTyped
    <2> QED BY <1>0, <2>1 DEF StoreFails, FailedStatement, FailCounts
  <1> QED BY <1>1, <1>2, <1>4, <1>5, <1>6

\* A call of the engine's restore handler starts it for the worker's job.
LEMMA EngineStarts ==
  wk.kind \in Jobs /\ eng' = [NoEngine EXCEPT !.pc = "verify", !.kind = wk.kind] => EngineCalled
  <1> SUFFICES ASSUME wk.kind \in Jobs, eng' = [NoEngine EXCEPT !.pc = "verify", !.kind = wk.kind] PROVE EngineCalled
    OBVIOUS
  <1>1. eng' = [pc |-> "verify", kind |-> wk.kind, failed |-> FALSE, cancelled |-> FALSE] BY DEF NoEngine
  <1>2. \A k \in Jobs : [pc |-> "verify", kind |-> k, failed |-> FALSE, cancelled |-> FALSE] \in EngineState
    BY DEF EngineState, EnginePcs
  <1>3. eng' \in EngineState BY <1>1, <1>2
  <1>4. eng'.pc = "verify" /\ eng'.kind = wk.kind /\ eng'.failed = FALSE /\ eng'.cancelled = FALSE
    <2>1. \A k : /\ [pc |-> "verify", kind |-> k, failed |-> FALSE, cancelled |-> FALSE].pc = "verify"
                 /\ [pc |-> "verify", kind |-> k, failed |-> FALSE, cancelled |-> FALSE].kind = k
                 /\ [pc |-> "verify", kind |-> k, failed |-> FALSE, cancelled |-> FALSE].failed = FALSE
                 /\ [pc |-> "verify", kind |-> k, failed |-> FALSE, cancelled |-> FALSE].cancelled = FALSE
      OBVIOUS
    <2> DEFINE called == [pc |-> "verify", kind |-> wk.kind, failed |-> FALSE, cancelled |-> FALSE]
    <2>2. eng' = called BY <1>1
    <2>3. called.pc = "verify" /\ called.kind = wk.kind /\ called.failed = FALSE /\ called.cancelled = FALSE BY <2>1
    <2> HIDE DEF called
    <2> QED BY <2>2, <2>3
  <1> QED BY <1>3, <1>4 DEF EngineCalled

\* What power calls do to the container.
LEMMA PowerDoes ==
  ASSUME Typed, NEW ok \in BOOLEAN
  PROVE  /\ Power("stop", ok) \/ Power("kill", ok) =>
              (ok = TRUE /\ TurnedOff /\ UNCHANGED fails) \/ (ok = FALSE /\ MaybeOff /\ FailedCall)
         /\ Power("start", ok) =>
              (ok = TRUE /\ TurnedOn /\ UNCHANGED fails) \/ (ok = FALSE /\ SameContainer /\ FailedCall)
  <1>0. cont \in Container BY DEF Typed
  <1>1. \A s : [cont EXCEPT !.state = s].state = s /\ [cont EXCEPT !.state = s].version = cont.version
    BY <1>0 DEF Container
  <1>2. \A a \in {"stop", "kill"} : /\ Powered(a) \in Container /\ Powered(a).version = cont.version
                                    /\ ~Running(Powered(a).state)
    <2>1. \A a \in {"stop", "kill"} : ~Running(DockerResult(DockerCall(a, cont.state), cont.state))
      BY DEF DockerResult, DockerCall, Running
    <2>2. \A a \in {"stop", "kill"} : Powered(a) \in Container BY CallsTyped DEF PowerActions
    <2> QED BY <1>1, <2>1, <2>2 DEF Powered
  <1>3. Powered("start") \in Container /\ Powered("start").version = cont.version /\ Running(Powered("start").state)
    <2>1. Running(DockerResult(DockerCall("start", cont.state), cont.state))
      BY DEF DockerResult, DockerCall, Running
    <2>2. Powered("start") \in Container BY CallsTyped DEF PowerActions
    <2> QED BY <1>1, <2>1, <2>2 DEF Powered
  <1>4. MayFail => FailedCall BY Moves
  <1>5. ASSUME NEW a \in {"stop", "kill"}, Power(a, ok)
        PROVE  (ok = TRUE /\ TurnedOff /\ UNCHANGED fails) \/ (ok = FALSE /\ MaybeOff /\ FailedCall)
    BY <1>0, <1>2, <1>4, <1>5 DEF Power, TurnedOff, MaybeOff, SameContainer
  <1>6. ASSUME Power("start", ok)
        PROVE  (ok = TRUE /\ TurnedOn /\ UNCHANGED fails) \/ (ok = FALSE /\ SameContainer /\ FailedCall)
    BY <1>0, <1>3, <1>4, <1>6 DEF Power, TurnedOn, SameContainer
  <1> QED BY <1>5, <1>6

\* Steps of the restore handler, and those it shares with the update.
LEMMA RestoreSteps ==
  ASSUME TypeInv
  PROVE  /\ RestoreBegin =>
              /\ OpBecomes("running")
              /\ Moved(IF WasRunning THEN "stop" ELSE "call", wk.failed)
         /\ RestoreStop =>
              \/ TurnedOff /\ UNCHANGED fails /\ Moved("call", wk.failed)
              \/ MaybeOff /\ FailedCall /\ Moved("start", TRUE)
         /\ RestoreCall =>
              \/ EngineCalled /\ UNCHANGED fails /\ Moved("wait", wk.failed)
              \/ UNCHANGED eng /\ FailedStatement /\ Moved(AfterRestore, TRUE)
         /\ RestoreAnswered =>
              /\ eng' = NoEngine
              /\ Moved(AfterRestore, IF eng.pc = "ok" THEN wk.failed ELSE TRUE)
         /\ RestoreLost =>
              /\ FailedCall
              /\ eng' \in EngineState /\ eng'.pc = eng.pc /\ eng'.kind = eng.kind /\ eng'.failed = eng.failed
              /\ eng'.cancelled = TRUE
              /\ IF wk.pc = "wait" THEN Moved(AfterRestore, TRUE) ELSE Moved("runtime", wk.failed)
         /\ StartAgain =>
              \/ TurnedOn /\ UNCHANGED fails /\ Moved("finish", wk.failed)
              \/ SameContainer /\ FailedCall /\ Moved("finish", TRUE)
         /\ Finish =>
              /\ srv' = [srv EXCEPT !.desired = IF WasRunning THEN "running" ELSE "stopped",
                                    !.status = IF WasRunning THEN "starting" ELSE "stopped"]
              /\ OpBecomes(IF wk.failed THEN "failed" ELSE "succeeded")
              /\ Moved("ack", wk.failed)
         /\ Ack =>
              /\ job' \in [Jobs -> Job] /\ job'[wk.kind].op = job[wk.kind].op /\ job'[wk.kind].event = FALSE
              /\ SameRest(wk.kind)
              /\ wk' = IdleWorker
  <1>0. Typed /\ Stages BY DEF TypeInv
  <1>1. AfterRestore \in WorkerPcs /\ {"stop", "call", "start", "wait", "finish", "ack", "runtime"} \subseteq WorkerPcs
    BY DEF AfterRestore, WorkerPcs
  <1>2. /\ \A pc \in WorkerPcs : Goto(pc) => Moved(pc, wk.failed)
        /\ \A pc \in WorkerPcs : Failed(pc) => Moved(pc, TRUE)
        /\ MayFail => FailedCall
        /\ StoreFails => FailedStatement
    BY <1>0, Moves
  <1>3. ASSUME wk.pc # "idle" PROVE wk.kind \in Jobs BY <1>0, <1>3 DEF Stages
  <1>4. ASSUME wk.kind \in Jobs
        PROVE  /\ \A x \in {"none", "pending", "running", "succeeded", "failed"} :
                    job' = [job EXCEPT ![wk.kind].op = x] => OpBecomes(x)
               /\ job' = [job EXCEPT ![wk.kind].event = FALSE] =>
                    /\ job' \in [Jobs -> Job] /\ job'[wk.kind].op = job[wk.kind].op /\ job'[wk.kind].event = FALSE
                    /\ SameRest(wk.kind)
    BY <1>0, <1>4, JobWrites DEF OpBecomes
  <1>5. ASSUME RestoreBegin PROVE OpBecomes("running") /\ Moved(IF WasRunning THEN "stop" ELSE "call", wk.failed)
    <2>1. wk.kind \in Jobs BY <1>3, <1>5 DEF RestoreBegin
    <2>2. OpBecomes("running") BY <1>4, <1>5, <2>1 DEF RestoreBegin
    <2> QED BY <1>1, <1>2, <1>5, <2>2 DEF RestoreBegin
  <1>6. ASSUME RestoreStop
        PROVE  \/ TurnedOff /\ UNCHANGED fails /\ Moved("call", wk.failed)
               \/ MaybeOff /\ FailedCall /\ Moved("start", TRUE)
    <2>1. PICK ok \in BOOLEAN : Power("stop", ok) /\ IF ok THEN Goto("call") ELSE Failed("start")
      BY <1>6 DEF RestoreStop
    <2>2. (ok = TRUE /\ TurnedOff /\ UNCHANGED fails) \/ (ok = FALSE /\ MaybeOff /\ FailedCall) BY <1>0, <2>1, PowerDoes
    <2> QED BY <1>1, <1>2, <2>1, <2>2
  <1>7. ASSUME RestoreCall
        PROVE  \/ EngineCalled /\ UNCHANGED fails /\ Moved("wait", wk.failed)
               \/ UNCHANGED eng /\ FailedStatement /\ Moved(AfterRestore, TRUE)
    <2>1. wk.kind \in Jobs BY <1>3, <1>7 DEF RestoreCall
    <2>2. eng' = [NoEngine EXCEPT !.pc = "verify", !.kind = wk.kind] => EngineCalled
      BY <2>1, EngineStarts
    <2> QED BY <1>1, <1>2, <1>7, <2>2 DEF RestoreCall
  <1>8. ASSUME RestoreAnswered
        PROVE  eng' = NoEngine /\ Moved(AfterRestore, IF eng.pc = "ok" THEN wk.failed ELSE TRUE)
    <2>1. CASE eng.pc = "ok" BY <1>1, <1>2, <1>8, <2>1 DEF RestoreAnswered
    <2>2. CASE eng.pc # "ok" BY <1>1, <1>2, <1>8, <2>2 DEF RestoreAnswered
    <2> QED BY <2>1, <2>2
  <1>9. ASSUME RestoreLost
        PROVE /\ FailedCall
              /\ eng' \in EngineState /\ eng'.pc = eng.pc /\ eng'.kind = eng.kind /\ eng'.failed = eng.failed
              /\ eng'.cancelled = TRUE
              /\ IF wk.pc = "wait" THEN Moved(AfterRestore, TRUE) ELSE Moved("runtime", wk.failed)
    <2>1. /\ eng' \in EngineState /\ eng'.pc = eng.pc /\ eng'.kind = eng.kind /\ eng'.failed = eng.failed
          /\ eng'.cancelled = TRUE
      BY <1>0, <1>9, EngineMoves DEF RestoreLost
    <2> QED BY <1>1, <1>2, <1>9, <2>1 DEF RestoreLost
  <1>10. ASSUME StartAgain
        PROVE  \/ TurnedOn /\ UNCHANGED fails /\ Moved("finish", wk.failed)
               \/ SameContainer /\ FailedCall /\ Moved("finish", TRUE)
    <2>1. PICK ok \in BOOLEAN : Power("start", ok) /\ IF ok THEN Goto("finish") ELSE Failed("finish")
      BY <1>10 DEF StartAgain
    <2>2. (ok = TRUE /\ TurnedOn /\ UNCHANGED fails) \/ (ok = FALSE /\ SameContainer /\ FailedCall)
      BY <1>0, <2>1, PowerDoes
    <2> QED BY <1>1, <1>2, <2>1, <2>2
  <1>11. ASSUME Finish
        PROVE  /\ srv' = [srv EXCEPT !.desired = IF WasRunning THEN "running" ELSE "stopped",
                                     !.status = IF WasRunning THEN "starting" ELSE "stopped"]
               /\ OpBecomes(IF wk.failed THEN "failed" ELSE "succeeded")
               /\ Moved("ack", wk.failed)
    <2>1. wk.kind \in Jobs BY <1>3, <1>11 DEF Finish
    <2>2. OpBecomes(IF wk.failed THEN "failed" ELSE "succeeded") BY <1>4, <1>11, <2>1 DEF Finish
    <2> QED BY <1>1, <1>2, <1>11, <2>2 DEF Finish
  <1>12. ASSUME Ack
        PROVE /\ job' \in [Jobs -> Job] /\ job'[wk.kind].op = job[wk.kind].op /\ job'[wk.kind].event = FALSE
              /\ SameRest(wk.kind)
              /\ wk' = IdleWorker
    <2>1. wk.kind \in Jobs BY <1>3, <1>12 DEF Ack
    <2> QED BY <1>4, <1>12, <2>1 DEF Ack
  <1> QED BY <1>5, <1>6, <1>7, <1>8, <1>9, <1>10, <1>11, <1>12

Archives(f) ==
  /\ arch' \in [Jobs -> Archive] /\ arch'[wk.kind].file = f
  /\ \A j \in Jobs \ {wk.kind} : arch'[j] = arch[j]

RowVersion(v) ==
  srv' \in ServerRow /\ srv'.version = v /\ srv'.desired = srv.desired /\ srv'.status = srv.status

Replaced(v) == cont' \in Container /\ ~Running(cont.state) /\ ~Running(cont'.state) /\ cont'.version = v
Refused == Running(cont.state) /\ UNCHANGED fails

\* Steps of the template update handler.
LEMMA UpdateSteps ==
  ASSUME TypeInv
  PROVE
    /\ UpdateBegin =>
         /\ OpBecomes("running") /\ Moved("archive", wk.failed)
         /\ arch' \in [Jobs -> Archive]
         /\ \A j \in Jobs : arch'[j].file = arch[j].file /\ arch'[j].sha = arch[j].sha
    /\ UpdateArchive =>
         \/ Archives(vol) /\ UNCHANGED fails /\ Moved("record", wk.failed)
         \/ /\ FailedCall /\ (Archives(vol) \/ Archives(arch[wk.kind].file))
            /\ wk' = IdleWorker \/ Moved("finish", TRUE)
    /\ UpdateRecord =>
         /\ Archives(arch[wk.kind].file) /\ arch'[wk.kind].sha = arch[wk.kind].file
         /\ \/ /\ wk' \in WorkerState /\ wk'.pc = (IF WasRunning THEN "stopping" ELSE "version") /\ wk'.kind = wk.kind
               /\ wk'.failed = wk.failed /\ wk'.previous = srv.version
               /\ UNCHANGED fails
            \/ FailedStatement /\ Moved("finish", TRUE)
    /\ UpdateStop =>
         \/ TurnedOff /\ UNCHANGED fails /\ Moved("version", wk.failed)
         \/ MaybeOff /\ FailedCall /\ Moved("finish", TRUE)
    /\ UpdateVersion =>
         \/ /\ RowVersion("new") /\ UNCHANGED fails
            /\ Moved(IF job[wk.kind].installer THEN "install" ELSE "reconfigure", wk.failed)
         \/ /\ FailedStatement /\ (RowVersion("new") \/ UNCHANGED srv)
            /\ (WasRunning /\ Moved("return", TRUE)) \/ Moved("finish", TRUE) \/ Moved("revert", TRUE)
    /\ UpdateReturn =>
         Moved("finish", wk.failed) /\ ((TurnedOn /\ UNCHANGED fails) \/ (SameContainer /\ FailedCall))
    /\ UpdateRestart =>
         Moved("finish", wk.failed) /\ ((TurnedOn /\ UNCHANGED fails) \/ (SameContainer /\ FailedCall))
    /\ UpdateInstall =>
         \/ vol' = "installed" /\ UNCHANGED fails /\ Moved("reconfigure", wk.failed)
         \/ /\ vol' \in {vol, "installed", "damaged"} /\ (Refused \/ FailedCall \/ FailedStatement)
            /\ Moved("revert", TRUE)
    /\ UpdateReconfigure =>
         \/ /\ Replaced("new") /\ UNCHANGED fails
            /\ Moved(IF WasRunning THEN "start" ELSE "finish", wk.failed)
         \/ UNCHANGED cont /\ (Refused \/ FailedCall \/ FailedStatement) /\ Moved("revert", TRUE)
    /\ UpdateRevert =>
         /\ Moved(IF wk.kind = "reinstall" THEN "files" ELSE "runtime", wk.failed)
         /\ (RowVersion("old") /\ UNCHANGED fails) \/ (FailedStatement /\ UNCHANGED srv)
    /\ UpdateFiles =>
         EngineCalled /\ Moved("filesWait", wk.failed)
    /\ UpdateFilesAnswered =>
         eng' = NoEngine /\ Moved("runtime", wk.failed)
    /\ UpdateRuntime =>
         /\ Moved(IF WasRunning THEN "restart" ELSE "finish", wk.failed)
         /\ (Replaced(wk.previous) /\ UNCHANGED fails) \/ (UNCHANGED cont /\ (Refused \/ FailedCall))
  <1>0. Typed /\ Stages BY DEF TypeInv
  <1>1. {"archive", "record", "stopping", "version", "install", "reconfigure", "return", "revert", "files",
         "filesWait", "runtime", "restart", "start", "finish"} \subseteq WorkerPcs
    BY DEF WorkerPcs
  <1>2. /\ \A pc \in WorkerPcs : Goto(pc) => Moved(pc, wk.failed)
        /\ \A pc \in WorkerPcs : Failed(pc) => Moved(pc, TRUE)
        /\ MayFail => FailedCall
        /\ StoreFails => FailedStatement
    BY <1>0, Moves
  <1>3. ASSUME wk.pc # "idle" PROVE wk.kind \in Jobs BY <1>0, <1>3 DEF Stages
  <1>4. \A v \in Versions : srv' = [srv EXCEPT !.version = v] => RowVersion(v)
    BY <1>0 DEF Typed, ServerRow, RowVersion
  <1>5. ASSUME NEW v \in Versions, NEW ok \in BOOLEAN, Reconfigure(v, ok)
        PROVE  IF ok THEN Replaced(v) /\ UNCHANGED fails ELSE UNCHANGED cont /\ (Refused \/ FailedCall)
    <2>1. [state |-> "created", version |-> v] \in Container /\ ~Running("created") BY DEF Container, Running
    <2>2. Fails(Running(cont.state)) => Refused \/ FailedCall BY <1>0, Moves DEF Refused
    <2>3. CASE ok BY <1>5, <2>1, <2>3 DEF Reconfigure, Replaced
    <2>4. CASE ~ok BY <1>5, <2>2, <2>4 DEF Reconfigure
    <2> QED BY <2>3, <2>4
  <1>6. ASSUME UpdateBegin
        PROVE  /\ OpBecomes("running") /\ Moved("archive", wk.failed)
               /\ arch' \in [Jobs -> Archive]
               /\ \A j \in Jobs : arch'[j].file = arch[j].file /\ arch'[j].sha = arch[j].sha
    <2>1. wk.kind \in Jobs BY <1>3, <1>6 DEF UpdateBegin
    <2>2. OpBecomes("running") BY <1>0, <1>6, <2>1, JobWrites DEF UpdateBegin, OpBecomes
    <2>3. /\ arch' \in [Jobs -> Archive]
          /\ \A j \in Jobs : arch'[j].file = arch[j].file /\ arch'[j].sha = arch[j].sha
      <3>1. CASE arch' = arch BY <1>0, <3>1 DEF Typed
      <3>2. CASE arch' = [arch EXCEPT ![wk.kind].status = "running"]
        <4>1. /\ arch' \in [Jobs -> Archive] /\ arch'[wk.kind].file = arch[wk.kind].file
              /\ arch'[wk.kind].sha = arch[wk.kind].sha /\ \A j \in Jobs \ {wk.kind} : arch'[j] = arch[j]
          BY <1>0, <2>1, <3>2, ArchiveWrites
        <4> QED BY <4>1
      <3> QED BY <1>6, <3>1, <3>2 DEF UpdateBegin
    <2> QED BY <1>1, <1>2, <1>6, <2>2, <2>3 DEF UpdateBegin
  <1>7. ASSUME UpdateArchive
        PROVE  \/ Archives(vol) /\ UNCHANGED fails /\ Moved("record", wk.failed)
               \/ /\ FailedCall /\ (Archives(vol) \/ Archives(arch[wk.kind].file))
                  /\ wk' = IdleWorker \/ Moved("finish", TRUE)
    <2>1. wk.kind \in Jobs BY <1>3, <1>7 DEF UpdateArchive
    <2>2. vol \in Contents \cup {None} /\ arch[wk.kind].file \in Contents \cup {None}
      BY <1>0, <2>1 DEF Typed, Archive
    <2>3. ASSUME NEW f \in Contents \cup {None}, arch' = [arch EXCEPT ![wk.kind].file = f] PROVE Archives(f)
      BY <1>0, <2>1, <2>3, ArchiveWrites DEF Archives
    <2>4. ASSUME NEW f \in Contents \cup {None},
                 arch' = [arch EXCEPT ![wk.kind] = [@ EXCEPT !.file = f, !.status = "failed"]]
          PROVE  Archives(f)
      BY <1>0, <2>1, <2>4, ArchiveWrites DEF Archives
    <2>5. CASE arch' = [arch EXCEPT ![wk.kind].file = vol] /\ Goto("record") /\ UNCHANGED fails
      BY <1>1, <1>2, <2>2, <2>3, <2>5
    <2>6. ASSUME MayFail, NEW file \in {arch[wk.kind].file, vol},
                 IF job[wk.kind].attempts < BackupAttempts
                 THEN wk' = IdleWorker /\ arch' = [arch EXCEPT ![wk.kind].file = file]
                 ELSE /\ arch' = [arch EXCEPT ![wk.kind] = [@ EXCEPT !.file = file, !.status = "failed"]]
                      /\ Failed("finish")
          PROVE  /\ FailedCall /\ (Archives(vol) \/ Archives(arch[wk.kind].file))
                 /\ wk' = IdleWorker \/ Moved("finish", TRUE)
      <3>1. CASE job[wk.kind].attempts < BackupAttempts BY <1>2, <2>2, <2>3, <2>6, <3>1
      <3>2. CASE ~(job[wk.kind].attempts < BackupAttempts) BY <1>1, <1>2, <2>2, <2>4, <2>6, <3>2
      <3> QED BY <3>1, <3>2
    <2> QED BY <1>7, <2>5, <2>6 DEF UpdateArchive
  <1>8. ASSUME UpdateRecord
        PROVE  /\ Archives(arch[wk.kind].file) /\ arch'[wk.kind].sha = arch[wk.kind].file
               /\ \/ /\ wk' \in WorkerState /\ wk'.pc = (IF WasRunning THEN "stopping" ELSE "version") /\ wk'.kind = wk.kind
                     /\ wk'.failed = wk.failed /\ wk'.previous = srv.version
                     /\ UNCHANGED fails
                  \/ FailedStatement /\ Moved("finish", TRUE)
    <2>1. wk.kind \in Jobs BY <1>3, <1>8 DEF UpdateRecord
    <2>2. Archives(arch[wk.kind].file) /\ arch'[wk.kind].sha = arch[wk.kind].file
      BY <1>0, <1>8, <2>1, ArchiveWrites DEF UpdateRecord, Archives
    <2>3. ASSUME wk' = [wk EXCEPT !.pc = IF WasRunning THEN "stopping" ELSE "version", !.previous = srv.version]
          PROVE  /\ wk' \in WorkerState /\ wk'.pc = (IF WasRunning THEN "stopping" ELSE "version") /\ wk'.kind = wk.kind
                 /\ wk'.failed = wk.failed /\ wk'.previous = srv.version
      <3> DEFINE next == IF WasRunning THEN "stopping" ELSE "version"
                 v == srv.version
      <3>1. wk' = [wk EXCEPT !.pc = next, !.previous = v] BY <2>3
      <3>2. next \in WorkerPcs /\ v \in Versions /\ wk \in WorkerState BY <1>0 DEF Typed, ServerRow, WorkerPcs
      <3> HIDE DEF next, v
      <3>3. wk' \in WorkerState /\ wk'.pc = next /\ wk'.kind = wk.kind /\ wk'.failed = wk.failed /\ wk'.previous = v
        BY <3>1, <3>2 DEF WorkerState
      <3> QED BY <3>3 DEF next, v
    <2> QED BY <1>1, <1>2, <1>8, <2>2, <2>3 DEF UpdateRecord
  <1>9. ASSUME UpdateStop
        PROVE  \/ TurnedOff /\ UNCHANGED fails /\ Moved("version", wk.failed)
               \/ MaybeOff /\ FailedCall /\ Moved("finish", TRUE)
    <2>1. PICK ok \in BOOLEAN : Power("stop", ok) /\ IF ok THEN Goto("version") ELSE Failed("finish")
      BY <1>9 DEF UpdateStop
    <2>2. (ok = TRUE /\ TurnedOff /\ UNCHANGED fails) \/ (ok = FALSE /\ MaybeOff /\ FailedCall) BY <1>0, <2>1, PowerDoes
    <2> QED BY <1>1, <1>2, <2>1, <2>2
  <1>10. ASSUME UpdateVersion
        PROVE  \/ /\ RowVersion("new") /\ UNCHANGED fails
                  /\ Moved(IF job[wk.kind].installer THEN "install" ELSE "reconfigure", wk.failed)
               \/ /\ FailedStatement /\ (RowVersion("new") \/ UNCHANGED srv)
                  /\ (WasRunning /\ Moved("return", TRUE)) \/ Moved("finish", TRUE) \/ Moved("revert", TRUE)
    <2>1. srv' = [srv EXCEPT !.version = "new"] => RowVersion("new") BY <1>4 DEF Versions
    <2>2. CASE /\ srv' = [srv EXCEPT !.version = "new"]
               /\ Goto(IF job[wk.kind].installer THEN "install" ELSE "reconfigure") /\ UNCHANGED fails
      BY <1>1, <1>2, <2>1, <2>2
    <2>3. CASE /\ StoreFails
               /\ \/ /\ srv' \in {srv, [srv EXCEPT !.version = "new"]}
                     /\ Failed(IF WasRunning THEN "return" ELSE "finish")
                  \/ srv' = [srv EXCEPT !.version = "new"] /\ Failed("revert")
      <3>1. FailedStatement /\ (RowVersion("new") \/ UNCHANGED srv) BY <1>2, <2>1, <2>3
      <3>2. (WasRunning /\ Moved("return", TRUE)) \/ Moved("finish", TRUE) \/ Moved("revert", TRUE) BY <1>1, <1>2, <2>3
      <3> QED BY <3>1, <3>2
    <2> QED BY <1>10, <2>2, <2>3 DEF UpdateVersion
  <1>11. ASSUME UpdateReturn
        PROVE  Moved("finish", wk.failed) /\ ((TurnedOn /\ UNCHANGED fails) \/ (SameContainer /\ FailedCall))
    <2>1. PICK ok \in BOOLEAN : Power("start", ok) BY <1>11 DEF UpdateReturn
    <2>2. (TurnedOn /\ UNCHANGED fails) \/ (SameContainer /\ FailedCall) BY <1>0, <2>1, PowerDoes
    <2> QED BY <1>1, <1>2, <1>11, <2>2 DEF UpdateReturn
  <1>12. ASSUME UpdateRestart
        PROVE  Moved("finish", wk.failed) /\ ((TurnedOn /\ UNCHANGED fails) \/ (SameContainer /\ FailedCall))
    <2>1. PICK ok \in BOOLEAN : Power("start", ok) BY <1>12 DEF UpdateRestart
    <2>2. (TurnedOn /\ UNCHANGED fails) \/ (SameContainer /\ FailedCall) BY <1>0, <2>1, PowerDoes
    <2> QED BY <1>1, <1>2, <1>12, <2>2 DEF UpdateRestart
  <1>13. ASSUME UpdateInstall
        PROVE  \/ vol' = "installed" /\ UNCHANGED fails /\ Moved("reconfigure", wk.failed)
               \/ /\ vol' \in {vol, "installed", "damaged"} /\ (Refused \/ FailedCall \/ FailedStatement)
                  /\ Moved("revert", TRUE)
    <2>1. Interrupted \subseteq {vol, "installed", "damaged"} BY DEF Interrupted
    <2> QED BY <1>1, <1>2, <1>13, <2>1 DEF UpdateInstall, Refused
  <1>14. ASSUME UpdateReconfigure
        PROVE  \/ /\ Replaced("new") /\ UNCHANGED fails
                  /\ Moved(IF WasRunning THEN "start" ELSE "finish", wk.failed)
               \/ UNCHANGED cont /\ (Refused \/ FailedCall \/ FailedStatement) /\ Moved("revert", TRUE)
    <2>1. Reconfigure("new", TRUE) => Replaced("new") /\ UNCHANGED fails BY <1>5 DEF Versions
    <2>2. Reconfigure("new", FALSE) => UNCHANGED cont /\ (Refused \/ FailedCall) BY <1>5 DEF Versions
    <2> QED BY <1>1, <1>2, <1>14, <2>1, <2>2 DEF UpdateReconfigure
  <1>15. ASSUME UpdateRevert
        PROVE  /\ Moved(IF wk.kind = "reinstall" THEN "files" ELSE "runtime", wk.failed)
               /\ (RowVersion("old") /\ UNCHANGED fails) \/ (FailedStatement /\ UNCHANGED srv)
    <2>1. srv' = [srv EXCEPT !.version = "old"] => RowVersion("old") BY <1>4 DEF Versions
    <2> QED BY <1>1, <1>2, <1>15, <2>1 DEF UpdateRevert
  <1>16. ASSUME UpdateFiles
        PROVE  EngineCalled /\ Moved("filesWait", wk.failed)
    <2>1. wk.kind \in Jobs BY <1>3, <1>16 DEF UpdateFiles
    <2>2. EngineCalled BY <1>16, <2>1, EngineStarts DEF UpdateFiles
    <2>3. Goto("filesWait") BY <1>16 DEF UpdateFiles
    <2> QED BY <1>1, <1>2, <2>2, <2>3
  <1>17. ASSUME UpdateFilesAnswered
        PROVE  eng' = NoEngine /\ Moved("runtime", wk.failed)
    BY <1>1, <1>2, <1>17 DEF UpdateFilesAnswered
  <1>18. ASSUME UpdateRuntime
        PROVE  /\ Moved(IF WasRunning THEN "restart" ELSE "finish", wk.failed)
               /\ (Replaced(wk.previous) /\ UNCHANGED fails) \/ (UNCHANGED cont /\ (Refused \/ FailedCall))
    <2>1. PICK ok \in BOOLEAN : Reconfigure(wk.previous, ok) BY <1>18 DEF UpdateRuntime
    <2>2. wk.previous \in Versions BY <1>0 DEF Typed, WorkerState
    <2>3. (Replaced(wk.previous) /\ UNCHANGED fails) \/ (UNCHANGED cont /\ (Refused \/ FailedCall))
      BY <1>5, <2>1, <2>2
    <2>4. Goto(IF WasRunning THEN "restart" ELSE "finish") BY <1>18 DEF UpdateRuntime
    <2> QED BY <1>1, <1>2, <2>3, <2>4
  <1> QED BY <1>6, <1>7, <1>8, <1>9, <1>10, <1>11, <1>12, <1>13, <1>14, <1>15, <1>16, <1>17, <1>18

\* Steps of the engine's restore.
LEMMA EngineSteps ==
  ASSUME TypeInv
  PROVE
    /\ EngineVerify =>
         \/ ~eng.cancelled /\ ~Running(cont.state) /\ Verified /\ EngineAt("save", eng.failed) /\ UNCHANGED fails
         \/ /\ EngineAt("error", eng.failed)
            /\ ((UNCHANGED fails /\ (eng.cancelled \/ Running(cont.state) \/ ~Verified)) \/ FailedCall)
    /\ EngineSave =>
         \/ ~eng.cancelled /\ safety' = vol /\ EngineAt("clear", eng.failed) /\ UNCHANGED fails
         \/ UNCHANGED safety /\ EngineAt("error", eng.failed) /\ ((UNCHANGED fails /\ eng.cancelled) \/ FailedCall)
    /\ EngineClear =>
         \/ ~eng.cancelled /\ vol' = "damaged" /\ EngineAt("copy", eng.failed) /\ UNCHANGED fails
         \/ /\ vol' \in {vol, "damaged"} /\ EngineAt("undoClear", eng.failed)
            /\ ((UNCHANGED fails /\ eng.cancelled) \/ FailedCall)
    /\ EngineCopy =>
         \/ ~eng.cancelled /\ vol' \in Extracted(arch[eng.kind].file) /\ EngineAt("remove", eng.failed) /\ UNCHANGED fails
         \/ UNCHANGED vol /\ EngineAt("undoClear", eng.failed) /\ ((UNCHANGED fails /\ eng.cancelled) \/ FailedCall)
    /\ EngineUndoClear =>
         \/ vol' = "damaged" /\ EngineAt("undoCopy", TRUE) /\ UNCHANGED fails
         \/ vol' \in {vol, "damaged"} /\ EngineAt("remove", TRUE) /\ FailedCall
    /\ EngineUndoCopy =>
         EngineAt("remove", eng.failed) /\ ((vol' \in Extracted(safety) /\ UNCHANGED fails) \/ (UNCHANGED vol /\ FailedCall))
    /\ EngineRemove =>
         safety' = None /\ EngineAt(IF eng.failed THEN "error" ELSE "ok", eng.failed)
  <1>0. Typed /\ Stages BY DEF TypeInv
  <1>1. {"save", "clear", "copy", "undoClear", "undoCopy", "remove", "ok", "error"} \subseteq EnginePcs BY DEF EnginePcs
  <1>2. /\ \A pc \in EnginePcs : eng' = [eng EXCEPT !.pc = pc] => EngineAt(pc, eng.failed)
        /\ \A pc \in EnginePcs : eng' = [eng EXCEPT !.pc = pc, !.failed = TRUE] => EngineAt(pc, TRUE)
    <2>1. ASSUME NEW pc \in EnginePcs, eng' = [eng EXCEPT !.pc = pc] PROVE EngineAt(pc, eng.failed)
      BY <1>0, <2>1 DEF EngineAt, EngineState, Typed
    <2>2. ASSUME NEW pc \in EnginePcs, eng' = [eng EXCEPT !.pc = pc, !.failed = TRUE] PROVE EngineAt(pc, TRUE)
      BY <1>0, <2>2 DEF EngineAt, EngineState, Typed
    <2> QED BY <2>1, <2>2
  <1>3. /\ MayFail => FailedCall
        /\ \A reason : Fails(reason) => (reason /\ UNCHANGED fails) \/ FailedCall
    BY <1>0, Moves
  <1>4. ASSUME EngineVerify
        PROVE  \/ ~eng.cancelled /\ ~Running(cont.state) /\ Verified /\ EngineAt("save", eng.failed) /\ UNCHANGED fails
               \/ /\ EngineAt("error", eng.failed)
                  /\ ((UNCHANGED fails /\ (eng.cancelled \/ Running(cont.state) \/ ~Verified)) \/ FailedCall)
    BY <1>1, <1>2, <1>3, <1>4 DEF EngineVerify
  <1>5. ASSUME EngineSave
        PROVE  \/ ~eng.cancelled /\ safety' = vol /\ EngineAt("clear", eng.failed) /\ UNCHANGED fails
               \/ UNCHANGED safety /\ EngineAt("error", eng.failed) /\ ((UNCHANGED fails /\ eng.cancelled) \/ FailedCall)
    BY <1>1, <1>2, <1>3, <1>5 DEF EngineSave
  <1>6. ASSUME EngineClear
        PROVE  \/ ~eng.cancelled /\ vol' = "damaged" /\ EngineAt("copy", eng.failed) /\ UNCHANGED fails
               \/ /\ vol' \in {vol, "damaged"} /\ EngineAt("undoClear", eng.failed)
                  /\ ((UNCHANGED fails /\ eng.cancelled) \/ FailedCall)
    BY <1>1, <1>2, <1>3, <1>6 DEF EngineClear
  <1>7. ASSUME EngineCopy
        PROVE  \/ ~eng.cancelled /\ vol' \in Extracted(arch[eng.kind].file) /\ EngineAt("remove", eng.failed) /\ UNCHANGED fails
               \/ UNCHANGED vol /\ EngineAt("undoClear", eng.failed) /\ ((UNCHANGED fails /\ eng.cancelled) \/ FailedCall)
    BY <1>1, <1>2, <1>3, <1>7 DEF EngineCopy
  <1>8. ASSUME EngineUndoClear
        PROVE  \/ vol' = "damaged" /\ EngineAt("undoCopy", TRUE) /\ UNCHANGED fails
               \/ vol' \in {vol, "damaged"} /\ EngineAt("remove", TRUE) /\ FailedCall
    BY <1>1, <1>2, <1>3, <1>8 DEF EngineUndoClear
  <1>9. ASSUME EngineUndoCopy
        PROVE  EngineAt("remove", eng.failed) /\ ((vol' \in Extracted(safety) /\ UNCHANGED fails) \/ (UNCHANGED vol /\ FailedCall))
    BY <1>1, <1>2, <1>3, <1>9 DEF EngineUndoCopy
  <1>10. ASSUME EngineRemove
        PROVE  safety' = None /\ EngineAt(IF eng.failed THEN "error" ELSE "ok", eng.failed)
    BY <1>1, <1>2, <1>3, <1>10 DEF EngineRemove
  <1> QED BY <1>4, <1>5, <1>6, <1>7, <1>8, <1>9, <1>10

-----------------------------------------------------------------------------
(* Every step keeps the types.                                             *)

\* Steps of the handlers keep the types.
LEMMA HandlerTyped ==
  ASSUME TypeInv, Handler
  PROVE  TypeInv'
  <1>0. Typed /\ Stages BY DEF TypeInv
  <1>1. IdleWorker \in WorkerState /\ IdleWorker.pc = "idle" /\ NoEngine \in EngineState /\ NoEngine.pc = "idle"
    BY <1>0, WorkerMoves, EngineMoves
  <1>2. CASE RestoreBegin
    <2>1. Typed' BY <1>0, <1>1, <1>2, RestoreSteps DEF Typed, RestoreBegin, Moved, OpBecomes, SameRest, SameJob
    <2>2. Stages' BY <1>0, <1>1, <1>2, RestoreSteps DEF Stages, UpdatePcs, RestoreBegin, Moved, OpBecomes, SameRest, SameJob
    <2> QED BY <2>1, <2>2 DEF TypeInv
  <1>3. CASE RestoreStop
    <2>1. Typed' BY <1>0, <1>1, <1>3, RestoreSteps DEF Typed, RestoreStop, Moved, TurnedOff, MaybeOff, SameContainer, FailedCall
    <2>2. Stages' BY <1>0, <1>1, <1>3, RestoreSteps DEF Stages, UpdatePcs, RestoreStop, Moved, TurnedOff, MaybeOff, SameContainer, FailedCall
    <2> QED BY <2>1, <2>2 DEF TypeInv
  <1>4. CASE RestoreCall
    <2>1. /\ wk.pc = "call" /\ UNCHANGED <<srv, cont, vol, arch, safety, job, stray, req, crashes>>
          /\ \/ EngineCalled /\ UNCHANGED fails /\ Moved("wait", wk.failed)
             \/ UNCHANGED eng /\ FailedStatement /\ Moved(AfterRestore, TRUE)
      BY <1>4, RestoreSteps DEF RestoreCall
    <2>2. Typed' BY <1>0, <2>1 DEF Typed, EngineCalled, FailedStatement, Moved
    <2>3. wk.kind = "restore" /\ wk.kind \in Jobs /\ arch[wk.kind].file \in Contents
      BY <1>0, <2>1 DEF Stages, Contents
    <2>4. Stages' BY <1>0, <2>1, <2>3 DEF Stages, UpdatePcs, Moved, EngineCalled, AfterRestore
    <2> QED BY <2>2, <2>4 DEF TypeInv
  <1>5. CASE RestoreAnswered
    <2>1. Typed' BY <1>0, <1>1, <1>5, RestoreSteps DEF Typed, RestoreAnswered, Moved, AfterRestore
    <2>2. Stages' BY <1>0, <1>1, <1>5, RestoreSteps DEF Stages, UpdatePcs, RestoreAnswered, Moved, AfterRestore
    <2> QED BY <2>1, <2>2 DEF TypeInv
  <1>6. CASE RestoreLost
    <2>1. Typed' BY <1>0, <1>1, <1>6, RestoreSteps DEF Typed, RestoreLost, Moved, FailedCall, AfterRestore
    <2>2. Stages' BY <1>0, <1>1, <1>6, RestoreSteps DEF Stages, UpdatePcs, RestoreLost, Moved, FailedCall, AfterRestore
    <2> QED BY <2>1, <2>2 DEF TypeInv
  <1>7. CASE StartAgain
    <2>1. Typed' BY <1>0, <1>1, <1>7, RestoreSteps DEF Typed, StartAgain, Moved, TurnedOn, SameContainer, FailedCall
    <2>2. Stages' BY <1>0, <1>1, <1>7, RestoreSteps DEF Stages, UpdatePcs, StartAgain, Moved, TurnedOn, SameContainer, FailedCall
    <2> QED BY <2>1, <2>2 DEF TypeInv
  <1>8. CASE Finish
    <2>0. srv' \in ServerRow
      <3>1. \A d \in {"running", "stopped"}, st \in {"starting", "stopped"} :
               [srv EXCEPT !.desired = d, !.status = st] \in ServerRow
        BY <1>0 DEF Typed, ServerRow
      <3> QED BY <1>8, <3>1 DEF Finish
    <2>1. Typed' BY <1>0, <1>1, <1>8, <2>0, RestoreSteps DEF Typed, Finish, Moved, OpBecomes
    <2>2. Stages' BY <1>0, <1>1, <1>8, RestoreSteps DEF Stages, UpdatePcs, Finish, Moved, OpBecomes, SameRest, SameJob
    <2> QED BY <2>1, <2>2 DEF TypeInv
  <1>9. CASE Ack
    <2>1. Typed' BY <1>0, <1>1, <1>9, RestoreSteps DEF Typed, Ack, SameRest, SameJob
    <2>2. Stages' BY <1>0, <1>1, <1>9, RestoreSteps DEF Stages, UpdatePcs, Ack, SameRest, SameJob
    <2> QED BY <2>1, <2>2 DEF TypeInv
  <1>10. CASE UpdateBegin
    <2>1. Typed' BY <1>0, <1>1, <1>10, UpdateSteps DEF Typed, UpdateBegin, Moved, OpBecomes, SameRest, SameJob
    <2>2. Stages' BY <1>0, <1>1, <1>10, UpdateSteps DEF Stages, UpdatePcs, UpdateBegin, Moved, OpBecomes, SameRest, SameJob
    <2> QED BY <2>1, <2>2 DEF TypeInv
  <1>11. CASE UpdateArchive
    <2>1. Typed' BY <1>0, <1>1, <1>11, UpdateSteps DEF Typed, UpdateArchive, Moved, Archives, FailedCall
    <2>2. wk.kind \in Jobs /\ wk.kind # "restore" /\ vol \in Contents BY <1>0, <1>11 DEF Stages, UpdatePcs, UpdateArchive, Typed
    <2>3. /\ arch'[wk.kind].file \in {vol, arch[wk.kind].file}
          /\ \A j \in Jobs : j # wk.kind => arch'[j] = arch[j]
          /\ wk'.pc \in UpdatePcs => wk'.pc = "record" /\ arch'[wk.kind].file = vol
      BY <1>1, <1>11, <2>2, UpdateSteps DEF Archives, Moved, UpdatePcs
    <2>4. wk' = IdleWorker \/ (wk'.pc \in {"record", "finish"} /\ wk'.kind = wk.kind)
      BY <1>11, UpdateSteps DEF Moved
    <2>5. \A j \in Jobs : arch[j].file \in Contents => arch'[j].file \in Contents BY <2>2, <2>3
    <2>6. Stages' BY <1>0, <1>1, <1>11, <2>2, <2>3, <2>4, <2>5 DEF Stages, UpdatePcs, UpdateArchive
    <2> QED BY <2>1, <2>6 DEF TypeInv
  <1>12. CASE UpdateRecord
    <2>1. Typed' BY <1>0, <1>1, <1>12, UpdateSteps DEF Typed, UpdateRecord, Moved, Archives, FailedStatement
    <2>2. Stages' BY <1>0, <1>1, <1>12, UpdateSteps DEF Stages, UpdatePcs, UpdateRecord, Moved, Archives, FailedStatement
    <2> QED BY <2>1, <2>2 DEF TypeInv
  <1>13. CASE UpdateStop
    <2>1. Typed' BY <1>0, <1>1, <1>13, UpdateSteps DEF Typed, UpdateStop, Moved, TurnedOff, MaybeOff, SameContainer, FailedCall
    <2>2. Stages' BY <1>0, <1>1, <1>13, UpdateSteps DEF Stages, UpdatePcs, UpdateStop, Moved, TurnedOff, MaybeOff, SameContainer, FailedCall
    <2> QED BY <2>1, <2>2 DEF TypeInv
  <1>14. CASE UpdateVersion
    <2>1. Typed' BY <1>0, <1>1, <1>14, UpdateSteps DEF Typed, UpdateVersion, Moved, RowVersion, FailedStatement
    <2>2. Stages' BY <1>0, <1>1, <1>14, UpdateSteps DEF Stages, UpdatePcs, UpdateVersion, Moved, RowVersion, FailedStatement
    <2> QED BY <2>1, <2>2 DEF TypeInv
  <1>15. CASE UpdateReturn
    <2>1. Typed' BY <1>0, <1>1, <1>15, UpdateSteps DEF Typed, UpdateReturn, Moved, TurnedOn, SameContainer, FailedCall
    <2>2. Stages' BY <1>0, <1>1, <1>15, UpdateSteps DEF Stages, UpdatePcs, UpdateReturn, Moved, TurnedOn, SameContainer, FailedCall
    <2> QED BY <2>1, <2>2 DEF TypeInv
  <1>16. CASE UpdateInstall
    <2>1. Typed' BY <1>0, <1>1, <1>16, UpdateSteps DEF Typed, UpdateInstall, Contents, Moved, Refused, FailedCall, FailedStatement
    <2>2. Stages' BY <1>0, <1>1, <1>16, UpdateSteps DEF Stages, UpdatePcs, UpdateInstall, Moved, Refused, FailedCall, FailedStatement
    <2> QED BY <2>1, <2>2 DEF TypeInv
  <1>17. CASE UpdateReconfigure
    <2>1. Typed' BY <1>0, <1>1, <1>17, UpdateSteps DEF Typed, UpdateReconfigure, Moved, Replaced, Refused, FailedCall, FailedStatement
    <2>2. Stages' BY <1>0, <1>1, <1>17, UpdateSteps DEF Stages, UpdatePcs, UpdateReconfigure, Moved, Replaced, Refused, FailedCall, FailedStatement
    <2> QED BY <2>1, <2>2 DEF TypeInv
  <1>18. CASE UpdateRevert
    <2>1. Typed' BY <1>0, <1>1, <1>18, UpdateSteps DEF Typed, UpdateRevert, Moved, RowVersion, FailedStatement
    <2>2. Stages' BY <1>0, <1>1, <1>18, UpdateSteps DEF Stages, UpdatePcs, UpdateRevert, Moved, RowVersion, FailedStatement
    <2> QED BY <2>1, <2>2 DEF TypeInv
  <1>19. CASE UpdateFiles
    <2>1. Typed' BY <1>0, <1>1, <1>19, UpdateSteps DEF Typed, UpdateFiles, Moved, EngineCalled
    <2>2. Stages' BY <1>0, <1>1, <1>19, UpdateSteps DEF Stages, UpdatePcs, UpdateFiles, Moved, EngineCalled
    <2> QED BY <2>1, <2>2 DEF TypeInv
  <1>20. CASE UpdateFilesAnswered
    <2>1. Typed' BY <1>0, <1>1, <1>20, UpdateSteps DEF Typed, UpdateFilesAnswered, Moved
    <2>2. Stages' BY <1>0, <1>1, <1>20, UpdateSteps DEF Stages, UpdatePcs, UpdateFilesAnswered, Moved
    <2> QED BY <2>1, <2>2 DEF TypeInv
  <1>21. CASE UpdateRuntime
    <2>1. Typed' BY <1>0, <1>1, <1>21, UpdateSteps DEF Typed, UpdateRuntime, Moved, Replaced, Refused, FailedCall
    <2>2. Stages' BY <1>0, <1>1, <1>21, UpdateSteps DEF Stages, UpdatePcs, UpdateRuntime, Moved, Replaced, Refused, FailedCall
    <2> QED BY <2>1, <2>2 DEF TypeInv
  <1>22. CASE UpdateRestart
    <2>1. Typed' BY <1>0, <1>1, <1>22, UpdateSteps DEF Typed, UpdateRestart, Moved, TurnedOn, SameContainer, FailedCall
    <2>2. Stages' BY <1>0, <1>1, <1>22, UpdateSteps DEF Stages, UpdatePcs, UpdateRestart, Moved, TurnedOn, SameContainer, FailedCall
    <2> QED BY <2>1, <2>2 DEF TypeInv
  <1> QED BY <1>2, <1>3, <1>4, <1>5, <1>6, <1>7, <1>8, <1>9, <1>10, <1>11, <1>12, <1>13, <1>14, <1>15, <1>16, <1>17, <1>18, <1>19, <1>20, <1>21, <1>22 DEF Handler, FinishBackupRestore, FinishTemplateUpdate

\* Steps of the engine keep the types.
LEMMA EngineTyped ==
  ASSUME TypeInv, Engine
  PROVE  TypeInv'
  <1>0. Typed /\ Stages BY DEF TypeInv
  <1>1. NoEngine \in EngineState /\ NoEngine.pc = "idle" BY <1>0, EngineMoves
  <1>2. {"damaged"} \subseteq Contents BY DEF Contents
  <1>3. CASE EngineVerify
    <2>1. Typed' BY <1>0, <1>2, <1>3, EngineSteps DEF Typed, Stages, EngineVerify, EngineAt, FailedCall
    <2>2. Stages' BY <1>0, <1>2, <1>3, EngineSteps DEF Typed, Stages, UpdatePcs, EngineVerify, EngineAt, FailedCall
    <2> QED BY <2>1, <2>2 DEF TypeInv
  <1>4. CASE EngineSave
    <2>1. Typed' BY <1>0, <1>2, <1>4, EngineSteps DEF Typed, Stages, EngineSave, EngineAt, FailedCall
    <2>2. Stages' BY <1>0, <1>2, <1>4, EngineSteps DEF Typed, Stages, UpdatePcs, EngineSave, EngineAt, FailedCall
    <2> QED BY <2>1, <2>2 DEF TypeInv
  <1>5. CASE EngineClear
    <2>1. Typed' BY <1>0, <1>2, <1>5, EngineSteps DEF Typed, Stages, EngineClear, EngineAt, FailedCall
    <2>2. Stages' BY <1>0, <1>2, <1>5, EngineSteps DEF Typed, Stages, UpdatePcs, EngineClear, EngineAt, FailedCall
    <2> QED BY <2>1, <2>2 DEF TypeInv
  <1>6. CASE EngineCopy
    <2>1. Typed' BY <1>0, <1>2, <1>6, EngineSteps DEF Typed, Stages, EngineCopy, Extracted, EngineAt, FailedCall
    <2>2. Stages' BY <1>0, <1>2, <1>6, EngineSteps DEF Typed, Stages, UpdatePcs, EngineCopy, Extracted, EngineAt, FailedCall
    <2> QED BY <2>1, <2>2 DEF TypeInv
  <1>7. CASE EngineUndoClear
    <2>1. Typed' BY <1>0, <1>2, <1>7, EngineSteps DEF Typed, Stages, EngineUndoClear, EngineAt, FailedCall
    <2>2. Stages' BY <1>0, <1>2, <1>7, EngineSteps DEF Typed, Stages, UpdatePcs, EngineUndoClear, EngineAt, FailedCall
    <2> QED BY <2>1, <2>2 DEF TypeInv
  <1>8. CASE EngineUndoCopy
    <2>1. Typed' BY <1>0, <1>2, <1>8, EngineSteps DEF Typed, Stages, EngineUndoCopy, Extracted, EngineAt, FailedCall
    <2>2. Stages' BY <1>0, <1>2, <1>8, EngineSteps DEF Typed, Stages, UpdatePcs, EngineUndoCopy, Extracted, EngineAt, FailedCall
    <2> QED BY <2>1, <2>2 DEF TypeInv
  <1>9. CASE EngineRemove
    <2>1. Typed' BY <1>0, <1>2, <1>9, EngineSteps DEF Typed, Stages, EngineRemove, EngineAt
    <2>2. Stages' BY <1>0, <1>2, <1>9, EngineSteps DEF Typed, Stages, UpdatePcs, EngineRemove, EngineAt
    <2> QED BY <2>1, <2>2 DEF TypeInv
  <1>10. CASE EngineDrops
    <2>1. Typed' BY <1>0, <1>1, <1>10 DEF Typed, EngineDrops
    <2>2. Stages' BY <1>0, <1>1, <1>10 DEF Stages, UpdatePcs, EngineDrops
    <2> QED BY <2>1, <2>2 DEF TypeInv
  <1> QED BY <1>3, <1>4, <1>5, <1>6, <1>7, <1>8, <1>9, <1>10 DEF Engine

\* A crash keeps the types: the worker forgets, the engine loses its caller.
LEMMA CrashTyped ==
  ASSUME TypeInv, Crash
  PROVE  TypeInv'
  <1>0. Typed /\ Stages BY DEF TypeInv
  <1>1. IdleWorker \in WorkerState /\ IdleWorker.pc = "idle" /\ NoEngine \in EngineState /\ NoEngine.pc = "idle"
    BY <1>0, WorkerMoves, EngineMoves
  <1>2. vol' \in Contents
    <2>1. vol' \in {vol, "installed", "damaged"} BY DEF Crash, Interrupted
    <2> QED BY <1>0, <2>1 DEF Typed, Contents
  <1>3. crashes' \in 0 .. MaxCrashes BY <1>0, WorkflowAssumption DEF Crash, Typed
  <1>4. \/ eng' = NoEngine
        \/ UNCHANGED eng
        \/ /\ eng.pc # "idle" /\ eng' \in EngineState /\ eng'.pc = eng.pc /\ eng'.kind = eng.kind
           /\ eng'.failed = eng.failed /\ eng'.cancelled = TRUE
    <2>1. /\ [eng EXCEPT !.cancelled = TRUE].pc = eng.pc /\ [eng EXCEPT !.cancelled = TRUE].kind = eng.kind
          /\ [eng EXCEPT !.cancelled = TRUE].failed = eng.failed /\ [eng EXCEPT !.cancelled = TRUE].cancelled = TRUE
          /\ [eng EXCEPT !.cancelled = TRUE] \in EngineState
      BY <1>0, EngineMoves
    <2>2. CASE eng' = [eng EXCEPT !.cancelled = TRUE] /\ eng.pc # "idle" BY <2>1, <2>2
    <2> QED BY <2>2 DEF Crash
  <1>5. wk' = IdleWorker /\ UNCHANGED <<srv, cont, arch, safety, job, stray, req, fails>> BY DEF Crash
  <1>6. Typed' BY <1>0, <1>1, <1>2, <1>3, <1>4, <1>5 DEF Typed
  <1>7. Stages' BY <1>0, <1>1, <1>4, <1>5 DEF Stages, UpdatePcs
  <1> QED BY <1>6, <1>7 DEF TypeInv

\* A claim keeps the types.
LEMMA ClaimTyped ==
  ASSUME TypeInv, NEW k \in Jobs, Claim(k)
  PROVE  TypeInv' /\ wk'.pc = "begin" /\ wk'.kind = k /\ wk'.failed = FALSE /\ wk'.previous = "old"
  <1>0. Typed /\ Stages BY DEF TypeInv
  <1>1. wk' \in WorkerState /\ wk'.pc = "begin" /\ wk'.kind = k /\ wk'.failed = FALSE /\ wk'.previous = "old"
    <2>1. wk' = [IdleWorker EXCEPT !.pc = "begin", !.kind = k] BY DEF Claim, Take
    <2>2. /\ [IdleWorker EXCEPT !.pc = "begin", !.kind = k].pc = "begin"
          /\ [IdleWorker EXCEPT !.pc = "begin", !.kind = k].kind = k
          /\ [IdleWorker EXCEPT !.pc = "begin", !.kind = k].failed = FALSE
          /\ [IdleWorker EXCEPT !.pc = "begin", !.kind = k].previous = "old"
          /\ [IdleWorker EXCEPT !.pc = "begin", !.kind = k] \in WorkerState
      BY <1>0, WorkerMoves
    <2> QED BY <2>1, <2>2
  <1>2. /\ job' \in [Jobs -> Job] /\ job'[k].op = job[k].op /\ job'[k].event = job[k].event /\ SameJob(k)
        /\ \A j \in Jobs \ {k} : job'[j] = job[j]
    BY <1>0, JobWrites
  <1>3. /\ job[k].event /\ wk.pc = "idle" /\ UNCHANGED <<srv, cont, vol, arch, req, fails, crashes>>
        /\ eng' = NoEngine /\ safety' = None
        /\ stray' = IF eng.pc = "idle" THEN stray ELSE Append(stray, [pc |-> eng.pc, safety |-> safety])
    BY DEF Claim, Take
  <1>4. job[k].event \in BOOLEAN BY <1>0 DEF Typed, Job
  <1>5. \A j \in Jobs : /\ job'[j].op = job[j].op /\ job'[j].event = job[j].event
                        /\ job'[j].installer = job[j].installer
    BY <1>2 DEF SameJob
  <1>6. NoEngine \in EngineState /\ NoEngine.pc = "idle" BY <1>0, EngineMoves
  <1> DEFINE call == [pc |-> eng.pc, safety |-> safety]
  <1>7. /\ stray \in Seq(StrayCall) /\ call \in StrayCall
        /\ call.pc \in {"clear", "copy", "undoClear", "undoCopy"} => call.safety \in Contents
    BY <1>0 DEF Typed, EngineState, StrayCall, Stages
  <1>8. stray' = stray \/ stray' = Append(stray, call) BY <1>3
  <1> HIDE DEF call
  <1>9. /\ stray' \in Seq(StrayCall)
        /\ \A i \in DOMAIN stray' : (i \in DOMAIN stray /\ stray'[i] = stray[i]) \/ stray'[i] = call
    BY <1>7, <1>8
  <1>10. Typed' BY <1>0, <1>1, <1>2, <1>3, <1>6, <1>9 DEF Typed
  <1>11. Stages' BY <1>0, <1>1, <1>3, <1>4, <1>5, <1>6, <1>7, <1>9 DEF Stages, UpdatePcs
  <1> QED BY <1>1, <1>10, <1>11 DEF TypeInv

\* A retry only forgets, but for the operation that may have begun.
LEMMA RetryDoes ==
  ASSUME TypeInv, Retry
  PROVE  /\ wk.pc # "idle" /\ wk' = IdleWorker /\ wk'.pc = "idle" /\ wk.kind \in Jobs /\ FailedStatement
         /\ UNCHANGED <<srv, cont, vol, arch, safety, eng, stray, req, crashes>>
         /\ UNCHANGED job \/ (job[wk.kind].op # "none" /\ OpBecomes("running"))
  <1>0. Typed /\ Stages BY DEF TypeInv
  <1>1. wk.pc # "idle" /\ wk.kind \in Jobs /\ job[wk.kind].op # "none" BY <1>0 DEF Retry, Stages
  <1>2. wk' = IdleWorker /\ FailedStatement BY <1>0, Moves DEF Retry
  <1>3. IdleWorker.pc = "idle" BY DEF IdleWorker
  <1>4. \/ job' = job
        \/ job' = [job EXCEPT ![wk.kind].op = "running"]
        \/ job' = [job EXCEPT ![wk.kind].op = job[wk.kind].op]
    BY DEF Retry
  <1>5. job \in [Jobs -> Job] /\ job[wk.kind] \in Job BY <1>0, <1>1 DEF Typed
  <1>6. job' = [job EXCEPT ![wk.kind].op = job[wk.kind].op] => job' = job
    <2>1. [job[wk.kind] EXCEPT !.op = job[wk.kind].op] = job[wk.kind] BY <1>5 DEF Job
    <2> QED BY <1>1, <1>5, <2>1
  <1>7. job' = [job EXCEPT ![wk.kind].op = "running"] => OpBecomes("running")
    BY <1>0, <1>1, JobWrites DEF OpBecomes
  <1>8. UNCHANGED <<srv, cont, vol, arch, safety, eng, stray, req, crashes>> BY DEF Retry
  <1> QED BY <1>1, <1>2, <1>3, <1>4, <1>6, <1>7, <1>8

\* A retry keeps the types.
LEMMA RetryTyped ==
  ASSUME TypeInv, Retry
  PROVE  TypeInv'
  <1>0. Typed /\ Stages BY DEF TypeInv
  <1>1. IdleWorker \in WorkerState /\ IdleWorker.pc = "idle" BY <1>0, WorkerMoves
  <1>2. Typed' BY <1>0, <1>1, RetryDoes DEF Typed, FailedStatement, OpBecomes
  <1>3. Stages' BY <1>0, <1>1, RetryDoes DEF Stages, UpdatePcs, OpBecomes, SameRest, SameJob
  <1> QED BY <1>2, <1>3 DEF TypeInv

\* A stray touches the volume and nothing else that the worker or its call have.
LEMMA StrayDoes ==
  ASSUME TypeInv, NEW i \in DOMAIN stray, Stray(i)
  PROVE  /\ stray[i].pc # "idle" /\ stray # <<>> /\ stray' # <<>> /\ TypeInv'
         /\ UNCHANGED <<srv, cont, arch, safety, job, wk, eng, req, crashes>>
         /\ UNCHANGED fails \/ FailedCall
  <1>0. Typed /\ Stages /\ stray \in Seq(StrayCall) /\ stray[i] \in StrayCall BY DEF TypeInv, Typed
  <1>1. stray[i].pc # "idle" BY DEF Stray
  <1>2. stray # <<>> OBVIOUS
  <1>3. UNCHANGED <<srv, cont, arch, safety, job, wk, eng, req, crashes>> BY DEF Stray
  <1>4. MayFail => FailedCall BY <1>0, Moves
  <1>5. UNCHANGED fails \/ FailedCall BY <1>4 DEF Stray
  <1>6. PICK pc \in {"idle", "undoClear", "undoCopy"} :
          StrayAt(i, pc) /\ (pc # "idle" => stray[i].pc \in {"clear", "copy", "undoClear"})
    BY DEF Stray
  <1> DEFINE call == [pc |-> pc, safety |-> IF pc = "idle" THEN None ELSE stray[i].safety]
  <1>7. stray' = [stray EXCEPT ![i] = call] BY <1>6 DEF StrayAt
  <1>8. /\ call \in StrayCall
        /\ call.pc \in {"clear", "copy", "undoClear", "undoCopy"} => call.safety \in Contents
    BY <1>0, <1>6 DEF StrayCall, EnginePcs, Stages
  <1> HIDE DEF call
  <1>9. /\ stray' \in Seq(StrayCall) /\ DOMAIN stray' = DOMAIN stray
        /\ \A j \in DOMAIN stray : stray'[j] = IF j = i THEN call ELSE stray[j]
    BY <1>0, <1>7, <1>8
  <1>10. stray' # <<>> BY <1>9
  <1>11. vol' \in Contents
    <2>1. vol \in Contents /\ "damaged" \in Contents BY <1>0 DEF Typed, Contents
    <2>2. stray[i].pc = "undoCopy" => stray[i].safety \in Contents BY <1>0 DEF Stages
    <2> QED BY <2>1, <2>2 DEF Stray, Extracted
  <1>12. Typed' BY <1>0, <1>3, <1>5, <1>9, <1>11 DEF Typed, FailedCall
  <1>13. Stages' BY <1>0, <1>3, <1>8, <1>9 DEF Stages, UpdatePcs
  <1> QED BY <1>1, <1>2, <1>3, <1>5, <1>10, <1>12, <1>13 DEF TypeInv

\* The types are an invariant of every step.
LEMMA NextTyped ==
  ASSUME TypeInv, [Next]_vars
  PROVE  TypeInv'
  <1>1. CASE UNCHANGED vars BY <1>1 DEF vars, TypeInv, Typed, Stages
  <1>2. CASE Next BY <1>2, OutsideTyped, ClaimTyped, HandlerTyped, CrashTyped, EngineTyped, RetryTyped, StrayDoes DEF Next
  <1> QED BY <1>1, <1>2

\* Every state of the workflows is well typed: whatever fails, crashes or is
\* redelivered, a handler works on a job that exists and was accepted, and the
\* engine restores only from an archive that has been written.
THEOREM WorkflowTyped == Spec => [](TypeOK /\ Stages)
  <1>1. Init => TypeInv BY InitTyped
  <1>2. TypeInv /\ [Next]_vars => TypeInv' BY NextTyped
  <1>3. TypeInv => TypeOK /\ Stages BY TypedIsTypeOK DEF TypeInv
  <1> QED BY <1>1, <1>2, <1>3, PTL DEF Spec

-----------------------------------------------------------------------------
(* Return to service.                                                      *)

FailingPcs == {"return", "revert", "files", "filesWait", "runtime", "restart"}

\* Only a server that was running is stopped or started again, and a rollback
\* does not end in success.
Serving ==
  /\ wk.pc \in {"stop", "start", "stopping", "return", "restart"} => WasRunning = TRUE
  /\ wk.pc \in FailingPcs => wk.failed = TRUE

\* A server that was down when the first workflow was requested is down all along.
Down ==
  /\ ~Running(cont.state) /\ srv.desired = "stopped" /\ srv.status = "stopped"
  /\ \A k \in Jobs : job[k].was = FALSE

\* One that was up is to be up whenever no workflow is active, and is when one succeeds.
Up ==
  /\ \A k \in Jobs : job[k].op # "none" => job[k].was = TRUE
  /\ (\A k \in Jobs : job[k].op \notin Active) => srv.desired = "running"
  /\ wk.pc = "finish" /\ wk.failed = FALSE => Running(cont.state)
  /\ wk.pc = "ack" /\ job[wk.kind].op = "succeeded" => Running(cont.state)

ServiceInv == Down \/ Up

\* Only the three steps of a power request write it.
LEMMA RequestsKept ==
  ASSUME [Next]_vars,
         ~\E r \in Reqs : (\E a \in Actions : RequestPower(r, a)) \/ CallPower(r) \/ FinishPower(r)
  PROVE  UNCHANGED req
  <1>1. QueueBackupRestore => UNCHANGED req BY DEF QueueBackupRestore, Accept
  <1>2. ASSUME NEW k \in Jobs, (\E i \in BOOLEAN : QueueTemplateUpdate(k, i)) \/ Claim(k) PROVE UNCHANGED req
    BY <1>2 DEF QueueTemplateUpdate, Accept, Claim, Take
  <1>3. ObserveStatus \/ Retry \/ Crash \/ (\E i \in DOMAIN stray : Stray(i)) \/ UNCHANGED vars => UNCHANGED req
    BY DEF ObserveStatus, Retry, Crash, Stray, vars
  <1>4. Handler => UNCHANGED req
    BY DEF Handler, RestoreBegin, RestoreStop, RestoreCall, RestoreAnswered, RestoreLost, StartAgain, UpdateBegin,
       UpdateArchive, UpdateRecord, UpdateStop, UpdateVersion, UpdateReturn, UpdateInstall, UpdateReconfigure,
       UpdateRevert, UpdateFiles, UpdateFilesAnswered, UpdateRuntime, UpdateRestart, FinishBackupRestore,
       FinishTemplateUpdate, Finish, Ack
  <1>5. Engine => UNCHANGED req
    BY DEF Engine, EngineVerify, EngineSave, EngineClear, EngineCopy, EngineUndoClear, EngineUndoCopy, EngineRemove,
       EngineDrops
  <1> QED BY <1>1, <1>2, <1>3, <1>4, <1>5 DEF Next

\* Requests are made for good.
LEMMA StaysQuiet ==
  ASSUME TypeInv, [Next]_vars, Quiet'
  PROVE  Quiet /\ ~\E r \in Reqs : (\E a \in Actions : RequestPower(r, a)) \/ CallPower(r) \/ FinishPower(r)
  <1>0. req \in [Reqs -> PowerRequest] BY DEF TypeInv, Typed
  <1>1. ASSUME NEW r \in Reqs, (\E a \in Actions : RequestPower(r, a)) \/ CallPower(r) \/ FinishPower(r)
        PROVE  FALSE
    <2>1. ASSUME NEW a \in Actions, RequestPower(r, a) PROVE FALSE
      <3>1. req'[r] = [phase |-> "call", action |-> a] BY <1>0, <2>1 DEF RequestPower
      <3> QED BY <3>1 DEF Quiet
    <2>2. req[r] \in PowerRequest BY <1>0
    <2>3. CASE CallPower(r)
      <3>1. PICK ok \in BOOLEAN : req' = [req EXCEPT ![r].phase = IF ok THEN "ok" ELSE "error"] BY <2>3 DEF CallPower
      <3>2. req'[r] = [req[r] EXCEPT !.phase = IF ok THEN "ok" ELSE "error"] BY <1>0, <3>1
      <3>3. req'[r].phase = IF ok THEN "ok" ELSE "error" BY <2>2, <3>2 DEF PowerRequest
      <3> QED BY <3>3 DEF Quiet
    <2>4. CASE FinishPower(r)
      <3>1. req'[r] = [req[r] EXCEPT !.phase = "done"] BY <1>0, <2>4 DEF FinishPower
      <3>2. req'[r].phase = "done" BY <2>2, <3>1 DEF PowerRequest
      <3> QED BY <3>2 DEF Quiet
    <2> QED BY <1>1, <2>1, <2>3, <2>4
  <1>2. UNCHANGED req BY <1>1, RequestsKept
  <1> QED BY <1>1, <1>2 DEF Quiet

\* The handlers keep Serving.
LEMMA HandlerServing ==
  ASSUME TypeInv, Serving, Handler
  PROVE  Serving'
  <1>0. /\ Typed /\ Stages /\ Serving
        /\ \A k \in Jobs : job[k].was \in BOOLEAN
    BY DEF TypeInv, Typed, Job
  <1>1. wk.pc # "idle" => wk.kind \in Jobs /\ WasRunning \in BOOLEAN /\ wk.failed \in BOOLEAN
    BY <1>0 DEF Stages, WasRunning, Typed, WorkerState
  <1>2. IdleWorker.pc = "idle" BY DEF IdleWorker
  <1>3. CASE RestoreBegin
    BY <1>0, <1>1, <1>2, <1>3, RestoreSteps DEF Serving, FailingPcs, WasRunning, RestoreBegin, Moved, OpBecomes, SameRest, SameJob
  <1>4. CASE RestoreStop
    BY <1>0, <1>1, <1>2, <1>4, RestoreSteps DEF Serving, FailingPcs, WasRunning, RestoreStop, Moved, TurnedOff, MaybeOff, SameContainer
  <1>5. CASE RestoreAnswered
    BY <1>0, <1>1, <1>2, <1>5, RestoreSteps DEF Serving, FailingPcs, WasRunning, RestoreAnswered, Moved, AfterRestore
  <1>6. CASE RestoreLost
    BY <1>0, <1>1, <1>2, <1>6, RestoreSteps DEF Serving, FailingPcs, WasRunning, RestoreLost, Moved, AfterRestore
  <1>7. CASE StartAgain
    BY <1>0, <1>1, <1>2, <1>7, RestoreSteps DEF Serving, FailingPcs, WasRunning, StartAgain, Moved, TurnedOn, SameContainer
  <1>8. CASE Finish
    BY <1>0, <1>1, <1>2, <1>8, RestoreSteps DEF Serving, FailingPcs, WasRunning, Finish, Moved, OpBecomes, SameRest, SameJob
  <1>9. CASE Ack
    BY <1>0, <1>1, <1>2, <1>9, RestoreSteps DEF Serving, FailingPcs, WasRunning, Ack, SameRest, SameJob
  <1>10. CASE UpdateBegin
    BY <1>0, <1>1, <1>2, <1>10, UpdateSteps DEF Serving, FailingPcs, WasRunning, UpdateBegin, Moved, OpBecomes, SameRest, SameJob
  <1>11. CASE UpdateArchive
    BY <1>0, <1>1, <1>2, <1>11, UpdateSteps DEF Serving, FailingPcs, WasRunning, UpdateArchive, Moved
  <1>12. CASE UpdateRecord
    BY <1>0, <1>1, <1>2, <1>12, UpdateSteps DEF Serving, FailingPcs, WasRunning, UpdateRecord, Moved
  <1>13. CASE UpdateStop
    BY <1>0, <1>1, <1>2, <1>13, UpdateSteps DEF Serving, FailingPcs, WasRunning, UpdateStop, Moved, TurnedOff, MaybeOff, SameContainer
  <1>14. CASE UpdateVersion
    BY <1>0, <1>1, <1>2, <1>14, UpdateSteps DEF Serving, FailingPcs, WasRunning, UpdateVersion, Moved, RowVersion
  <1>15. CASE UpdateReturn
    BY <1>0, <1>1, <1>2, <1>15, UpdateSteps DEF Serving, FailingPcs, WasRunning, UpdateReturn, Moved, TurnedOn, SameContainer
  <1>16. CASE UpdateInstall
    BY <1>0, <1>1, <1>2, <1>16, UpdateSteps DEF Serving, FailingPcs, WasRunning, UpdateInstall, Moved
  <1>17. CASE UpdateReconfigure
    BY <1>0, <1>1, <1>2, <1>17, UpdateSteps DEF Serving, FailingPcs, WasRunning, UpdateReconfigure, Moved, Replaced
  <1>18. CASE UpdateRevert
    BY <1>0, <1>1, <1>2, <1>18, UpdateSteps DEF Serving, FailingPcs, WasRunning, UpdateRevert, Moved, RowVersion
  <1>19. CASE UpdateFilesAnswered
    BY <1>0, <1>1, <1>2, <1>19, UpdateSteps DEF Serving, FailingPcs, WasRunning, UpdateFilesAnswered, Moved
  <1>20. CASE UpdateRuntime
    BY <1>0, <1>1, <1>2, <1>20, UpdateSteps DEF Serving, FailingPcs, WasRunning, UpdateRuntime, Moved, Replaced
  <1>21. CASE UpdateRestart
    BY <1>0, <1>1, <1>2, <1>21, UpdateSteps DEF Serving, FailingPcs, WasRunning, UpdateRestart, Moved, TurnedOn, SameContainer
  <1>22. CASE RestoreCall
    <2>1. /\ wk.pc = "call" /\ UNCHANGED <<srv, cont, job>>
          /\ (Moved("wait", wk.failed) \/ Moved(AfterRestore, TRUE))
      BY <1>22, RestoreSteps DEF RestoreCall
    <2> QED BY <1>0, <1>1, <2>1 DEF Serving, FailingPcs, WasRunning, Moved, AfterRestore
  <1>23. CASE UpdateFiles
    <2>1. wk.pc = "files" /\ UNCHANGED <<srv, cont, job>> /\ Moved("filesWait", wk.failed)
      BY <1>23, UpdateSteps DEF UpdateFiles
    <2> QED BY <1>0, <1>1, <2>1 DEF Serving, FailingPcs, WasRunning, Moved, AfterRestore
  <1> QED BY <1>3, <1>4, <1>5, <1>6, <1>7, <1>8, <1>9, <1>10, <1>11, <1>12, <1>13, <1>14, <1>15, <1>16, <1>17, <1>18, <1>19, <1>20, <1>21, <1>22, <1>23 DEF Handler, FinishBackupRestore, FinishTemplateUpdate

\* Every step keeps Serving.
LEMMA NextServing ==
  ASSUME TypeInv, Serving, [Next]_vars
  PROVE  Serving'
  <1>0. Typed /\ Stages BY DEF TypeInv
  <1>1. ASSUME NEW k \in Jobs, NEW i \in BOOLEAN, Accept(k, i) PROVE Serving'
    <2>1. \A j \in Jobs \ {k} : job'[j] = job[j] BY <1>0, <1>1, JobWrites
    <2>2. job[k].op = "none" /\ UNCHANGED wk BY <1>1 DEF Accept
    <2>3. wk.pc # "idle" => wk.kind \in Jobs \ {k} BY <1>0, <2>2 DEF Stages
    <2> QED BY <2>1, <2>2, <2>3 DEF Serving, FailingPcs, WasRunning
  <1>2. ASSUME NEW k \in Jobs, (\E i \in BOOLEAN : QueueTemplateUpdate(k, i)) \/ Claim(k) PROVE Serving'
    <2>1. CASE Claim(k)
      <3>1. wk'.pc = "begin" BY <2>1, ClaimTyped
      <3> QED BY <3>1 DEF Serving, FailingPcs
    <2> QED BY <1>1, <1>2, <2>1 DEF QueueTemplateUpdate
  <1>3. CASE Crash \/ Retry
    <2>1. wk'.pc = "idle" BY <1>3, RetryDoes DEF Crash, IdleWorker
    <2> QED BY <2>1 DEF Serving, FailingPcs
  <1>4. ASSUME UNCHANGED <<wk, job>> PROVE Serving' BY <1>4 DEF Serving, WasRunning
  <1>5. Engine => UNCHANGED <<wk, job>>
    BY DEF Engine, EngineVerify, EngineSave, EngineClear, EngineCopy, EngineUndoClear, EngineUndoCopy, EngineRemove,
       EngineDrops
  <1>6. ASSUME NEW r \in Reqs, (\E a \in Actions : RequestPower(r, a)) \/ CallPower(r) \/ FinishPower(r)
        PROVE  UNCHANGED <<wk, job>>
    BY <1>6 DEF RequestPower, CallPower, FinishPower
  <1>7. ObserveStatus \/ (\E i \in DOMAIN stray : Stray(i)) \/ UNCHANGED vars => UNCHANGED <<wk, job>>
    BY DEF ObserveStatus, Stray, vars
  <1>8. QueueBackupRestore => Serving' BY <1>1 DEF QueueBackupRestore
  <1> QED BY <1>2, <1>3, <1>4, <1>5, <1>6, <1>7, <1>8, HandlerServing DEF Next

\* The handlers keep ServiceInv.
LEMMA HandlerServes ==
  ASSUME TypeInv, Serving, ServiceInv, Handler
  PROVE  ServiceInv'
  <1>0. /\ Typed /\ Stages /\ Serving
        /\ \A k \in Jobs : job[k].was \in BOOLEAN
    BY DEF TypeInv, Typed, Job
  <1>1. wk.pc # "idle" => /\ wk.kind \in Jobs /\ job[wk.kind].op # "none"
                          /\ WasRunning \in BOOLEAN /\ wk.failed \in BOOLEAN
                          /\ Up => WasRunning = TRUE
                          /\ Down => WasRunning = FALSE
    BY <1>0 DEF Stages, Up, Down, WasRunning, Typed, WorkerState
  <1>2. IdleWorker.pc = "idle" BY DEF IdleWorker
  <1>3. CASE RestoreBegin
    <2>1. Down => Down' BY <1>0, <1>1, <1>2, <1>3, RestoreSteps DEF Serving, Down, WasRunning, RestoreBegin, Moved, OpBecomes, SameRest, SameJob
    <2>2. Up => Up' BY <1>0, <1>1, <1>2, <1>3, RestoreSteps DEF Serving, FailingPcs, Up, Active, WasRunning, RestoreBegin, Moved, OpBecomes, SameRest, SameJob
    <2> QED BY <2>1, <2>2 DEF ServiceInv
  <1>4. CASE RestoreStop
    <2>1. Down => Down' BY <1>0, <1>1, <1>2, <1>4, RestoreSteps DEF Serving, Down, WasRunning, RestoreStop, Moved, TurnedOff, MaybeOff, SameContainer
    <2>2. Up => Up' BY <1>0, <1>1, <1>2, <1>4, RestoreSteps DEF Serving, FailingPcs, Up, Active, WasRunning, RestoreStop, Moved, TurnedOff, MaybeOff, SameContainer
    <2> QED BY <2>1, <2>2 DEF ServiceInv
  <1>5. CASE RestoreAnswered
    <2>1. Down => Down' BY <1>0, <1>1, <1>2, <1>5, RestoreSteps DEF Serving, Down, WasRunning, RestoreAnswered, Moved, AfterRestore
    <2>2. Up => Up' BY <1>0, <1>1, <1>2, <1>5, RestoreSteps DEF Serving, FailingPcs, Up, Active, WasRunning, RestoreAnswered, Moved, AfterRestore
    <2> QED BY <2>1, <2>2 DEF ServiceInv
  <1>6. CASE RestoreLost
    <2>1. Down => Down' BY <1>0, <1>1, <1>2, <1>6, RestoreSteps DEF Serving, Down, WasRunning, RestoreLost, Moved, AfterRestore
    <2>2. Up => Up' BY <1>0, <1>1, <1>2, <1>6, RestoreSteps DEF Serving, FailingPcs, Up, Active, WasRunning, RestoreLost, Moved, AfterRestore
    <2> QED BY <2>1, <2>2 DEF ServiceInv
  <1>7. CASE StartAgain
    <2>1. Down => Down' BY <1>0, <1>1, <1>2, <1>7, RestoreSteps DEF Serving, Down, WasRunning, StartAgain, Moved, TurnedOn, SameContainer
    <2>2. Up => Up' BY <1>0, <1>1, <1>2, <1>7, RestoreSteps DEF Serving, FailingPcs, Up, Active, WasRunning, StartAgain, Moved, TurnedOn, SameContainer
    <2> QED BY <2>1, <2>2 DEF ServiceInv
  <1>8. CASE Finish
    <2>1. Down => Down' BY <1>0, <1>1, <1>2, <1>8, RestoreSteps DEF Serving, Down, WasRunning, Finish, Moved, OpBecomes, SameRest, SameJob
    <2>2. Up => Up' BY <1>0, <1>1, <1>2, <1>8, RestoreSteps DEF Serving, FailingPcs, Up, Active, WasRunning, Finish, Moved, OpBecomes, SameRest, SameJob
    <2> QED BY <2>1, <2>2 DEF ServiceInv
  <1>9. CASE Ack
    <2>1. Down => Down' BY <1>0, <1>1, <1>2, <1>9, RestoreSteps DEF Serving, Down, WasRunning, Ack, SameRest, SameJob
    <2>2. Up => Up' BY <1>0, <1>1, <1>2, <1>9, RestoreSteps DEF Serving, FailingPcs, Up, Active, WasRunning, Ack, SameRest, SameJob
    <2> QED BY <2>1, <2>2 DEF ServiceInv
  <1>10. CASE UpdateBegin
    <2>1. Down => Down' BY <1>0, <1>1, <1>2, <1>10, UpdateSteps DEF Serving, Down, WasRunning, UpdateBegin, Moved, OpBecomes, SameRest, SameJob
    <2>2. Up => Up' BY <1>0, <1>1, <1>2, <1>10, UpdateSteps DEF Serving, FailingPcs, Up, Active, WasRunning, UpdateBegin, Moved, OpBecomes, SameRest, SameJob
    <2> QED BY <2>1, <2>2 DEF ServiceInv
  <1>11. CASE UpdateArchive
    <2>1. Down => Down' BY <1>0, <1>1, <1>2, <1>11, UpdateSteps DEF Serving, Down, WasRunning, UpdateArchive, Moved
    <2>2. Up => Up' BY <1>0, <1>1, <1>2, <1>11, UpdateSteps DEF Serving, FailingPcs, Up, Active, WasRunning, UpdateArchive, Moved
    <2> QED BY <2>1, <2>2 DEF ServiceInv
  <1>12. CASE UpdateRecord
    <2>1. Down => Down' BY <1>0, <1>1, <1>2, <1>12, UpdateSteps DEF Serving, Down, WasRunning, UpdateRecord, Moved
    <2>2. Up => Up' BY <1>0, <1>1, <1>2, <1>12, UpdateSteps DEF Serving, FailingPcs, Up, Active, WasRunning, UpdateRecord, Moved
    <2> QED BY <2>1, <2>2 DEF ServiceInv
  <1>13. CASE UpdateStop
    <2>1. Down => Down' BY <1>0, <1>1, <1>2, <1>13, UpdateSteps DEF Serving, Down, WasRunning, UpdateStop, Moved, TurnedOff, MaybeOff, SameContainer
    <2>2. Up => Up' BY <1>0, <1>1, <1>2, <1>13, UpdateSteps DEF Serving, FailingPcs, Up, Active, WasRunning, UpdateStop, Moved, TurnedOff, MaybeOff, SameContainer
    <2> QED BY <2>1, <2>2 DEF ServiceInv
  <1>14. CASE UpdateVersion
    <2>1. Down => Down' BY <1>0, <1>1, <1>2, <1>14, UpdateSteps DEF Serving, Down, WasRunning, UpdateVersion, Moved, RowVersion
    <2>2. Up => Up' BY <1>0, <1>1, <1>2, <1>14, UpdateSteps DEF Serving, FailingPcs, Up, Active, WasRunning, UpdateVersion, Moved, RowVersion
    <2> QED BY <2>1, <2>2 DEF ServiceInv
  <1>15. CASE UpdateReturn
    <2>1. Down => Down' BY <1>0, <1>1, <1>2, <1>15, UpdateSteps DEF Serving, Down, WasRunning, UpdateReturn, Moved, TurnedOn, SameContainer
    <2>2. Up => Up' BY <1>0, <1>1, <1>2, <1>15, UpdateSteps DEF Serving, FailingPcs, Up, Active, WasRunning, UpdateReturn, Moved, TurnedOn, SameContainer
    <2> QED BY <2>1, <2>2 DEF ServiceInv
  <1>16. CASE UpdateInstall
    <2>1. Down => Down' BY <1>0, <1>1, <1>2, <1>16, UpdateSteps DEF Serving, Down, WasRunning, UpdateInstall, Moved
    <2>2. Up => Up' BY <1>0, <1>1, <1>2, <1>16, UpdateSteps DEF Serving, FailingPcs, Up, Active, WasRunning, UpdateInstall, Moved
    <2> QED BY <2>1, <2>2 DEF ServiceInv
  <1>17. CASE UpdateReconfigure
    <2>1. Down => Down' BY <1>0, <1>1, <1>2, <1>17, UpdateSteps DEF Serving, Down, WasRunning, UpdateReconfigure, Moved, Replaced
    <2>2. Up => Up' BY <1>0, <1>1, <1>2, <1>17, UpdateSteps DEF Serving, FailingPcs, Up, Active, WasRunning, UpdateReconfigure, Moved, Replaced
    <2> QED BY <2>1, <2>2 DEF ServiceInv
  <1>18. CASE UpdateRevert
    <2>1. Down => Down' BY <1>0, <1>1, <1>2, <1>18, UpdateSteps DEF Serving, Down, WasRunning, UpdateRevert, Moved, RowVersion
    <2>2. Up => Up' BY <1>0, <1>1, <1>2, <1>18, UpdateSteps DEF Serving, FailingPcs, Up, Active, WasRunning, UpdateRevert, Moved, RowVersion
    <2> QED BY <2>1, <2>2 DEF ServiceInv
  <1>19. CASE UpdateFilesAnswered
    <2>1. Down => Down' BY <1>0, <1>1, <1>2, <1>19, UpdateSteps DEF Serving, Down, WasRunning, UpdateFilesAnswered, Moved
    <2>2. Up => Up' BY <1>0, <1>1, <1>2, <1>19, UpdateSteps DEF Serving, FailingPcs, Up, Active, WasRunning, UpdateFilesAnswered, Moved
    <2> QED BY <2>1, <2>2 DEF ServiceInv
  <1>20. CASE UpdateRuntime
    <2>1. Down => Down' BY <1>0, <1>1, <1>2, <1>20, UpdateSteps DEF Serving, Down, WasRunning, UpdateRuntime, Moved, Replaced
    <2>2. Up => Up' BY <1>0, <1>1, <1>2, <1>20, UpdateSteps DEF Serving, FailingPcs, Up, Active, WasRunning, UpdateRuntime, Moved, Replaced
    <2> QED BY <2>1, <2>2 DEF ServiceInv
  <1>21. CASE UpdateRestart
    <2>1. Down => Down' BY <1>0, <1>1, <1>2, <1>21, UpdateSteps DEF Serving, Down, WasRunning, UpdateRestart, Moved, TurnedOn, SameContainer
    <2>2. Up => Up' BY <1>0, <1>1, <1>2, <1>21, UpdateSteps DEF Serving, FailingPcs, Up, Active, WasRunning, UpdateRestart, Moved, TurnedOn, SameContainer
    <2> QED BY <2>1, <2>2 DEF ServiceInv
  <1>22. CASE RestoreCall
    <2>1. /\ wk.pc = "call" /\ UNCHANGED <<srv, cont, job>>
          /\ (Moved("wait", wk.failed) \/ Moved(AfterRestore, TRUE))
      BY <1>22, RestoreSteps DEF RestoreCall
    <2>2. (Down => Down') /\ (Up => Up') BY <1>0, <1>1, <2>1 DEF Serving, Down, Up, WasRunning, Moved, AfterRestore
    <2> QED BY <2>2 DEF ServiceInv
  <1>23. CASE UpdateFiles
    <2>1. wk.pc = "files" /\ UNCHANGED <<srv, cont, job>> /\ Moved("filesWait", wk.failed)
      BY <1>23, UpdateSteps DEF UpdateFiles
    <2>2. (Down => Down') /\ (Up => Up') BY <1>0, <1>1, <2>1 DEF Serving, Down, Up, WasRunning, Moved, AfterRestore
    <2> QED BY <2>2 DEF ServiceInv
  <1> QED BY <1>3, <1>4, <1>5, <1>6, <1>7, <1>8, <1>9, <1>10, <1>11, <1>12, <1>13, <1>14, <1>15, <1>16, <1>17, <1>18, <1>19, <1>20, <1>21, <1>22, <1>23 DEF Handler, FinishBackupRestore, FinishTemplateUpdate

\* Every step that is not of a power request keeps ServiceInv.
LEMMA NextServes ==
  ASSUME TypeInv, Serving, ServiceInv, [Next]_vars, Quiet'
  PROVE  ServiceInv'
  <1>0. Typed /\ Stages /\ srv \in ServerRow /\ cont \in Container BY DEF TypeInv, Typed
  <1>1. ASSUME NEW k \in Jobs, NEW i \in BOOLEAN, Accept(k, i) PROVE ServiceInv'
    <2>1. /\ job'[k].op = "pending"
          /\ job'[k].was = (\/ srv.desired = "running"
                            \/ srv.status \in {"running", "starting", "restarting"})
          /\ \A j \in Jobs \ {k} : job'[j] = job[j]
      BY <1>0, <1>1, JobWrites
    <2>2. /\ job[k].op = "none" /\ UNCHANGED <<cont, wk>>
          /\ \A j \in Jobs : job[j].op \notin Active
      BY <1>1 DEF Accept, NothingActive
    <2>3. srv'.desired = "stopped" /\ (srv.status = "stopped" => srv'.status = "stopped")
      <3>1. srv' = [srv EXCEPT !.desired = "stopped", !.status = IF srv.status \in {"running", "starting", "restarting"}
                                                                 THEN "stopping" ELSE srv.status]
        BY <1>0, <1>1 DEF Accept, ServerRow
      <3> QED BY <1>0, <3>1 DEF ServerRow
    <2>4. wk.pc # "idle" => wk.kind \in Jobs \ {k} BY <1>0, <2>2 DEF Stages
    <2>6. Down => Down' BY <2>1, <2>2, <2>3 DEF Down
    <2>7. Up => Up' BY <2>1, <2>2, <2>4 DEF Up, Active
    <2> QED BY <2>6, <2>7 DEF ServiceInv
  <1>2. QueueBackupRestore => ServiceInv' BY <1>1 DEF QueueBackupRestore
  <1>3. ASSUME NEW k \in Jobs, NEW i \in BOOLEAN, QueueTemplateUpdate(k, i) PROVE ServiceInv'
    BY <1>1, <1>3 DEF QueueTemplateUpdate
  <1>4. ASSUME NEW k \in Jobs, Claim(k) PROVE ServiceInv'
    <2>1. wk'.pc = "begin" BY <1>4, ClaimTyped
    <2>2. \A j \in Jobs : job'[j].op = job[j].op /\ job'[j].was = job[j].was
      BY <1>0, <1>4, JobWrites DEF SameJob
    <2>3. UNCHANGED <<srv, cont>> BY <1>4 DEF Claim, Take
    <2>5. (Down => Down') /\ (Up => Up') BY <2>1, <2>2, <2>3 DEF Down, Up
    <2> QED BY <2>5 DEF ServiceInv
  <1>5. CASE ObserveStatus
    <2>1. srv'.desired = srv.desired
          /\ srv'.status = runtimeServerStatus(cont.state, srv.desired, srv.status)
      BY <1>0, <1>5 DEF ObserveStatus, ServerRow
    <2>2. UNCHANGED <<cont, job, wk>> BY <1>5 DEF ObserveStatus
    <2>3. Down => srv'.status = "stopped"
      BY <1>0, <2>1 DEF Down, Running, runtimeServerStatus, Container
    <2>5. (Down => Down') /\ (Up => Up') BY <2>1, <2>2, <2>3 DEF Down, Up
    <2> QED BY <2>5 DEF ServiceInv
  <1>6. CASE Crash
    <2>1. wk'.pc = "idle" /\ UNCHANGED <<srv, cont, job>> BY <1>6 DEF Crash, IdleWorker
    <2>2. (Down => Down') /\ (Up => Up') BY <2>1 DEF Down, Up
    <2> QED BY <2>2 DEF ServiceInv
  <1>7. CASE Engine \/ (\E i \in DOMAIN stray : Stray(i)) \/ UNCHANGED vars
    <2>1. UNCHANGED <<srv, cont, job, wk>>
      BY <1>7 DEF Engine, EngineVerify, EngineSave, EngineClear, EngineCopy, EngineUndoClear, EngineUndoCopy,
         EngineRemove, EngineDrops, Stray, vars
    <2> QED BY <2>1 DEF ServiceInv, Down, Up
  <1>9. CASE Retry
    <2>1. wk'.pc = "idle" /\ UNCHANGED <<srv, cont>> /\ wk.kind \in Jobs BY <1>9, RetryDoes
    <2>2. (Down => Down') /\ (Up => Up')
      BY <1>9, <2>1, RetryDoes DEF Down, Up, OpBecomes, SameRest, SameJob, Active
    <2> QED BY <2>2 DEF ServiceInv
  <1>8. ~\E r \in Reqs : (\E a \in Actions : RequestPower(r, a)) \/ CallPower(r) \/ FinishPower(r) BY StaysQuiet
  <1> QED BY <1>2, <1>3, <1>4, <1>5, <1>6, <1>7, <1>8, <1>9, HandlerServes DEF Next

\* As long as nobody makes a power request, a restore or template update that is
\* recorded as succeeded has left the server running exactly when it was running
\* before: through any number of failed calls, crashes and redeliveries.
THEOREM ReturnsToService == Spec => []ReturnedToService
  <1>1. Init => TypeInv /\ Serving /\ ServiceInv
    <2>1. Init => Serving BY DEF Init, Serving, FailingPcs, IdleWorker
    <2>2. ASSUME Init PROVE Down \/ Up
      <3>1. PICK started \in BOOLEAN :
              /\ srv = [status |-> IF started THEN "running" ELSE "stopped",
                        desired |-> IF started THEN "running" ELSE "stopped", version |-> "old"]
              /\ cont = [state |-> IF started THEN "running" ELSE "exited", version |-> "old"]
        BY <2>2 DEF Init
      <3>2. wk.pc = "idle" /\ \A k \in Jobs : job[k].op = "none" /\ job[k].was = FALSE BY <2>2 DEF Init, IdleWorker
      <3>3. CASE started BY <3>1, <3>2, <3>3 DEF Up
      <3>4. CASE ~started BY <3>1, <3>2, <3>4 DEF Down, Running
      <3> QED BY <3>3, <3>4
    <2> QED BY <2>1, <2>2, InitTyped DEF ServiceInv
  <1>2. /\ TypeInv /\ Serving /\ (Quiet => ServiceInv) /\ [Next]_vars
        => TypeInv' /\ Serving' /\ (Quiet => ServiceInv)'
    BY NextTyped, NextServing, NextServes, StaysQuiet
  <1>3. TypeInv /\ (Quiet => ServiceInv) => ReturnedToService
    BY DEF TypeInv, Stages, ServiceInv, Up, Down, ReturnedToService, Recorded, Outcome, WasRunning
  <1> QED BY <1>1, <1>2, <1>3, PTL DEF Spec

-----------------------------------------------------------------------------
(* The mandatory backup.                                                   *)

Live(k) == job[k].op \in Active

\* One workflow at a time is active, and it is the one that is delivered.
OneLive == \A j, k \in Jobs : Live(j) /\ Live(k) => j = k

Delivered ==
  /\ wk.pc \notin {"idle", "ack"} => Live(wk.kind)
  /\ wk.pc = "ack" => ~Live(wk.kind)
  /\ \A k \in Jobs : job[k].event = TRUE /\ ~Live(k) => wk.pc = "ack" /\ wk.kind = k
  /\ \A k \in Jobs : job[k].op = "none" => job[k].attempts = 0

\* The files are as the job found them, and nobody is changing them.
Before(k) == vol = job[k].before /\ eng.pc = "idle"
Secured(k) == arch[k].file = job[k].before

\* Until its backup is written an update leaves the files alone, in the worker
\* and between two deliveries; from then on the backup holds them.
Securing ==
  /\ wk.pc \notin {"wait", "filesWait", "start", "finish", "ack", "runtime", "restart", "idle"} => eng.pc = "idle"
  /\ \A k \in Jobs \ {"restore"} : Live(k) /\ job[k].attempts # 0 /\ wk.kind # k => Before(k)
  /\ Updating /\ wk.pc \in {"begin", "archive", "record", "stopping", "version", "return"} => Before(wk.kind)
  /\ Updating /\ wk.pc \notin {"idle", "begin", "archive", "finish", "ack"} => Secured(wk.kind)
  /\ Updating /\ wk.pc \in {"finish", "ack"} => Before(wk.kind) \/ Secured(wk.kind)

BackupInv == OneLive /\ Delivered /\ Securing

\* The same of an update that was not claimed once more with the files changed, nor
\* beside a call that the engine still serves: whatever fails, and after any crash.
SecuredInv ==
  Updating /\ job[wk.kind].again = FALSE =>
  /\ \A i \in DOMAIN stray : stray[i].pc = "idle"
  /\ wk.pc \in {"begin", "archive", "record", "stopping", "version", "return"} => Before(wk.kind)
  /\ wk.pc \notin {"idle", "begin", "archive", "finish", "ack"} => Secured(wk.kind)
  /\ wk.pc \in {"finish", "ack"} => Before(wk.kind) \/ Secured(wk.kind)

\* Every job is a restore or one of the two updates.
LEMMA Kinds ==
  ASSUME TypeInv
  PROVE  /\ \A k \in Jobs : k # "restore" <=> k \in {"rebase", "reinstall"}
         /\ wk.pc = "idle" => wk.kind = None
         /\ None \notin Jobs /\ None \notin {"restore", "rebase", "reinstall"}
  <1>1. Jobs \subseteq {"restore", "rebase", "reinstall"} /\ None \notin {"restore", "rebase", "reinstall"}
    BY WorkflowAssumption
  <1>2. wk.pc = "idle" => wk.kind = None BY DEF TypeInv, Stages, IdleWorker
  <1> QED BY <1>1, <1>2

\* The handlers keep SecuredInv and BackupInv.
LEMMA HandlerSecures ==
  ASSUME TypeInv, SecuredInv, Handler
  PROVE  SecuredInv' /\ (BackupInv => BackupInv')
  <1>0. Typed /\ Stages /\ SecuredInv /\ (BackupInv => OneLive /\ Delivered /\ Securing) BY DEF TypeInv, BackupInv
  <1>1. /\ \A k \in Jobs : k # "restore" <=> k \in {"rebase", "reinstall"}
        /\ None \notin Jobs /\ None \notin {"restore", "rebase", "reinstall"}
        /\ wk.pc # "idle" => wk.kind \in Jobs
    BY <1>0, Kinds DEF Stages
  <1>2. IdleWorker.pc = "idle" /\ IdleWorker.kind = None /\ NoEngine.pc = "idle" BY DEF IdleWorker, NoEngine
  <1>3. CASE RestoreBegin
    <2>1. /\ wk.pc = "begin" /\ wk.kind = "restore" /\ UNCHANGED <<vol, arch, eng, stray>> /\ wk'.kind = wk.kind
          /\ wk'.pc \in {"stop", "call"} /\ OpBecomes("running")
      BY <1>3, RestoreSteps DEF RestoreBegin, Moved
    <2>2. BackupInv => OneLive' /\ Delivered' BY <1>0, <1>1, <1>2, <2>1 DEF OneLive, Delivered, Live, Active, OpBecomes, SameRest, SameJob
    <2>3. BackupInv => Securing' BY <1>0, <1>1, <1>2, <2>1 DEF OneLive, Delivered, Securing, Live, Before, Secured, Updating, Stages, Active, UpdatePcs, OpBecomes, SameRest, SameJob
    <2>4. SecuredInv' BY <1>0, <1>1, <1>2, <2>1 DEF SecuredInv, Before, Secured, Updating, Stages, UpdatePcs, OpBecomes, SameRest, SameJob
    <2> QED BY <2>2, <2>3, <2>4 DEF BackupInv
  <1>4. CASE RestoreStop
    <2>1. wk.pc = "stop" /\ UNCHANGED <<vol, arch, job, eng, stray>> /\ wk'.kind = wk.kind /\ wk'.pc \in {"call", "start"}
      BY <1>4, RestoreSteps DEF RestoreStop, Moved
    <2>2. BackupInv => OneLive' /\ Delivered' BY <1>0, <1>1, <1>2, <2>1 DEF OneLive, Delivered, Live, Active
    <2>3. BackupInv => Securing' BY <1>0, <1>1, <1>2, <2>1 DEF OneLive, Delivered, Securing, Live, Before, Secured, Updating, Stages, Active, UpdatePcs
    <2>4. SecuredInv' BY <1>0, <1>1, <1>2, <2>1 DEF SecuredInv, Before, Secured, Updating, Stages, UpdatePcs
    <2> QED BY <2>2, <2>3, <2>4 DEF BackupInv
  <1>5. CASE RestoreCall
    <2>1. wk.pc = "call" /\ UNCHANGED <<vol, arch, job, stray>> /\ wk'.kind = wk.kind /\ (wk'.pc = "wait" \/ (UNCHANGED eng /\ wk'.pc \in {"start", "finish"}))
      BY <1>5, RestoreSteps DEF RestoreCall, Moved, AfterRestore
    <2>2. BackupInv => OneLive' /\ Delivered' BY <1>0, <1>1, <1>2, <2>1 DEF OneLive, Delivered, Live, Active
    <2>3. BackupInv => Securing' BY <1>0, <1>1, <1>2, <2>1 DEF OneLive, Delivered, Securing, Live, Before, Secured, Updating, Stages, Active, UpdatePcs
    <2>4. SecuredInv' BY <1>0, <1>1, <1>2, <2>1 DEF SecuredInv, Before, Secured, Updating, Stages, UpdatePcs
    <2> QED BY <2>2, <2>3, <2>4 DEF BackupInv
  <1>6. CASE RestoreAnswered
    <2>1. /\ wk.pc = "wait" /\ UNCHANGED <<vol, arch, job, stray>> /\ wk'.kind = wk.kind
          /\ wk'.pc \in {"start", "finish"} /\ eng'.pc = "idle"
      BY <1>2, <1>6, RestoreSteps DEF RestoreAnswered, Moved, AfterRestore
    <2>2. BackupInv => OneLive' /\ Delivered' BY <1>0, <1>1, <1>2, <2>1 DEF OneLive, Delivered, Live, Active
    <2>3. BackupInv => Securing' BY <1>0, <1>1, <1>2, <2>1 DEF OneLive, Delivered, Securing, Live, Before, Secured, Updating, Stages, Active, UpdatePcs
    <2>4. SecuredInv' BY <1>0, <1>1, <1>2, <2>1 DEF SecuredInv, Before, Secured, Updating, Stages, UpdatePcs
    <2> QED BY <2>2, <2>3, <2>4 DEF BackupInv
  <1>7. CASE RestoreLost
    <2>1. /\ wk.pc \in {"wait", "filesWait"} /\ UNCHANGED <<vol, arch, job, stray>> /\ wk'.kind = wk.kind
          /\ wk'.pc \in IF wk.pc = "wait" THEN {"start", "finish"} ELSE {"runtime"}
      BY <1>7, RestoreSteps DEF RestoreLost, Moved, AfterRestore
    <2>2. BackupInv => OneLive' /\ Delivered' BY <1>0, <1>1, <1>2, <2>1 DEF OneLive, Delivered, Live, Active
    <2>3. BackupInv => Securing' BY <1>0, <1>1, <1>2, <2>1 DEF OneLive, Delivered, Securing, Live, Before, Secured, Updating, Stages, Active, UpdatePcs
    <2>4. SecuredInv' BY <1>0, <1>1, <1>2, <2>1 DEF SecuredInv, Before, Secured, Updating, Stages, UpdatePcs
    <2> QED BY <2>2, <2>3, <2>4 DEF BackupInv
  <1>8. CASE StartAgain
    <2>1. wk.pc = "start" /\ UNCHANGED <<vol, arch, job, eng, stray>> /\ wk'.kind = wk.kind /\ wk'.pc = "finish"
      BY <1>8, RestoreSteps DEF StartAgain, Moved
    <2>2. BackupInv => OneLive' /\ Delivered' BY <1>0, <1>1, <1>2, <2>1 DEF OneLive, Delivered, Live, Active
    <2>3. BackupInv => Securing' BY <1>0, <1>1, <1>2, <2>1 DEF OneLive, Delivered, Securing, Live, Before, Secured, Updating, Stages, Active, UpdatePcs
    <2>4. SecuredInv' BY <1>0, <1>1, <1>2, <2>1 DEF SecuredInv, Before, Secured, Updating, Stages, UpdatePcs
    <2> QED BY <2>2, <2>3, <2>4 DEF BackupInv
  <1>9. CASE Finish
    <2>1. /\ wk.pc = "finish" /\ UNCHANGED <<vol, arch, eng, stray>> /\ wk'.kind = wk.kind /\ wk'.pc = "ack"
          /\ OpBecomes(IF wk.failed THEN "failed" ELSE "succeeded")
      BY <1>9, RestoreSteps DEF Finish, Moved
    <2>2. BackupInv => OneLive' /\ Delivered' BY <1>0, <1>1, <1>2, <2>1 DEF OneLive, Delivered, Live, Active, OpBecomes, SameRest, SameJob
    <2>3. BackupInv => Securing' BY <1>0, <1>1, <1>2, <2>1 DEF OneLive, Delivered, Securing, Live, Before, Secured, Updating, Stages, Active, UpdatePcs, OpBecomes, SameRest, SameJob
    <2>4. SecuredInv' BY <1>0, <1>1, <1>2, <2>1 DEF SecuredInv, Before, Secured, Updating, Stages, UpdatePcs, OpBecomes, SameRest, SameJob
    <2> QED BY <2>2, <2>3, <2>4 DEF BackupInv
  <1>10. CASE Ack
    <2>1. /\ wk.pc = "ack" /\ UNCHANGED <<vol, arch, eng, stray>> /\ wk' = IdleWorker
          /\ job'[wk.kind].op = job[wk.kind].op /\ job'[wk.kind].event = FALSE /\ SameRest(wk.kind)
      BY <1>10, RestoreSteps DEF Ack
    <2>2. BackupInv => OneLive' /\ Delivered' BY <1>0, <1>1, <1>2, <2>1 DEF OneLive, Delivered, Live, Active, OpBecomes, SameRest, SameJob
    <2>3. BackupInv => Securing' BY <1>0, <1>1, <1>2, <2>1 DEF OneLive, Delivered, Securing, Live, Before, Secured, Updating, Stages, Active, UpdatePcs, OpBecomes, SameRest, SameJob
    <2>4. SecuredInv' BY <1>0, <1>1, <1>2, <2>1 DEF SecuredInv, Before, Secured, Updating, Stages, UpdatePcs, OpBecomes, SameRest, SameJob
    <2> QED BY <2>2, <2>3, <2>4 DEF BackupInv
  <1>11. CASE UpdateBegin
    <2>1. /\ wk.pc = "begin" /\ UNCHANGED <<vol, eng, stray>> /\ wk'.kind = wk.kind /\ wk'.pc = "archive"
          /\ OpBecomes("running") /\ \A j \in Jobs : arch'[j].file = arch[j].file
      BY <1>11, UpdateSteps DEF UpdateBegin, Moved
    <2>2. BackupInv => OneLive' /\ Delivered' BY <1>0, <1>1, <1>2, <2>1 DEF OneLive, Delivered, Live, Active, OpBecomes, SameRest, SameJob
    <2>3. BackupInv => Securing' BY <1>0, <1>1, <1>2, <2>1 DEF OneLive, Delivered, Securing, Live, Before, Secured, Updating, Stages, Active, UpdatePcs, OpBecomes, SameRest, SameJob
    <2>4. SecuredInv' BY <1>0, <1>1, <1>2, <2>1 DEF SecuredInv, Before, Secured, Updating, Stages, UpdatePcs, OpBecomes, SameRest, SameJob
    <2> QED BY <2>2, <2>3, <2>4 DEF BackupInv
  <1>12. CASE UpdateArchive
    <2>1. /\ wk.pc = "archive" /\ UNCHANGED <<vol, job, eng, stray>>
          /\ \A j \in Jobs \ {wk.kind} : arch'[j].file = arch[j].file
          /\ \/ wk'.kind = wk.kind /\ wk'.pc = "record" /\ arch'[wk.kind].file = vol
             \/ wk' = IdleWorker
             \/ wk'.kind = wk.kind /\ wk'.pc = "finish"
      BY <1>1, <1>12, UpdateSteps DEF UpdateArchive, Moved, Archives
    <2>2. BackupInv => OneLive' /\ Delivered' BY <1>0, <1>1, <1>2, <2>1 DEF OneLive, Delivered, Live, Active
    <2>3. BackupInv => Securing' BY <1>0, <1>1, <1>2, <2>1 DEF OneLive, Delivered, Securing, Live, Before, Secured, Updating, Stages, Active, UpdatePcs
    <2>4. SecuredInv' BY <1>0, <1>1, <1>2, <2>1 DEF SecuredInv, Before, Secured, Updating, Stages, UpdatePcs
    <2> QED BY <2>2, <2>3, <2>4 DEF BackupInv
  <1>13. CASE UpdateRecord
    <2>1. /\ wk.pc = "record" /\ UNCHANGED <<vol, job, eng, stray>> /\ wk'.kind = wk.kind
          /\ wk'.pc \in {"stopping", "version", "finish"} /\ \A j \in Jobs : arch'[j].file = arch[j].file
      BY <1>1, <1>13, UpdateSteps DEF UpdateRecord, Moved, Archives
    <2>2. BackupInv => OneLive' /\ Delivered' BY <1>0, <1>1, <1>2, <2>1 DEF OneLive, Delivered, Live, Active
    <2>3. BackupInv => Securing' BY <1>0, <1>1, <1>2, <2>1 DEF OneLive, Delivered, Securing, Live, Before, Secured, Updating, Stages, Active, UpdatePcs
    <2>4. SecuredInv' BY <1>0, <1>1, <1>2, <2>1 DEF SecuredInv, Before, Secured, Updating, Stages, UpdatePcs
    <2> QED BY <2>2, <2>3, <2>4 DEF BackupInv
  <1>14. CASE UpdateStop
    <2>1. wk.pc = "stopping" /\ UNCHANGED <<vol, arch, job, eng, stray>> /\ wk'.kind = wk.kind /\ wk'.pc \in {"version", "finish"}
      BY <1>14, UpdateSteps DEF UpdateStop, Moved
    <2>2. BackupInv => OneLive' /\ Delivered' BY <1>0, <1>1, <1>2, <2>1 DEF OneLive, Delivered, Live, Active
    <2>3. BackupInv => Securing' BY <1>0, <1>1, <1>2, <2>1 DEF OneLive, Delivered, Securing, Live, Before, Secured, Updating, Stages, Active, UpdatePcs
    <2>4. SecuredInv' BY <1>0, <1>1, <1>2, <2>1 DEF SecuredInv, Before, Secured, Updating, Stages, UpdatePcs
    <2> QED BY <2>2, <2>3, <2>4 DEF BackupInv
  <1>15. CASE UpdateVersion
    <2>1. /\ wk.pc = "version" /\ UNCHANGED <<vol, arch, job, eng, stray>> /\ wk'.kind = wk.kind
          /\ wk'.pc \in {"install", "reconfigure", "return", "finish", "revert"}
      BY <1>15, UpdateSteps DEF UpdateVersion, Moved
    <2>2. BackupInv => OneLive' /\ Delivered' BY <1>0, <1>1, <1>2, <2>1 DEF OneLive, Delivered, Live, Active
    <2>3. BackupInv => Securing' BY <1>0, <1>1, <1>2, <2>1 DEF OneLive, Delivered, Securing, Live, Before, Secured, Updating, Stages, Active, UpdatePcs
    <2>4. SecuredInv' BY <1>0, <1>1, <1>2, <2>1 DEF SecuredInv, Before, Secured, Updating, Stages, UpdatePcs
    <2> QED BY <2>2, <2>3, <2>4 DEF BackupInv
  <1>16. CASE UpdateReturn
    <2>1. wk.pc = "return" /\ UNCHANGED <<vol, arch, job, eng, stray>> /\ wk'.kind = wk.kind /\ wk'.pc = "finish"
      BY <1>16, UpdateSteps DEF UpdateReturn, Moved
    <2>2. BackupInv => OneLive' /\ Delivered' BY <1>0, <1>1, <1>2, <2>1 DEF OneLive, Delivered, Live, Active
    <2>3. BackupInv => Securing' BY <1>0, <1>1, <1>2, <2>1 DEF OneLive, Delivered, Securing, Live, Before, Secured, Updating, Stages, Active, UpdatePcs
    <2>4. SecuredInv' BY <1>0, <1>1, <1>2, <2>1 DEF SecuredInv, Before, Secured, Updating, Stages, UpdatePcs
    <2> QED BY <2>2, <2>3, <2>4 DEF BackupInv
  <1>17. CASE UpdateInstall
    <2>1. wk.pc = "install" /\ UNCHANGED <<arch, job, eng, stray>> /\ wk'.kind = wk.kind /\ wk'.pc \in {"reconfigure", "revert"}
      BY <1>17, UpdateSteps DEF UpdateInstall, Moved
    <2>2. BackupInv => OneLive' /\ Delivered' BY <1>0, <1>1, <1>2, <2>1 DEF OneLive, Delivered, Live, Active
    <2>3. BackupInv => Securing' BY <1>0, <1>1, <1>2, <2>1 DEF OneLive, Delivered, Securing, Live, Before, Secured, Updating, Stages, Active, UpdatePcs
    <2>4. SecuredInv' BY <1>0, <1>1, <1>2, <2>1 DEF SecuredInv, Before, Secured, Updating, Stages, UpdatePcs
    <2> QED BY <2>2, <2>3, <2>4 DEF BackupInv
  <1>18. CASE UpdateReconfigure
    <2>1. /\ wk.pc = "reconfigure" /\ UNCHANGED <<vol, arch, job, eng, stray>> /\ wk'.kind = wk.kind
          /\ wk'.pc \in {"start", "finish", "revert"}
      BY <1>18, UpdateSteps DEF UpdateReconfigure, Moved
    <2>2. BackupInv => OneLive' /\ Delivered' BY <1>0, <1>1, <1>2, <2>1 DEF OneLive, Delivered, Live, Active
    <2>3. BackupInv => Securing' BY <1>0, <1>1, <1>2, <2>1 DEF OneLive, Delivered, Securing, Live, Before, Secured, Updating, Stages, Active, UpdatePcs
    <2>4. SecuredInv' BY <1>0, <1>1, <1>2, <2>1 DEF SecuredInv, Before, Secured, Updating, Stages, UpdatePcs
    <2> QED BY <2>2, <2>3, <2>4 DEF BackupInv
  <1>19. CASE UpdateRevert
    <2>1. wk.pc = "revert" /\ UNCHANGED <<vol, arch, job, eng, stray>> /\ wk'.kind = wk.kind /\ wk'.pc \in {"files", "runtime"}
      BY <1>19, UpdateSteps DEF UpdateRevert, Moved
    <2>2. BackupInv => OneLive' /\ Delivered' BY <1>0, <1>1, <1>2, <2>1 DEF OneLive, Delivered, Live, Active
    <2>3. BackupInv => Securing' BY <1>0, <1>1, <1>2, <2>1 DEF OneLive, Delivered, Securing, Live, Before, Secured, Updating, Stages, Active, UpdatePcs
    <2>4. SecuredInv' BY <1>0, <1>1, <1>2, <2>1 DEF SecuredInv, Before, Secured, Updating, Stages, UpdatePcs
    <2> QED BY <2>2, <2>3, <2>4 DEF BackupInv
  <1>20. CASE UpdateFiles
    <2>1. wk.pc = "files" /\ UNCHANGED <<vol, arch, job, stray>> /\ wk'.kind = wk.kind /\ wk'.pc = "filesWait"
      BY <1>20, UpdateSteps DEF UpdateFiles, Moved
    <2>2. BackupInv => OneLive' /\ Delivered' BY <1>0, <1>1, <1>2, <2>1 DEF OneLive, Delivered, Live, Active
    <2>3. BackupInv => Securing' BY <1>0, <1>1, <1>2, <2>1 DEF OneLive, Delivered, Securing, Live, Before, Secured, Updating, Stages, Active, UpdatePcs
    <2>4. SecuredInv' BY <1>0, <1>1, <1>2, <2>1 DEF SecuredInv, Before, Secured, Updating, Stages, UpdatePcs
    <2> QED BY <2>2, <2>3, <2>4 DEF BackupInv
  <1>21. CASE UpdateFilesAnswered
    <2>1. /\ wk.pc = "filesWait" /\ UNCHANGED <<vol, arch, job, stray>> /\ wk'.kind = wk.kind
          /\ wk'.pc = "runtime" /\ eng'.pc = "idle"
      BY <1>2, <1>21, UpdateSteps DEF UpdateFilesAnswered, Moved
    <2>2. BackupInv => OneLive' /\ Delivered' BY <1>0, <1>1, <1>2, <2>1 DEF OneLive, Delivered, Live, Active
    <2>3. BackupInv => Securing' BY <1>0, <1>1, <1>2, <2>1 DEF OneLive, Delivered, Securing, Live, Before, Secured, Updating, Stages, Active, UpdatePcs
    <2>4. SecuredInv' BY <1>0, <1>1, <1>2, <2>1 DEF SecuredInv, Before, Secured, Updating, Stages, UpdatePcs
    <2> QED BY <2>2, <2>3, <2>4 DEF BackupInv
  <1>22. CASE UpdateRuntime
    <2>1. wk.pc = "runtime" /\ UNCHANGED <<vol, arch, job, eng, stray>> /\ wk'.kind = wk.kind /\ wk'.pc \in {"restart", "finish"}
      BY <1>22, UpdateSteps DEF UpdateRuntime, Moved
    <2>2. BackupInv => OneLive' /\ Delivered' BY <1>0, <1>1, <1>2, <2>1 DEF OneLive, Delivered, Live, Active
    <2>3. BackupInv => Securing' BY <1>0, <1>1, <1>2, <2>1 DEF OneLive, Delivered, Securing, Live, Before, Secured, Updating, Stages, Active, UpdatePcs
    <2>4. SecuredInv' BY <1>0, <1>1, <1>2, <2>1 DEF SecuredInv, Before, Secured, Updating, Stages, UpdatePcs
    <2> QED BY <2>2, <2>3, <2>4 DEF BackupInv
  <1>23. CASE UpdateRestart
    <2>1. wk.pc = "restart" /\ UNCHANGED <<vol, arch, job, eng, stray>> /\ wk'.kind = wk.kind /\ wk'.pc = "finish"
      BY <1>23, UpdateSteps DEF UpdateRestart, Moved
    <2>2. BackupInv => OneLive' /\ Delivered' BY <1>0, <1>1, <1>2, <2>1 DEF OneLive, Delivered, Live, Active
    <2>3. BackupInv => Securing' BY <1>0, <1>1, <1>2, <2>1 DEF OneLive, Delivered, Securing, Live, Before, Secured, Updating, Stages, Active, UpdatePcs
    <2>4. SecuredInv' BY <1>0, <1>1, <1>2, <2>1 DEF SecuredInv, Before, Secured, Updating, Stages, UpdatePcs
    <2> QED BY <2>2, <2>3, <2>4 DEF BackupInv
  <1> QED BY <1>3, <1>4, <1>5, <1>6, <1>7, <1>8, <1>9, <1>10, <1>11, <1>12, <1>13, <1>14, <1>15, <1>16, <1>17, <1>18, <1>19, <1>20, <1>21, <1>22, <1>23 DEF Handler, FinishBackupRestore, FinishTemplateUpdate

\* A claim that finds the engine at work leaves a stray behind, and takes nothing
\* from an engine that is not.
LEMMA ClaimsCross ==
  ASSUME TypeInv, NEW k \in Jobs, Claim(k)
  PROVE  /\ eng.pc = "idle" => UNCHANGED <<eng, stray>>
         /\ eng.pc # "idle" => ~Uncrossed'
         /\ Uncrossed' => Uncrossed
  <1>0. stray \in Seq(StrayCall) /\ (eng.pc = "idle" => eng = NoEngine) BY DEF TypeInv, Typed, Stages
  <1>1. /\ eng' = NoEngine
        /\ stray' = IF eng.pc = "idle" THEN stray ELSE Append(stray, [pc |-> eng.pc, safety |-> safety])
    BY DEF Claim, Take
  <1>2. ASSUME NEW call \in StrayCall PROVE Append(stray, call) # <<>>
    <2>1. Len(Append(stray, call)) = Len(stray) + 1 /\ Len(stray) \in Nat BY <1>0
    <2> QED BY <2>1
  <1>3. [pc |-> eng.pc, safety |-> safety] \in StrayCall BY DEF TypeInv, Typed, EngineState, StrayCall
  <1>4. eng.pc # "idle" => stray' # <<>> BY <1>1, <1>2, <1>3
  <1>5. eng.pc = "idle" => UNCHANGED <<eng, stray>> BY <1>0, <1>1
  <1> QED BY <1>4, <1>5 DEF Uncrossed

\* Strays are never forgotten.
LEMMA StaysUncrossed ==
  ASSUME TypeInv, [Next]_vars, Uncrossed'
  PROVE  Uncrossed /\ ~\E i \in DOMAIN stray : Stray(i)
  <1>1. ~\E i \in DOMAIN stray : Stray(i) BY StrayDoes DEF Uncrossed
  <1>2. QueueBackupRestore => UNCHANGED stray BY DEF QueueBackupRestore, Accept
  <1>3. ASSUME NEW k \in Jobs, \E i \in BOOLEAN : QueueTemplateUpdate(k, i) PROVE UNCHANGED stray
    BY <1>3 DEF QueueTemplateUpdate, Accept
  <1>4. ASSUME NEW k \in Jobs, Claim(k) PROVE Uncrossed BY <1>4, ClaimsCross
  <1>5. ObserveStatus \/ Retry \/ Crash \/ UNCHANGED vars => UNCHANGED stray BY DEF ObserveStatus, Retry, Crash, vars
  <1>6. Handler => UNCHANGED stray
    BY DEF Handler, RestoreBegin, RestoreStop, RestoreCall, RestoreAnswered, RestoreLost, StartAgain, UpdateBegin,
       UpdateArchive, UpdateRecord, UpdateStop, UpdateVersion, UpdateReturn, UpdateInstall, UpdateReconfigure,
       UpdateRevert, UpdateFiles, UpdateFilesAnswered, UpdateRuntime, UpdateRestart, FinishBackupRestore,
       FinishTemplateUpdate, Finish, Ack
  <1>7. Engine => UNCHANGED stray
    BY DEF Engine, EngineVerify, EngineSave, EngineClear, EngineCopy, EngineUndoClear, EngineUndoCopy, EngineRemove,
       EngineDrops
  <1>8. ASSUME NEW r \in Reqs, (\E a \in Actions : RequestPower(r, a)) \/ CallPower(r) \/ FinishPower(r)
        PROVE  UNCHANGED stray
    BY <1>8 DEF RequestPower, CallPower, FinishPower
  <1> QED BY <1>1, <1>2, <1>3, <1>4, <1>5, <1>6, <1>7, <1>8 DEF Next, Uncrossed

\* Every step keeps SecuredInv.
LEMMA NextSecured ==
  ASSUME TypeInv, SecuredInv, [Next]_vars
  PROVE  SecuredInv'
  <1>0. Typed /\ Stages /\ SecuredInv BY DEF TypeInv
  <1>1. /\ \A k \in Jobs : k # "restore" <=> k \in {"rebase", "reinstall"}
        /\ None \notin Jobs /\ None \notin {"restore", "rebase", "reinstall"}
        /\ wk.pc # "idle" => wk.kind \in Jobs
        /\ wk.pc = "idle" => wk.kind = None
        /\ \A k \in Jobs : job[k].again \in BOOLEAN
    BY <1>0, Kinds DEF Stages, Typed, Job
  <1>2. ASSUME NEW k \in Jobs, NEW i \in BOOLEAN, Accept(k, i), \A j \in Jobs : arch'[j].file = arch[j].file
        PROVE  SecuredInv'
    <2>1. job[k].op = "none" /\ UNCHANGED <<vol, wk, eng, stray>> BY <1>2 DEF Accept
    <2>2. wk.pc # "idle" => job'[wk.kind] = job[wk.kind]
      <3>1. \A j \in Jobs \ {k} : job'[j] = job[j] BY <1>0, <1>2, JobWrites
      <3>2. wk.pc # "idle" => wk.kind \in Jobs \ {k} BY <1>0, <2>1 DEF Stages
      <3> QED BY <3>1, <3>2
    <2> QED BY <1>0, <1>1, <1>2, <2>1, <2>2 DEF SecuredInv, Before, Secured, Updating
  <1>3. CASE QueueBackupRestore BY <1>2, <1>3 DEF QueueBackupRestore
  <1>4. ASSUME NEW k \in Jobs, NEW i \in BOOLEAN, QueueTemplateUpdate(k, i) PROVE SecuredInv'
    <2>1. arch' = [arch EXCEPT ![k].status = "queued"] /\ Accept(k, i) BY <1>4 DEF QueueTemplateUpdate
    <2>2. arch'[k].file = arch[k].file /\ \A j \in Jobs \ {k} : arch'[j] = arch[j] BY <1>0, <2>1, ArchiveWrites
    <2> QED BY <1>2, <2>1, <2>2
  <1>5. ASSUME NEW k \in Jobs, Claim(k) PROVE SecuredInv'
    <2>1. wk'.pc = "begin" /\ wk'.kind = k BY <1>5, ClaimTyped
    <2>2. /\ job'[k].before = (IF job[k].attempts = 0 THEN vol ELSE job[k].before)
          /\ job'[k].again = (AtWork \/ job[k].again \/ (job[k].attempts # 0 /\ vol # job[k].before))
          /\ UNCHANGED vol
      BY <1>0, <1>5, JobWrites DEF Claim, Take
    <2>3. ASSUME job'[k].again = FALSE PROVE vol' = job'[k].before /\ ~AtWork
      BY <1>1, <2>2, <2>3
    <2>4. ~AtWork => /\ eng.pc = "idle" /\ UNCHANGED <<eng, stray>>
                     /\ \A i \in DOMAIN stray : stray[i].pc = "idle"
      BY <1>5, ClaimsCross DEF AtWork
    <2> QED BY <2>1, <2>3, <2>4 DEF SecuredInv, Before, Updating
  <1>6. CASE Engine
    <2>1. eng.pc # "idle" /\ UNCHANGED <<arch, job, wk, stray>>
      BY <1>6 DEF Engine, EngineVerify, EngineSave, EngineClear, EngineCopy, EngineUndoClear, EngineUndoCopy,
         EngineRemove, EngineDrops
    <2> QED BY <1>0, <2>1 DEF SecuredInv, Before, Secured, Updating
  <1>7. ASSUME UNCHANGED <<vol, arch, job, wk, eng, stray>> PROVE SecuredInv'
    BY <1>0, <1>7 DEF SecuredInv, Before, Secured, Updating
  <1>8. CASE ObserveStatus \/ UNCHANGED vars BY <1>7, <1>8 DEF ObserveStatus, vars
  <1>9. ASSUME NEW r \in Reqs, (\E a \in Actions : RequestPower(r, a)) \/ CallPower(r) \/ FinishPower(r)
        PROVE  SecuredInv'
    BY <1>7, <1>9 DEF RequestPower, CallPower, FinishPower
  <1>10. CASE Crash \/ Retry
    <2>1. wk' = IdleWorker BY <1>10, RetryDoes DEF Crash
    <2> QED BY <1>1, <2>1 DEF SecuredInv, Updating, IdleWorker
  <1>11. ASSUME NEW i \in DOMAIN stray, Stray(i) PROVE SecuredInv'
    <2>1. stray[i].pc # "idle" /\ UNCHANGED <<job, wk>> BY <1>11, StrayDoes
    <2> QED BY <1>0, <2>1 DEF SecuredInv, Updating
  <1> QED BY <1>3, <1>4, <1>5, <1>6, <1>8, <1>9, <1>10, <1>11, HandlerSecures DEF Next

\* Every step keeps BackupInv but a crash, a retry, and a claim beside the engine.
LEMMA NextSecures ==
  ASSUME TypeInv, SecuredInv, BackupInv, [Next]_vars, ~Crash, ~Retry, Uncrossed'
  PROVE  BackupInv'
  <1>0. Typed /\ Stages /\ OneLive /\ Delivered /\ Securing BY DEF TypeInv, BackupInv
  <1>1. /\ \A k \in Jobs : k # "restore" <=> k \in {"rebase", "reinstall"}
        /\ None \notin Jobs /\ None \notin {"restore", "rebase", "reinstall"}
        /\ wk.pc # "idle" => wk.kind \in Jobs
        /\ wk.pc = "idle" => wk.kind = None
    BY <1>0, Kinds DEF Stages
  <1>2. ASSUME NEW k \in Jobs, NEW i \in BOOLEAN, Accept(k, i), \A j \in Jobs : arch'[j].file = arch[j].file PROVE BackupInv'
    <2>1. /\ job'[k].op = "pending" /\ job'[k].attempts = job[k].attempts
          /\ \A j \in Jobs \ {k} : job'[j] = job[j]
      BY <1>0, <1>2, JobWrites
    <2>2. /\ job[k].op = "none" /\ UNCHANGED <<vol, wk, eng>> /\ \A j \in Jobs : ~Live(j)
      BY <1>2 DEF Accept, NothingActive, Live
    <2>3. wk.pc \in {"idle", "ack"} /\ (wk.pc = "ack" => wk.kind \in Jobs \ {k}) BY <1>0, <1>1, <2>2 DEF Delivered, Stages
    <2>4. \A j \in Jobs \ {k} : ~Live(j)' BY <2>1, <2>2 DEF Live
    <2>5. OneLive' BY <2>4 DEF OneLive
    <2>6. Delivered' BY <1>0, <2>1, <2>2, <2>3, <2>4 DEF Delivered, Live, Active
    <2>7. Securing' BY <1>0, <1>1, <1>2, <2>1, <2>2, <2>3, <2>4 DEF Securing, Delivered, Before, Secured, Updating
    <2> QED BY <2>5, <2>6, <2>7 DEF BackupInv
  <1>3. CASE QueueBackupRestore BY <1>2, <1>3 DEF QueueBackupRestore
  <1>4. ASSUME NEW k \in Jobs, NEW i \in BOOLEAN, QueueTemplateUpdate(k, i) PROVE BackupInv'
    <2>1. arch' = [arch EXCEPT ![k].status = "queued"] /\ Accept(k, i) BY <1>4 DEF QueueTemplateUpdate
    <2>2. arch'[k].file = arch[k].file /\ \A j \in Jobs \ {k} : arch'[j] = arch[j] BY <1>0, <2>1, ArchiveWrites
    <2> QED BY <1>2, <2>1, <2>2
  <1>5. ASSUME NEW k \in Jobs, Claim(k) PROVE BackupInv'
    <2>1. wk'.pc = "begin" /\ wk'.kind = k BY <1>5, ClaimTyped
    <2>2. /\ job'[k].op = job[k].op /\ job'[k].event = job[k].event
          /\ job'[k].before = (IF job[k].attempts = 0 THEN vol ELSE job[k].before) /\ job'[k].attempts # 0
          /\ \A j \in Jobs \ {k} : job'[j] = job[j]
      BY <1>0, <1>5, JobWrites
    <2>3. wk.pc = "idle" /\ job[k].event = TRUE /\ eng.pc = "idle" /\ UNCHANGED <<vol, arch>> /\ eng' = eng
      BY <1>0, <1>5, ClaimsCross DEF Claim, Take, Typed, Job
    <2>4. Live(k) BY <1>0, <2>3 DEF Delivered
    <2>5. Live(k)' /\ \A j \in Jobs : Live(j)' => j = k BY <1>0, <2>2, <2>4 DEF OneLive, Live
    <2>6. k # "restore" => Before(k)' BY <1>0, <1>1, <2>2, <2>3, <2>4 DEF Securing, Before
    <2>7. OneLive' BY <2>5 DEF OneLive
    <2>8. Delivered' BY <1>0, <2>1, <2>2, <2>3, <2>4, <2>5 DEF Delivered, Live, Active
    <2>9. Securing' BY <1>1, <2>1, <2>3, <2>5, <2>6 DEF Securing, Updating, Before
    <2> QED BY <2>7, <2>8, <2>9 DEF BackupInv
  <1>6. CASE Engine
    <2>1. eng.pc # "idle" /\ UNCHANGED <<arch, job, wk>>
      BY <1>6 DEF Engine, EngineVerify, EngineSave, EngineClear, EngineCopy, EngineUndoClear, EngineUndoCopy,
         EngineRemove, EngineDrops
    <2>2. OneLive' /\ Delivered' BY <1>0, <2>1 DEF OneLive, Delivered, Live
    <2>3. Securing' BY <1>0, <2>1 DEF Securing, Live, Before, Secured, Updating
    <2> QED BY <2>2, <2>3 DEF BackupInv
  <1>7. ASSUME UNCHANGED <<vol, arch, job, wk, eng>> PROVE BackupInv'
    BY <1>0, <1>7 DEF BackupInv, OneLive, Delivered, Securing, Live, Before, Secured, Updating
  <1>8. CASE ObserveStatus \/ UNCHANGED vars BY <1>7, <1>8 DEF ObserveStatus, vars
  <1>9. ASSUME NEW r \in Reqs, (\E a \in Actions : RequestPower(r, a)) \/ CallPower(r) \/ FinishPower(r)
        PROVE  BackupInv'
    BY <1>7, <1>9 DEF RequestPower, CallPower, FinishPower
  <1>10. ~\E i \in DOMAIN stray : Stray(i) BY StrayDoes DEF Uncrossed
  <1> QED BY <1>3, <1>4, <1>5, <1>6, <1>8, <1>9, <1>10, HandlerSecures DEF Next

\* Only a crash is counted as one.
LEMMA CrashesCount ==
  ASSUME [Next]_vars, ~Crash
  PROVE  UNCHANGED crashes
  <1>1. QueueBackupRestore => UNCHANGED crashes BY DEF QueueBackupRestore, Accept
  <1>2. ASSUME NEW k \in Jobs, (\E i \in BOOLEAN : QueueTemplateUpdate(k, i)) \/ Claim(k) PROVE UNCHANGED crashes
    BY <1>2 DEF QueueTemplateUpdate, Accept, Claim, Take
  <1>3. ObserveStatus \/ Retry \/ (\E i \in DOMAIN stray : Stray(i)) \/ UNCHANGED vars => UNCHANGED crashes
    BY DEF ObserveStatus, Retry, Stray, vars
  <1>4. Handler => UNCHANGED crashes
    BY DEF Handler, RestoreBegin, RestoreStop, RestoreCall, RestoreAnswered, RestoreLost, StartAgain, UpdateBegin,
       UpdateArchive, UpdateRecord, UpdateStop, UpdateVersion, UpdateReturn, UpdateInstall, UpdateReconfigure,
       UpdateRevert, UpdateFiles, UpdateFilesAnswered, UpdateRuntime, UpdateRestart, FinishBackupRestore,
       FinishTemplateUpdate, Finish, Ack
  <1>5. Engine => UNCHANGED crashes
    BY DEF Engine, EngineVerify, EngineSave, EngineClear, EngineCopy, EngineUndoClear, EngineUndoCopy, EngineRemove,
       EngineDrops
  <1>6. ASSUME NEW r \in Reqs, (\E a \in Actions : RequestPower(r, a)) \/ CallPower(r) \/ FinishPower(r)
        PROVE  UNCHANGED crashes
    BY <1>6 DEF RequestPower, CallPower, FinishPower
  <1> QED BY <1>1, <1>2, <1>3, <1>4, <1>5, <1>6 DEF Next

\* Failures are counted.
LEMMA FailuresCount ==
  ASSUME TypeInv, [Next]_vars
  PROVE  UNCHANGED fails \/ FailedCall \/ FailedStatement
  <1>0. /\ Typed
        /\ MayFail => FailedCall
        /\ \A reason : Fails(reason) => UNCHANGED fails \/ FailedCall
        /\ StoreFails => FailedStatement
    BY Moves DEF TypeInv
  <1>1. QueueBackupRestore \/ ObserveStatus \/ Crash \/ UNCHANGED vars => UNCHANGED fails
    BY DEF QueueBackupRestore, Accept, ObserveStatus, Crash, vars
  <1>2. ASSUME NEW k \in Jobs, (\E i \in BOOLEAN : QueueTemplateUpdate(k, i)) \/ Claim(k) PROVE UNCHANGED fails
    BY <1>2 DEF QueueTemplateUpdate, Accept, Claim, Take
  <1>3. ASSUME NEW r \in Reqs, (\E a \in Actions : RequestPower(r, a)) \/ CallPower(r) \/ FinishPower(r)
        PROVE  UNCHANGED fails \/ FailedCall
    BY <1>0, <1>3 DEF RequestPower, CallPower, FinishPower, Power
  <1>4. CASE Handler
    <2>1. CASE RestoreBegin \/ RestoreAnswered \/ Finish \/ Ack \/ UpdateBegin \/ UpdateFiles \/ UpdateFilesAnswered
      BY <2>1 DEF RestoreBegin, RestoreAnswered, Finish, Ack, UpdateBegin, UpdateFiles, UpdateFilesAnswered
    <2>2. CASE RestoreStop \/ RestoreCall \/ RestoreLost \/ StartAgain BY <2>2, RestoreSteps
    <2>3. CASE UpdateArchive \/ UpdateRecord \/ UpdateStop \/ UpdateVersion \/ UpdateReturn \/ UpdateInstall
      BY <2>3, UpdateSteps DEF Refused
    <2>4. CASE UpdateReconfigure \/ UpdateRevert \/ UpdateRuntime \/ UpdateRestart BY <2>4, UpdateSteps DEF Refused
    <2> QED BY <1>4, <2>1, <2>2, <2>3, <2>4 DEF Handler, FinishBackupRestore, FinishTemplateUpdate
  <1>5. CASE Engine
    <2>1. CASE EngineRemove \/ EngineDrops BY <2>1 DEF EngineRemove, EngineDrops
    <2>2. CASE EngineVerify \/ EngineSave \/ EngineClear \/ EngineCopy BY <2>2, EngineSteps
    <2>3. CASE EngineUndoClear \/ EngineUndoCopy BY <2>3, EngineSteps
    <2> QED BY <1>5, <2>1, <2>2, <2>3 DEF Engine
  <1>6. (\E i \in DOMAIN stray : Stray(i)) => UNCHANGED fails \/ FailedCall BY StrayDoes
  <1>7. Retry => FailedStatement BY RetryDoes
  <1> QED BY <1>1, <1>2, <1>3, <1>4, <1>5, <1>6, <1>7 DEF Next

\* Nothing was forgotten by a worker, nor begun beside the engine.
Steady == crashes = 0 /\ fails.store = 0 /\ Uncrossed

\* What is steady was steady before.
LEMMA StaysSteady ==
  ASSUME TypeInv, [Next]_vars, Steady'
  PROVE  Steady /\ ~Crash /\ ~Retry /\ ~\E i \in DOMAIN stray : Stray(i)
  <1>0. fails.engine \in Nat /\ fails.store \in Nat /\ crashes \in Nat /\ fails'.store = 0 /\ crashes' = 0
    BY DEF TypeInv, Typed, FailCounts, Steady
  <1>1. ~Crash /\ crashes = 0 BY <1>0, CrashesCount DEF Crash
  <1>2. ~FailedStatement /\ fails.store = 0 BY <1>0, FailuresCount DEF FailedStatement, FailedCall
  <1>3. ~Retry BY <1>2, RetryDoes
  <1> QED BY <1>1, <1>2, <1>3, StaysUncrossed DEF Steady

\* BackupInv holds at first and in a steady history, and SecuredInv in every one.
LEMMA BackupStep ==
  /\ Init => SecuredInv /\ BackupInv
  /\ TypeInv /\ SecuredInv /\ (Steady => BackupInv) /\ [Next]_vars => SecuredInv' /\ (Steady => BackupInv)'
  <1>1. Init => SecuredInv /\ BackupInv
    <2> SUFFICES ASSUME Init PROVE SecuredInv /\ BackupInv OBVIOUS
    <2>1. /\ wk.pc = "idle" /\ wk.kind = None
          /\ \A k \in Jobs : job[k].op = "none" /\ job[k].attempts = 0 /\ job[k].event = FALSE
      BY DEF Init, IdleWorker
    <2>2. None \notin {"rebase", "reinstall"} BY WorkflowAssumption
    <2> QED BY <2>1, <2>2 DEF SecuredInv, BackupInv, OneLive, Delivered, Securing, Live, Active, Updating
  <1>2. ASSUME TypeInv, SecuredInv, Steady => BackupInv, [Next]_vars, Steady' PROVE BackupInv'
    BY <1>2, StaysSteady, NextSecures DEF Steady
  <1> QED BY <1>1, <1>2, NextSecured

\* A template update has the files as they were in its mandatory backup before it
\* changes them: whichever calls and statements fail or are given up, through any
\* crash, however often the event is delivered, and whatever power requests are made,
\* until it is delivered once more with the files already changed or claimed beside a
\* call that the engine still serves.  (What then happens to that backup is shown by
\* the run workflow_backup_lost.)
THEOREM BackupComesFirst == Spec => []BackupUntilRedone
  <1>1. TypeInv /\ SecuredInv => BackupUntilRedone
    <2> SUFFICES ASSUME TypeInv, SecuredInv, Updating, ~job[wk.kind].again, vol # job[wk.kind].before
                 PROVE  arch[wk.kind].file = job[wk.kind].before
      BY DEF BackupUntilRedone, BackupBeforeChange
    <2>1. wk.pc # "idle" /\ job[wk.kind].again = FALSE
      BY Kinds DEF TypeInv, Stages, Typed, Job, Updating
    <2> QED BY <2>1 DEF SecuredInv, Before, Secured
  <1>2. Init => TypeInv /\ SecuredInv BY InitTyped, BackupStep
  <1>3. TypeInv /\ SecuredInv /\ [Next]_vars => TypeInv' /\ SecuredInv' BY NextTyped, NextSecured
  <1> QED BY <1>1, <1>2, <1>3, PTL DEF Spec

-----------------------------------------------------------------------------
(* All or nothing.                                                         *)

\* Power requests only stop the server.
OnlyStops == \A r \in Reqs : req[r].phase # "idle" => req[r].action \in {"stop", "kill"}

\* A steady history with at most one failed engine call.
Calm == Steady /\ fails.engine <= 1 /\ OnlyStops
Spent == fails.engine = 1

\* The server is off while its files are worked on, and otherwise runs only if
\* it is meant to or a request is about to say so.
Stopped ==
  /\ \A k \in Jobs : Live(k) /\ job[k].was = FALSE => ~Running(cont.state)
  /\ Running(cont.state) => \/ srv.desired = "running" \/ \E k \in Jobs : Live(k)
                            \/ \E r \in Reqs : req[r].phase \in {"call", "error"}
  /\ wk.pc \in {"call", "wait", "version", "install", "reconfigure", "revert", "files", "filesWait", "runtime"}
        => ~Running(cont.state)

Old == srv.version = "old" /\ cont.version = "old"
New == srv.version = "new" /\ cont.version = "new"
Goal(k) == IF job[k].installer THEN "installed" ELSE job[k].before
Unchanged(k) == vol = job[k].before /\ Old
Changed(k) == vol = Goal(k) /\ New

\* Row, container and files at each step of an update.
Versioned ==
  /\ (\A k \in Jobs \ {"restore"} : ~Live(k)) => Old \/ New
  /\ \A k \in Jobs \ {"restore"} : Live(k) /\ wk.kind # k => Old
  /\ Updating =>
     /\ wk.previous = "old"
     /\ wk.pc # "return"
     /\ wk.pc # "filesWait" => eng.pc = "idle"
     /\ wk.pc \in {"begin", "archive", "record", "stopping", "version", "files", "filesWait"} => Old
     /\ wk.pc \in {"stopping", "version", "install", "reconfigure", "revert", "files", "filesWait"}
          => arch[wk.kind].sha = arch[wk.kind].file
     /\ wk.pc \in {"install", "reconfigure", "revert"} => srv.version = "new" /\ cont.version = "old"
     /\ wk.pc = "install" => vol = job[wk.kind].before
     /\ wk.pc = "reconfigure" => vol = Goal(wk.kind)
     /\ wk.pc = "revert" /\ wk.kind = "rebase" => vol = job[wk.kind].before
     /\ wk.pc \in FailingPcs => Spent
     /\ wk.pc \in {"runtime", "restart"} => Unchanged(wk.kind)
     /\ wk.pc = "start" => Changed(wk.kind)
     /\ wk.pc = "finish" => (wk.failed = TRUE /\ Unchanged(wk.kind)) \/ Changed(wk.kind)
     /\ wk.pc = "ack" => (Outcome = "failed" /\ Unchanged(wk.kind)) \/ Changed(wk.kind)

\* The files at each step of a restore; one that was given up may still be at work.
Restoring ==
  /\ "restore" \in Jobs /\ Live("restore") /\ job["restore"].attempts # 0 => wk.kind = "restore"
  /\ wk.kind = "restore" =>
     /\ wk.pc \in {"begin", "stop", "call"} => Before("restore")
     /\ wk.pc \in {"start", "finish"} =>
          \/ wk.failed = TRUE /\ (eng.pc # "idle" \/ vol = job["restore"].before)
          \/ eng.pc = "idle" /\ vol = "selected"
     /\ wk.pc = "ack" =>
          \/ Outcome = "failed" /\ (eng.pc # "idle" \/ vol = job["restore"].before)
          \/ eng.pc = "idle" /\ vol = "selected"

\* What the engine's restore holds at each of its steps.
EngineHolds ==
  /\ wk.pc \in {"wait", "filesWait"} => eng.pc # "idle"
  /\ eng.pc # "idle" =>
     /\ eng.kind = "restore" \/ (wk.pc = "filesWait" /\ eng.kind = wk.kind)
     /\ wk.pc \in {"wait", "filesWait"} => eng.kind = wk.kind /\ eng.cancelled = FALSE
     /\ wk.pc \notin {"wait", "filesWait"} => eng.cancelled = TRUE /\ Spent
     /\ eng.kind # "restore" => eng.pc \in {"verify", "save", "clear", "copy", "remove", "ok"} /\ eng.failed = FALSE
     /\ eng.pc \in {"verify", "save", "clear", "copy", "ok"} => eng.failed = FALSE
     /\ eng.pc \in {"undoClear", "undoCopy"} => Spent
     /\ eng.pc = "undoCopy" => eng.failed = TRUE
     /\ eng.pc \in {"verify", "save", "clear"} /\ eng.kind = "restore" => vol = job[eng.kind].before
     /\ eng.pc \in {"clear", "copy", "undoClear", "undoCopy"} /\ eng.kind = "restore" => safety = job[eng.kind].before
     /\ eng.pc = "remove" => vol = IF eng.failed THEN job[eng.kind].before ELSE arch[eng.kind].file
     /\ eng.pc = "ok" => vol = arch[eng.kind].file
     /\ eng.pc = "error" => vol = job[eng.kind].before

\* No damaged files are left to the next workflow.
Whole ==
  /\ \A k \in Jobs : job[k].before # "damaged"
  /\ wk.pc = "idle" /\ eng.pc = "idle" => vol # "damaged"

CalmInv == Stopped /\ Versioned /\ Restoring /\ EngineHolds /\ Whole

\* A request that was made keeps its action.
LEMMA StopsKept ==
  ASSUME TypeInv, [Next]_vars, OnlyStops'
  PROVE  OnlyStops
  <1>0. req \in [Reqs -> PowerRequest] /\ OnlyStops' BY DEF TypeInv, Typed
  <1>1. ASSUME NEW r \in Reqs, NEW a, RequestPower(r, a) PROVE OnlyStops
    <2>1. req[r].phase = "idle" /\ \A q \in Reqs \ {r} : req'[q] = req[q] BY <1>0, <1>1 DEF RequestPower
    <2> QED BY <1>0, <2>1 DEF OnlyStops
  <1>2. ASSUME NEW r \in Reqs, NEW ph, req' = [req EXCEPT ![r].phase = ph], ph # "idle" PROVE OnlyStops
    <2>1. req'[r] = [req[r] EXCEPT !.phase = ph] /\ \A q \in Reqs \ {r} : req'[q] = req[q] BY <1>0, <1>2
    <2>2. req[r] \in PowerRequest BY <1>0
    <2>3. req'[r].phase = ph /\ req'[r].action = req[r].action BY <2>1, <2>2 DEF PowerRequest
    <2> QED BY <1>0, <1>2, <2>1, <2>3 DEF OnlyStops
  <1>3. ASSUME NEW r \in Reqs, CallPower(r) PROVE OnlyStops
    <2>1. PICK ok \in BOOLEAN : req' = [req EXCEPT ![r].phase = IF ok THEN "ok" ELSE "error"] BY <1>3 DEF CallPower
    <2> QED BY <1>2, <2>1
  <1>4. ASSUME NEW r \in Reqs, FinishPower(r) PROVE OnlyStops BY <1>2, <1>4 DEF FinishPower
  <1>5. ASSUME ~\E r \in Reqs : (\E a \in Actions : RequestPower(r, a)) \/ CallPower(r) \/ FinishPower(r)
        PROVE  OnlyStops
    <2>1. UNCHANGED req BY <1>5, RequestsKept
    <2> QED BY <1>0, <2>1 DEF OnlyStops
  <1> QED BY <1>1, <1>3, <1>4, <1>5

\* What is calm was calm before, and a call can fail only once.
LEMMA StaysCalm ==
  ASSUME TypeInv, [Next]_vars, Calm'
  PROVE  /\ Calm /\ ~Crash /\ ~Retry /\ ~FailedStatement /\ ~\E i \in DOMAIN stray : Stray(i)
         /\ FailedCall => ~Spent /\ Spent'
         /\ Spent => Spent'
  <1>0. /\ fails.engine \in Nat /\ fails.store \in Nat
        /\ fails'.engine <= 1 /\ fails'.store = 0
    BY DEF TypeInv, Typed, FailCounts, Calm, Steady
  <1>1. Steady /\ ~Crash /\ ~Retry /\ ~\E i \in DOMAIN stray : Stray(i) BY StaysSteady DEF Calm
  <1>2. ~FailedStatement BY <1>0 DEF FailedStatement
  <1>3. fails.engine <= 1 /\ (FailedCall => ~Spent /\ Spent') /\ (Spent => Spent')
    BY <1>0, <1>2, FailuresCount DEF FailedCall, Spent
  <1>4. OnlyStops BY StopsKept DEF Calm
  <1> QED BY <1>1, <1>2, <1>3, <1>4 DEF Calm

\* The handlers keep CalmInv.
LEMMA HandlerCalm ==
  ASSUME TypeInv, Serving, BackupInv, CalmInv, Handler, [Next]_vars, Calm'
  PROVE  CalmInv'
  <1>0. /\ Typed /\ Stages /\ Serving /\ OneLive /\ Delivered /\ Securing
        /\ Stopped /\ Versioned /\ Restoring /\ EngineHolds /\ Whole
    BY DEF TypeInv, BackupInv, CalmInv
  <1>1. /\ \A k \in Jobs : k # "restore" <=> k \in {"rebase", "reinstall"}
        /\ None \notin Jobs /\ None \notin {"restore", "rebase", "reinstall"}
        /\ wk.pc # "idle" => wk.kind \in Jobs /\ WasRunning \in BOOLEAN /\ wk.failed \in BOOLEAN
        /\ \A k \in Jobs : job[k].installer \in BOOLEAN
    BY <1>0, Kinds DEF Stages, Typed, Job, WorkerState, WasRunning
  <1>2. IdleWorker.pc = "idle" /\ IdleWorker.kind = None /\ NoEngine.pc = "idle" BY DEF IdleWorker, NoEngine
  <1>3. /\ ~FailedStatement /\ (FailedCall => ~Spent /\ Spent') /\ (Spent => Spent')
    BY StaysCalm
  <1>4. CASE RestoreBegin
    <2>1. /\ wk.pc = "begin" /\ wk.kind = "restore" /\ OpBecomes("running")
          /\ Moved(IF WasRunning THEN "stop" ELSE "call", wk.failed) /\ UNCHANGED <<srv, cont, vol, arch, safety, eng, req, fails>>
      BY <1>0, <1>1, <1>2, <1>3, <1>4, RestoreSteps DEF RestoreBegin
    <2>2. Stopped' BY <1>0, <1>1, <1>2, <2>1 DEF Stopped, Serving, Delivered, OneLive, Live, Active, WasRunning, Moved, OpBecomes, SameRest, SameJob
    <2>3. Versioned'
      BY <1>0, <1>1, <1>2, <1>3, <2>1 DEF Versioned, Delivered, OneLive, Live, Active, Securing, Before, Secured, Serving,
         Stages, UpdatePcs, FailingPcs, Updating, EngineHolds, Old, New, Goal, Unchanged, Changed, Outcome, Moved, OpBecomes, SameRest, SameJob
    <2>4. Restoring'
      BY <1>0, <1>1, <1>2, <1>3, <2>1 DEF Restoring, Delivered, OneLive, Live, Active, Stages, UpdatePcs, EngineHolds,
         Securing, Before, Outcome, Moved, OpBecomes, SameRest, SameJob
    <2>5. EngineHolds'
      BY <1>0, <1>1, <1>2, <1>3, <2>1 DEF EngineHolds, Stages, UpdatePcs, Restoring, Before, Versioned, FailingPcs, Updating, Spent,
         Securing, Moved, OpBecomes, SameRest, SameJob
    <2>6. Whole'
      BY <1>0, <1>1, <1>2, <2>1 DEF Whole, Versioned, Restoring, Securing, Before, Updating, Old, New, Goal, Unchanged, Changed, Moved, OpBecomes, SameRest, SameJob
    <2> QED BY <2>2, <2>3, <2>4, <2>5, <2>6 DEF CalmInv
  <1>5. CASE RestoreStop
    <2>1. /\ wk.pc = "stop" /\ SameContainer /\ UNCHANGED <<srv, vol, arch, safety, job, eng, req>>
          /\ \/ Moved("call", wk.failed) /\ ~Running(cont'.state)
             \/ Moved("start", TRUE) /\ (Running(cont'.state) => Running(cont.state))
      BY <1>0, <1>1, <1>2, <1>3, <1>5, RestoreSteps DEF RestoreStop, TurnedOff, MaybeOff, SameContainer
    <2>2. Stopped' BY <1>0, <1>1, <1>2, <2>1 DEF Stopped, Serving, Delivered, OneLive, Live, Active, WasRunning, Moved, SameContainer
    <2>3. Versioned'
      BY <1>0, <1>1, <1>2, <1>3, <2>1 DEF Versioned, Delivered, OneLive, Live, Active, Securing, Before, Secured, Serving,
         Stages, UpdatePcs, FailingPcs, Updating, EngineHolds, Old, New, Goal, Unchanged, Changed, Outcome, Moved, SameContainer
    <2>4. Restoring'
      BY <1>0, <1>1, <1>2, <1>3, <2>1 DEF Restoring, Delivered, OneLive, Live, Active, Stages, UpdatePcs, EngineHolds,
         Securing, Before, Outcome, Moved, SameContainer
    <2>5. EngineHolds'
      BY <1>0, <1>1, <1>2, <1>3, <2>1 DEF EngineHolds, Stages, UpdatePcs, Restoring, Before, Versioned, FailingPcs, Updating, Spent,
         Securing, Moved, SameContainer
    <2>6. Whole'
      BY <1>0, <1>1, <1>2, <2>1 DEF Whole, Versioned, Restoring, Securing, Before, Updating, Old, New, Goal, Unchanged, Changed, Moved, SameContainer
    <2> QED BY <2>2, <2>3, <2>4, <2>5, <2>6 DEF CalmInv
  <1>6. CASE RestoreCall
    <2>1. /\ wk.pc = "call" /\ EngineCalled /\ Moved("wait", wk.failed) /\ UNCHANGED <<srv, cont, vol, arch, safety, job, req, fails>>
      BY <1>0, <1>1, <1>2, <1>3, <1>6, RestoreSteps DEF RestoreCall
    <2>2. Stopped' BY <1>0, <1>1, <1>2, <2>1 DEF Stopped, Serving, Delivered, OneLive, Live, Active, WasRunning, Moved, EngineCalled
    <2>3. Versioned'
      BY <1>0, <1>1, <1>2, <1>3, <2>1 DEF Versioned, Delivered, OneLive, Live, Active, Securing, Before, Secured, Serving,
         Stages, UpdatePcs, FailingPcs, Updating, EngineHolds, Old, New, Goal, Unchanged, Changed, Outcome, Moved, EngineCalled
    <2>4. Restoring'
      BY <1>0, <1>1, <1>2, <1>3, <2>1 DEF Restoring, Delivered, OneLive, Live, Active, Stages, UpdatePcs, EngineHolds,
         Securing, Before, Outcome, Moved, EngineCalled
    <2>5. EngineHolds'
      BY <1>0, <1>1, <1>2, <1>3, <2>1 DEF EngineHolds, Stages, UpdatePcs, Restoring, Before, Versioned, FailingPcs, Updating, Spent,
         Securing, Moved, EngineCalled
    <2>6. Whole'
      BY <1>0, <1>1, <1>2, <2>1 DEF Whole, Versioned, Restoring, Securing, Before, Updating, Old, New, Goal, Unchanged, Changed, Moved, EngineCalled
    <2> QED BY <2>2, <2>3, <2>4, <2>5, <2>6 DEF CalmInv
  <1>7. CASE RestoreAnswered
    <2>1. /\ wk.pc = "wait" /\ eng.pc \in {"ok", "error"} /\ eng'.pc = "idle" /\ UNCHANGED <<srv, cont, vol, arch, safety, job, req, fails>>
          /\ Moved(AfterRestore, IF eng.pc = "ok" THEN wk.failed ELSE TRUE)
      BY <1>0, <1>1, <1>2, <1>3, <1>7, RestoreSteps DEF RestoreAnswered
    <2>2. Stopped' BY <1>0, <1>1, <1>2, <2>1 DEF Stopped, Serving, Delivered, OneLive, Live, Active, WasRunning, Moved, AfterRestore
    <2>3. Versioned'
      BY <1>0, <1>1, <1>2, <1>3, <2>1 DEF Versioned, Delivered, OneLive, Live, Active, Securing, Before, Secured, Serving,
         Stages, UpdatePcs, FailingPcs, Updating, EngineHolds, Old, New, Goal, Unchanged, Changed, Outcome, Moved, AfterRestore
    <2>4. Restoring'
      BY <1>0, <1>1, <1>2, <1>3, <2>1 DEF Restoring, Delivered, OneLive, Live, Active, Stages, UpdatePcs, EngineHolds,
         Securing, Before, Outcome, Moved, AfterRestore
    <2>5. EngineHolds'
      BY <1>0, <1>1, <1>2, <1>3, <2>1 DEF EngineHolds, Stages, UpdatePcs, Restoring, Before, Versioned, FailingPcs, Updating, Spent,
         Securing, Moved, AfterRestore
    <2>6. Whole'
      BY <1>0, <1>1, <1>2, <2>1 DEF Whole, Versioned, Restoring, Securing, Before, Updating, Old, New, Goal, Unchanged, Changed, Moved, AfterRestore
    <2> QED BY <2>2, <2>3, <2>4, <2>5, <2>6 DEF CalmInv
  <1>8. CASE RestoreLost
    <2>1. /\ wk.pc \in {"wait", "filesWait"} /\ eng.pc # "idle" /\ ~Spent /\ Spent'
          /\ eng'.pc = eng.pc /\ eng'.kind = eng.kind /\ eng'.failed = eng.failed /\ eng'.cancelled = TRUE
          /\ IF wk.pc = "wait" THEN Moved(AfterRestore, TRUE) ELSE Moved("runtime", wk.failed)
          /\ UNCHANGED <<srv, cont, vol, arch, safety, job, req>>
      BY <1>0, <1>1, <1>2, <1>3, <1>8, RestoreSteps DEF RestoreLost
    <2>2. Stopped' BY <1>0, <1>1, <1>2, <2>1 DEF Stopped, Serving, Delivered, OneLive, Live, Active, WasRunning, Moved, AfterRestore
    <2>3. Versioned'
      BY <1>0, <1>1, <1>2, <1>3, <2>1 DEF Versioned, Delivered, OneLive, Live, Active, Securing, Before, Secured, Serving,
         Stages, UpdatePcs, FailingPcs, Updating, EngineHolds, Old, New, Goal, Unchanged, Changed, Outcome, Moved, AfterRestore
    <2>4. Restoring'
      BY <1>0, <1>1, <1>2, <1>3, <2>1 DEF Restoring, Delivered, OneLive, Live, Active, Stages, UpdatePcs, EngineHolds,
         Securing, Before, Outcome, Moved, AfterRestore
    <2>5. EngineHolds'
      BY <1>0, <1>1, <1>2, <1>3, <2>1 DEF EngineHolds, Stages, UpdatePcs, Restoring, Before, Versioned, FailingPcs, Updating, Spent,
         Securing, Moved, AfterRestore
    <2>6. Whole'
      BY <1>0, <1>1, <1>2, <2>1 DEF Whole, Versioned, Restoring, Securing, Before, Updating, Old, New, Goal, Unchanged, Changed, Moved, AfterRestore
    <2> QED BY <2>2, <2>3, <2>4, <2>5, <2>6 DEF CalmInv
  <1>9. CASE StartAgain
    <2>1. /\ wk.pc = "start" /\ SameContainer /\ UNCHANGED <<srv, vol, arch, safety, job, eng, req>>
          /\ (Moved("finish", wk.failed) \/ Moved("finish", TRUE))
      BY <1>0, <1>1, <1>2, <1>3, <1>9, RestoreSteps DEF StartAgain, TurnedOn, SameContainer
    <2>2. Stopped' BY <1>0, <1>1, <1>2, <2>1 DEF Stopped, Serving, Delivered, OneLive, Live, Active, WasRunning, Moved, SameContainer
    <2>3. Versioned'
      BY <1>0, <1>1, <1>2, <1>3, <2>1 DEF Versioned, Delivered, OneLive, Live, Active, Securing, Before, Secured, Serving,
         Stages, UpdatePcs, FailingPcs, Updating, EngineHolds, Old, New, Goal, Unchanged, Changed, Outcome, Moved, SameContainer
    <2>4. Restoring'
      BY <1>0, <1>1, <1>2, <1>3, <2>1 DEF Restoring, Delivered, OneLive, Live, Active, Stages, UpdatePcs, EngineHolds,
         Securing, Before, Outcome, Moved, SameContainer
    <2>5. EngineHolds'
      BY <1>0, <1>1, <1>2, <1>3, <2>1 DEF EngineHolds, Stages, UpdatePcs, Restoring, Before, Versioned, FailingPcs, Updating, Spent,
         Securing, Moved, SameContainer
    <2>6. Whole'
      BY <1>0, <1>1, <1>2, <2>1 DEF Whole, Versioned, Restoring, Securing, Before, Updating, Old, New, Goal, Unchanged, Changed, Moved, SameContainer
    <2> QED BY <2>2, <2>3, <2>4, <2>5, <2>6 DEF CalmInv
  <1>10. CASE Finish
    <2>1. /\ wk.pc = "finish" /\ OpBecomes(IF wk.failed THEN "failed" ELSE "succeeded") /\ Moved("ack", wk.failed)
          /\ srv'.version = srv.version /\ srv'.desired = (IF WasRunning THEN "running" ELSE "stopped")
          /\ UNCHANGED <<cont, vol, arch, safety, eng, req, fails>>
      BY <1>0, <1>1, <1>2, <1>3, <1>10, RestoreSteps DEF Finish
    <2>2. Stopped' BY <1>0, <1>1, <1>2, <2>1 DEF Stopped, Serving, Delivered, OneLive, Live, Active, WasRunning, Moved, OpBecomes, SameRest, SameJob
    <2>3. Versioned'
      BY <1>0, <1>1, <1>2, <1>3, <2>1 DEF Versioned, Delivered, OneLive, Live, Active, Securing, Before, Secured, Serving,
         Stages, UpdatePcs, FailingPcs, Updating, EngineHolds, Old, New, Goal, Unchanged, Changed, Outcome, Moved, OpBecomes, SameRest, SameJob
    <2>4. Restoring'
      BY <1>0, <1>1, <1>2, <1>3, <2>1 DEF Restoring, Delivered, OneLive, Live, Active, Stages, UpdatePcs, EngineHolds,
         Securing, Before, Outcome, Moved, OpBecomes, SameRest, SameJob
    <2>5. EngineHolds'
      BY <1>0, <1>1, <1>2, <1>3, <2>1 DEF EngineHolds, Stages, UpdatePcs, Restoring, Before, Versioned, FailingPcs, Updating, Spent,
         Securing, Moved, OpBecomes, SameRest, SameJob
    <2>6. Whole'
      BY <1>0, <1>1, <1>2, <2>1 DEF Whole, Versioned, Restoring, Securing, Before, Updating, Old, New, Goal, Unchanged, Changed, Moved, OpBecomes, SameRest, SameJob
    <2> QED BY <2>2, <2>3, <2>4, <2>5, <2>6 DEF CalmInv
  <1>11. CASE Ack
    <2>1. /\ wk.pc = "ack" /\ wk' = IdleWorker /\ UNCHANGED <<srv, cont, vol, arch, safety, eng, req, fails>>
          /\ job'[wk.kind].op = job[wk.kind].op /\ SameRest(wk.kind)
      BY <1>0, <1>1, <1>2, <1>3, <1>11, RestoreSteps DEF Ack
    <2>2. Stopped' BY <1>0, <1>1, <1>2, <2>1 DEF Stopped, Serving, Delivered, OneLive, Live, Active, WasRunning, Moved, OpBecomes, SameRest, SameJob
    <2>3. Versioned'
      BY <1>0, <1>1, <1>2, <1>3, <2>1 DEF Versioned, Delivered, OneLive, Live, Active, Securing, Before, Secured, Serving,
         Stages, UpdatePcs, FailingPcs, Updating, EngineHolds, Old, New, Goal, Unchanged, Changed, Outcome, Moved, OpBecomes, SameRest, SameJob
    <2>4. Restoring'
      BY <1>0, <1>1, <1>2, <1>3, <2>1 DEF Restoring, Delivered, OneLive, Live, Active, Stages, UpdatePcs, EngineHolds,
         Securing, Before, Outcome, Moved, OpBecomes, SameRest, SameJob
    <2>5. EngineHolds'
      BY <1>0, <1>1, <1>2, <1>3, <2>1 DEF EngineHolds, Stages, UpdatePcs, Restoring, Before, Versioned, FailingPcs, Updating, Spent,
         Securing, Moved, OpBecomes, SameRest, SameJob
    <2>6. Whole'
      BY <1>0, <1>1, <1>2, <2>1 DEF Whole, Versioned, Restoring, Securing, Before, Updating, Old, New, Goal, Unchanged, Changed, Moved, OpBecomes, SameRest, SameJob
    <2> QED BY <2>2, <2>3, <2>4, <2>5, <2>6 DEF CalmInv
  <1>12. CASE UpdateBegin
    <2>1. /\ wk.pc = "begin" /\ wk.kind # "restore" /\ OpBecomes("running") /\ Moved("archive", wk.failed)
          /\ \A j \in Jobs : arch'[j].file = arch[j].file /\ arch'[j].sha = arch[j].sha
          /\ UNCHANGED <<srv, cont, vol, safety, eng, req, fails>>
      BY <1>0, <1>1, <1>2, <1>3, <1>12, UpdateSteps DEF UpdateBegin
    <2>2. Stopped' BY <1>0, <1>1, <1>2, <2>1 DEF Stopped, Serving, Delivered, OneLive, Live, Active, WasRunning, Moved, OpBecomes, SameRest, SameJob
    <2>3. Versioned'
      BY <1>0, <1>1, <1>2, <1>3, <2>1 DEF Versioned, Delivered, OneLive, Live, Active, Securing, Before, Secured, Serving,
         Stages, UpdatePcs, FailingPcs, Updating, EngineHolds, Old, New, Goal, Unchanged, Changed, Outcome, Moved, OpBecomes, SameRest, SameJob
    <2>4. Restoring'
      BY <1>0, <1>1, <1>2, <1>3, <2>1 DEF Restoring, Delivered, OneLive, Live, Active, Stages, UpdatePcs, EngineHolds,
         Securing, Before, Outcome, Moved, OpBecomes, SameRest, SameJob
    <2>5. EngineHolds'
      BY <1>0, <1>1, <1>2, <1>3, <2>1 DEF EngineHolds, Stages, UpdatePcs, Restoring, Before, Versioned, FailingPcs, Updating, Spent,
         Securing, Moved, OpBecomes, SameRest, SameJob
    <2>6. Whole'
      BY <1>0, <1>1, <1>2, <2>1 DEF Whole, Versioned, Restoring, Securing, Before, Updating, Old, New, Goal, Unchanged, Changed, Moved, OpBecomes, SameRest, SameJob
    <2> QED BY <2>2, <2>3, <2>4, <2>5, <2>6 DEF CalmInv
  <1>13. CASE UpdateArchive
    <2>1. /\ wk.pc = "archive" /\ UNCHANGED <<srv, cont, vol, safety, job, eng, req>>
          /\ \A j \in Jobs \ {wk.kind} : arch'[j] = arch[j]
          /\ \/ Moved("record", wk.failed)
             \/ wk' = IdleWorker
             \/ Moved("finish", TRUE)
      BY <1>0, <1>1, <1>2, <1>3, <1>13, UpdateSteps DEF UpdateArchive, Archives
    <2>2. Stopped' BY <1>0, <1>1, <1>2, <2>1 DEF Stopped, Serving, Delivered, OneLive, Live, Active, WasRunning, Moved
    <2>3. Versioned'
      BY <1>0, <1>1, <1>2, <1>3, <2>1 DEF Versioned, Delivered, OneLive, Live, Active, Securing, Before, Secured, Serving,
         Stages, UpdatePcs, FailingPcs, Updating, EngineHolds, Old, New, Goal, Unchanged, Changed, Outcome, Moved
    <2>4. Restoring'
      BY <1>0, <1>1, <1>2, <1>3, <2>1 DEF Restoring, Delivered, OneLive, Live, Active, Stages, UpdatePcs, EngineHolds,
         Securing, Before, Outcome, Moved
    <2>5. EngineHolds'
      BY <1>0, <1>1, <1>2, <1>3, <2>1 DEF EngineHolds, Stages, UpdatePcs, Restoring, Before, Versioned, FailingPcs, Updating, Spent,
         Securing, Moved
    <2>6. Whole'
      BY <1>0, <1>1, <1>2, <2>1 DEF Whole, Stages, UpdatePcs, Versioned, Restoring, Securing, Before, Updating, Old, New, Goal, Unchanged, Changed, Moved
    <2> QED BY <2>2, <2>3, <2>4, <2>5, <2>6 DEF CalmInv
  <1>14. CASE UpdateRecord
    <2>1. /\ wk.pc = "record" /\ arch'[wk.kind].sha = arch[wk.kind].file /\ UNCHANGED <<srv, cont, vol, safety, job, eng, req, fails>>
          /\ \A j \in Jobs : arch'[j].file = arch[j].file
          /\ wk'.pc = (IF WasRunning THEN "stopping" ELSE "version") /\ wk'.kind = wk.kind /\ wk'.failed = wk.failed
          /\ wk'.previous = srv.version
      BY <1>0, <1>1, <1>2, <1>3, <1>14, UpdateSteps DEF UpdateRecord, Archives
    <2>2. Stopped' BY <1>0, <1>1, <1>2, <2>1 DEF Stopped, Serving, Delivered, OneLive, Live, Active, WasRunning, Moved
    <2>3. Versioned'
      BY <1>0, <1>1, <1>2, <1>3, <2>1 DEF Versioned, Delivered, OneLive, Live, Active, Securing, Before, Secured, Serving,
         Stages, UpdatePcs, FailingPcs, Updating, EngineHolds, Old, New, Goal, Unchanged, Changed, Outcome, Moved
    <2>4. Restoring'
      BY <1>0, <1>1, <1>2, <1>3, <2>1 DEF Restoring, Delivered, OneLive, Live, Active, Stages, UpdatePcs, EngineHolds,
         Securing, Before, Outcome, Moved
    <2>5. EngineHolds'
      BY <1>0, <1>1, <1>2, <1>3, <2>1 DEF EngineHolds, Stages, UpdatePcs, Restoring, Before, Versioned, FailingPcs, Updating, Spent,
         Securing, Moved
    <2>6. Whole'
      BY <1>0, <1>1, <1>2, <2>1 DEF Whole, Versioned, Restoring, Securing, Before, Updating, Old, New, Goal, Unchanged, Changed, Moved
    <2> QED BY <2>2, <2>3, <2>4, <2>5, <2>6 DEF CalmInv
  <1>15. CASE UpdateStop
    <2>1. /\ wk.pc = "stopping" /\ SameContainer /\ UNCHANGED <<srv, vol, arch, safety, job, eng, req>>
          /\ \/ Moved("version", wk.failed) /\ ~Running(cont'.state)
             \/ Moved("finish", TRUE) /\ (Running(cont'.state) => Running(cont.state))
      BY <1>0, <1>1, <1>2, <1>3, <1>15, UpdateSteps DEF UpdateStop, TurnedOff, MaybeOff, SameContainer
    <2>2. Stopped' BY <1>0, <1>1, <1>2, <2>1 DEF Stopped, Serving, Delivered, OneLive, Live, Active, WasRunning, Moved, SameContainer
    <2>3. Versioned'
      BY <1>0, <1>1, <1>2, <1>3, <2>1 DEF Versioned, Delivered, OneLive, Live, Active, Securing, Before, Secured, Serving,
         Stages, UpdatePcs, FailingPcs, Updating, EngineHolds, Old, New, Goal, Unchanged, Changed, Outcome, Moved, SameContainer
    <2>4. Restoring'
      BY <1>0, <1>1, <1>2, <1>3, <2>1 DEF Restoring, Delivered, OneLive, Live, Active, Stages, UpdatePcs, EngineHolds,
         Securing, Before, Outcome, Moved, SameContainer
    <2>5. EngineHolds'
      BY <1>0, <1>1, <1>2, <1>3, <2>1 DEF EngineHolds, Stages, UpdatePcs, Restoring, Before, Versioned, FailingPcs, Updating, Spent,
         Securing, Moved, SameContainer
    <2>6. Whole'
      BY <1>0, <1>1, <1>2, <2>1 DEF Whole, Versioned, Restoring, Securing, Before, Updating, Old, New, Goal, Unchanged, Changed, Moved, SameContainer
    <2> QED BY <2>2, <2>3, <2>4, <2>5, <2>6 DEF CalmInv
  <1>16. CASE UpdateVersion
    <2>1. /\ wk.pc = "version" /\ srv'.version = "new" /\ srv'.desired = srv.desired /\ UNCHANGED <<cont, vol, arch, safety, job, eng, req, fails>>
          /\ Moved(IF job[wk.kind].installer THEN "install" ELSE "reconfigure", wk.failed)
      BY <1>0, <1>1, <1>2, <1>3, <1>16, UpdateSteps DEF UpdateVersion, RowVersion
    <2>2. Stopped' BY <1>0, <1>1, <1>2, <2>1 DEF Stopped, Serving, Delivered, OneLive, Live, Active, WasRunning, Moved
    <2>3. Versioned'
      BY <1>0, <1>1, <1>2, <1>3, <2>1 DEF Versioned, Delivered, OneLive, Live, Active, Securing, Before, Secured, Serving,
         Stages, UpdatePcs, FailingPcs, Updating, EngineHolds, Old, New, Goal, Unchanged, Changed, Outcome, Moved
    <2>4. Restoring'
      BY <1>0, <1>1, <1>2, <1>3, <2>1 DEF Restoring, Delivered, OneLive, Live, Active, Stages, UpdatePcs, EngineHolds,
         Securing, Before, Outcome, Moved
    <2>5. EngineHolds'
      BY <1>0, <1>1, <1>2, <1>3, <2>1 DEF EngineHolds, Stages, UpdatePcs, Restoring, Before, Versioned, FailingPcs, Updating, Spent,
         Securing, Moved
    <2>6. Whole'
      BY <1>0, <1>1, <1>2, <2>1 DEF Whole, Versioned, Restoring, Securing, Before, Updating, Old, New, Goal, Unchanged, Changed, Moved
    <2> QED BY <2>2, <2>3, <2>4, <2>5, <2>6 DEF CalmInv
  <1>17. CASE UpdateInstall
    <2>0. ~Running(cont.state) BY <1>0, <1>17 DEF UpdateInstall, Stopped
    <2>1. /\ wk.pc = "install" /\ UNCHANGED <<srv, cont, arch, safety, job, eng, req>>
          /\ \/ vol' = "installed" /\ Moved("reconfigure", wk.failed)
             \/ Moved("revert", TRUE) /\ Spent'
      BY <1>0, <1>1, <1>2, <1>3, <1>17, <2>0, UpdateSteps DEF UpdateInstall, Refused
    <2>2. Stopped' BY <1>0, <1>1, <1>2, <2>1 DEF Stopped, Serving, Delivered, OneLive, Live, Active, WasRunning, Moved
    <2>3. Versioned'
      BY <1>0, <1>1, <1>2, <1>3, <2>1 DEF Versioned, Delivered, OneLive, Live, Active, Securing, Before, Secured, Serving,
         Stages, UpdatePcs, FailingPcs, Updating, EngineHolds, Old, New, Goal, Unchanged, Changed, Outcome, Moved
    <2>4. Restoring'
      BY <1>0, <1>1, <1>2, <1>3, <2>1 DEF Restoring, Delivered, OneLive, Live, Active, Stages, UpdatePcs, EngineHolds,
         Securing, Before, Outcome, Moved
    <2>5. EngineHolds'
      BY <1>0, <1>1, <1>2, <1>3, <2>1 DEF EngineHolds, Stages, UpdatePcs, Restoring, Before, Versioned, FailingPcs, Updating, Spent,
         Securing, Moved
    <2>6. Whole'
      BY <1>0, <1>1, <1>2, <2>1 DEF Whole, Versioned, Restoring, Securing, Before, Updating, Old, New, Goal, Unchanged, Changed, Moved
    <2> QED BY <2>2, <2>3, <2>4, <2>5, <2>6 DEF CalmInv
  <1>18. CASE UpdateReconfigure
    <2>0. ~Running(cont.state) BY <1>0, <1>18 DEF UpdateReconfigure, Stopped
    <2>1. /\ wk.pc = "reconfigure" /\ UNCHANGED <<srv, vol, arch, safety, job, eng, req>>
          /\ \/ /\ cont'.version = "new" /\ ~Running(cont'.state)
                /\ Moved(IF WasRunning THEN "start" ELSE "finish", wk.failed)
             \/ UNCHANGED cont /\ Moved("revert", TRUE) /\ Spent'
      BY <1>0, <1>1, <1>2, <1>3, <1>18, <2>0, UpdateSteps DEF UpdateReconfigure, Replaced, Refused
    <2>2. Stopped' BY <1>0, <1>1, <1>2, <2>1 DEF Stopped, Serving, Delivered, OneLive, Live, Active, WasRunning, Moved
    <2>3. Versioned'
      BY <1>0, <1>1, <1>2, <1>3, <2>1 DEF Versioned, Delivered, OneLive, Live, Active, Securing, Before, Secured, Serving,
         Stages, UpdatePcs, FailingPcs, Updating, EngineHolds, Old, New, Goal, Unchanged, Changed, Outcome, Moved
    <2>4. Restoring'
      BY <1>0, <1>1, <1>2, <1>3, <2>1 DEF Restoring, Delivered, OneLive, Live, Active, Stages, UpdatePcs, EngineHolds,
         Securing, Before, Outcome, Moved
    <2>5. EngineHolds'
      BY <1>0, <1>1, <1>2, <1>3, <2>1 DEF EngineHolds, Stages, UpdatePcs, Restoring, Before, Versioned, FailingPcs, Updating, Spent,
         Securing, Moved
    <2>6. Whole'
      BY <1>0, <1>1, <1>2, <2>1 DEF Whole, Versioned, Restoring, Securing, Before, Updating, Old, New, Goal, Unchanged, Changed, Moved
    <2> QED BY <2>2, <2>3, <2>4, <2>5, <2>6 DEF CalmInv
  <1>19. CASE UpdateRevert
    <2>1. /\ wk.pc = "revert" /\ srv'.version = "old" /\ srv'.desired = srv.desired /\ UNCHANGED <<cont, vol, arch, safety, job, eng, req, fails>>
          /\ Moved(IF wk.kind = "reinstall" THEN "files" ELSE "runtime", wk.failed)
      BY <1>0, <1>1, <1>2, <1>3, <1>19, UpdateSteps DEF UpdateRevert, RowVersion
    <2>2. Stopped' BY <1>0, <1>1, <1>2, <2>1 DEF Stopped, Serving, Delivered, OneLive, Live, Active, WasRunning, Moved
    <2>3. Versioned'
      BY <1>0, <1>1, <1>2, <1>3, <2>1 DEF Versioned, Delivered, OneLive, Live, Active, Securing, Before, Secured, Serving,
         Stages, UpdatePcs, FailingPcs, Updating, EngineHolds, Old, New, Goal, Unchanged, Changed, Outcome, Moved
    <2>4. Restoring'
      BY <1>0, <1>1, <1>2, <1>3, <2>1 DEF Restoring, Delivered, OneLive, Live, Active, Stages, UpdatePcs, EngineHolds,
         Securing, Before, Outcome, Moved
    <2>5. EngineHolds'
      BY <1>0, <1>1, <1>2, <1>3, <2>1 DEF EngineHolds, Stages, UpdatePcs, Restoring, Before, Versioned, FailingPcs, Updating, Spent,
         Securing, Moved
    <2>6. Whole'
      BY <1>0, <1>1, <1>2, <2>1 DEF Whole, Versioned, Restoring, Securing, Before, Updating, Old, New, Goal, Unchanged, Changed, Moved
    <2> QED BY <2>2, <2>3, <2>4, <2>5, <2>6 DEF CalmInv
  <1>20. CASE UpdateFiles
    <2>1. wk.pc = "files" /\ EngineCalled /\ Moved("filesWait", wk.failed) /\ UNCHANGED <<srv, cont, vol, arch, safety, job, req, fails>>
      BY <1>0, <1>1, <1>2, <1>3, <1>20, UpdateSteps DEF UpdateFiles
    <2>2. Stopped' BY <1>0, <1>1, <1>2, <2>1 DEF Stopped, Serving, Delivered, OneLive, Live, Active, WasRunning, Moved, EngineCalled
    <2>3. Versioned'
      BY <1>0, <1>1, <1>2, <1>3, <2>1 DEF Versioned, Delivered, OneLive, Live, Active, Securing, Before, Secured, Serving,
         Stages, UpdatePcs, FailingPcs, Updating, EngineHolds, Old, New, Goal, Unchanged, Changed, Outcome, Moved, EngineCalled
    <2>4. Restoring'
      BY <1>0, <1>1, <1>2, <1>3, <2>1 DEF Restoring, Delivered, OneLive, Live, Active, Stages, UpdatePcs, EngineHolds,
         Securing, Before, Outcome, Moved, EngineCalled
    <2>5. EngineHolds'
      BY <1>0, <1>1, <1>2, <1>3, <2>1 DEF EngineHolds, Stages, UpdatePcs, Restoring, Before, Versioned, FailingPcs, Updating, Spent,
         Securing, Moved, EngineCalled
    <2>6. Whole'
      BY <1>0, <1>1, <1>2, <2>1 DEF Whole, Versioned, Restoring, Securing, Before, Updating, Old, New, Goal, Unchanged, Changed, Moved, EngineCalled
    <2> QED BY <2>2, <2>3, <2>4, <2>5, <2>6 DEF CalmInv
  <1>21. CASE UpdateFilesAnswered
    <2>1. /\ wk.pc = "filesWait" /\ eng.pc \in {"ok", "error"} /\ eng'.pc = "idle" /\ Moved("runtime", wk.failed)
          /\ UNCHANGED <<srv, cont, vol, arch, safety, job, req, fails>>
      BY <1>0, <1>1, <1>2, <1>3, <1>21, UpdateSteps DEF UpdateFilesAnswered
    <2>2. Stopped' BY <1>0, <1>1, <1>2, <2>1 DEF Stopped, Serving, Delivered, OneLive, Live, Active, WasRunning, Moved
    <2>3. Versioned'
      BY <1>0, <1>1, <1>2, <1>3, <2>1 DEF Versioned, Delivered, OneLive, Live, Active, Securing, Before, Secured, Serving,
         Stages, UpdatePcs, FailingPcs, Updating, EngineHolds, Old, New, Goal, Unchanged, Changed, Outcome, Moved
    <2>4. Restoring'
      BY <1>0, <1>1, <1>2, <1>3, <2>1 DEF Restoring, Delivered, OneLive, Live, Active, Stages, UpdatePcs, EngineHolds,
         Securing, Before, Outcome, Moved
    <2>5. EngineHolds'
      BY <1>0, <1>1, <1>2, <1>3, <2>1 DEF EngineHolds, Stages, UpdatePcs, Restoring, Before, Versioned, FailingPcs, Updating, Spent,
         Securing, Moved
    <2>6. Whole'
      BY <1>0, <1>1, <1>2, <2>1 DEF Whole, Versioned, Restoring, Securing, Before, Updating, Old, New, Goal, Unchanged, Changed, Moved
    <2> QED BY <2>2, <2>3, <2>4, <2>5, <2>6 DEF CalmInv
  <1>22. CASE UpdateRuntime
    <2>0. ~Running(cont.state) /\ ~FailedCall
      BY <1>0, <1>1, <1>3, <1>22 DEF UpdateRuntime, Stopped, Versioned, Updating, FailingPcs, Stages, UpdatePcs
    <2>1. /\ wk.pc = "runtime" /\ Moved(IF WasRunning THEN "restart" ELSE "finish", wk.failed) /\ UNCHANGED <<srv, vol, arch, safety, job, eng, req>>
          /\ cont'.version = wk.previous /\ ~Running(cont'.state)
      BY <1>0, <1>1, <1>2, <1>3, <1>22, <2>0, UpdateSteps DEF UpdateRuntime, Replaced, Refused
    <2>2. Stopped' BY <1>0, <1>1, <1>2, <2>1 DEF Stopped, Serving, Delivered, OneLive, Live, Active, WasRunning, Moved
    <2>3. Versioned'
      BY <1>0, <1>1, <1>2, <1>3, <2>1 DEF Versioned, Delivered, OneLive, Live, Active, Securing, Before, Secured, Serving,
         Stages, UpdatePcs, FailingPcs, Updating, EngineHolds, Old, New, Goal, Unchanged, Changed, Outcome, Moved
    <2>4. Restoring'
      BY <1>0, <1>1, <1>2, <1>3, <2>1 DEF Restoring, Delivered, OneLive, Live, Active, Stages, UpdatePcs, EngineHolds,
         Securing, Before, Outcome, Moved
    <2>5. EngineHolds'
      BY <1>0, <1>1, <1>2, <1>3, <2>1 DEF EngineHolds, Stages, UpdatePcs, Restoring, Before, Versioned, FailingPcs, Updating, Spent,
         Securing, Moved
    <2>6. Whole'
      BY <1>0, <1>1, <1>2, <2>1 DEF Whole, Versioned, Restoring, Securing, Before, Updating, Old, New, Goal, Unchanged, Changed, Moved
    <2> QED BY <2>2, <2>3, <2>4, <2>5, <2>6 DEF CalmInv
  <1>23. CASE UpdateRestart
    <2>1. /\ wk.pc = "restart" /\ Moved("finish", wk.failed) /\ SameContainer /\ UNCHANGED <<srv, vol, arch, safety, job, eng, req>>
      BY <1>0, <1>1, <1>2, <1>3, <1>23, UpdateSteps DEF UpdateRestart, TurnedOn, SameContainer
    <2>2. Stopped' BY <1>0, <1>1, <1>2, <2>1 DEF Stopped, Serving, Delivered, OneLive, Live, Active, WasRunning, Moved, SameContainer
    <2>3. Versioned'
      BY <1>0, <1>1, <1>2, <1>3, <2>1 DEF Versioned, Delivered, OneLive, Live, Active, Securing, Before, Secured, Serving,
         Stages, UpdatePcs, FailingPcs, Updating, EngineHolds, Old, New, Goal, Unchanged, Changed, Outcome, Moved, SameContainer
    <2>4. Restoring'
      BY <1>0, <1>1, <1>2, <1>3, <2>1 DEF Restoring, Delivered, OneLive, Live, Active, Stages, UpdatePcs, EngineHolds,
         Securing, Before, Outcome, Moved, SameContainer
    <2>5. EngineHolds'
      BY <1>0, <1>1, <1>2, <1>3, <2>1 DEF EngineHolds, Stages, UpdatePcs, Restoring, Before, Versioned, FailingPcs, Updating, Spent,
         Securing, Moved, SameContainer
    <2>6. Whole'
      BY <1>0, <1>1, <1>2, <2>1 DEF Whole, Versioned, Restoring, Securing, Before, Updating, Old, New, Goal, Unchanged, Changed, Moved, SameContainer
    <2> QED BY <2>2, <2>3, <2>4, <2>5, <2>6 DEF CalmInv
  <1>24. CASE UpdateReturn
    <2>1. wk.pc = "return" /\ wk.kind # "restore" /\ wk.kind \in Jobs
      BY <1>0, <1>24 DEF UpdateReturn, Stages, UpdatePcs
    <2> QED BY <1>0, <1>1, <2>1 DEF Versioned, Updating
  <1> QED BY <1>4, <1>5, <1>6, <1>7, <1>8, <1>9, <1>10, <1>11, <1>12, <1>13, <1>14, <1>15, <1>16, <1>17, <1>18, <1>19, <1>20, <1>21, <1>22, <1>23, <1>24 DEF Handler, FinishBackupRestore, FinishTemplateUpdate

\* The engine keeps CalmInv.
LEMMA EngineCalm ==
  ASSUME TypeInv, BackupInv, CalmInv, Engine, [Next]_vars, Calm'
  PROVE  CalmInv'
  <1>0. /\ Typed /\ Stages /\ Securing
        /\ Stopped /\ Versioned /\ Restoring /\ EngineHolds /\ Whole
    BY DEF TypeInv, BackupInv, CalmInv
  <1>1. /\ \A k \in Jobs : k # "restore" <=> k \in {"rebase", "reinstall"}
        /\ eng.failed \in BOOLEAN /\ eng.cancelled \in BOOLEAN
    BY <1>0, Kinds DEF Typed, EngineState
  <1>2. /\ ~FailedStatement /\ (FailedCall => ~Spent /\ Spent') /\ (Spent => Spent')
        /\ \A c : Extracted(c) = {c}
    BY StaysCalm DEF Calm, Steady, Uncrossed, Extracted
  <1>3. eng.pc # "idle" /\ UNCHANGED <<srv, cont, arch, job, wk, req>>
    BY DEF Engine, EngineVerify, EngineSave, EngineClear, EngineCopy, EngineUndoClear, EngineUndoCopy, EngineRemove,
       EngineDrops
  <1>4. /\ eng.kind \in Jobs /\ (eng.kind = "restore" \/ wk.pc = "filesWait")
        /\ wk.pc = "filesWait" => wk.kind \in Jobs /\ Updating /\ eng.kind = wk.kind /\ eng.kind # "restore"
        /\ wk.pc \in {"wait", "filesWait"} => ~Running(cont.state) /\ Verified /\ eng.cancelled = FALSE
        /\ eng.cancelled = TRUE => Spent
        /\ eng.kind # "restore" => Spent /\ eng.cancelled = FALSE
    <2>1. eng.kind \in Jobs /\ (eng.kind = "restore" \/ wk.pc = "filesWait") BY <1>0, <1>3 DEF Stages, EngineHolds
    <2>2. wk.pc = "filesWait" => wk.kind \in Jobs /\ Updating /\ eng.kind = wk.kind /\ eng.kind # "restore"
      BY <1>0, <1>1, <1>3 DEF Stages, UpdatePcs, EngineHolds, Updating
    <2>3. wk.pc \in {"wait", "filesWait"} => ~Running(cont.state) /\ eng.cancelled = FALSE
      BY <1>0, <1>3 DEF Stopped, EngineHolds
    <2>4. wk.pc \in {"wait", "filesWait"} => Verified
      BY <1>0, <1>3, <2>1, <2>2 DEF Verified, Stages, Versioned
    <2>5. eng.cancelled = TRUE => Spent BY <1>0, <1>3 DEF EngineHolds
    <2>6. eng.kind # "restore" => Spent /\ eng.cancelled = FALSE
      BY <1>0, <2>1, <2>2, <2>3 DEF Versioned, FailingPcs
    <2> QED BY <2>1, <2>2, <2>3, <2>4, <2>5, <2>6
  <1>5. Stopped' BY <1>0, <1>3 DEF Stopped, Live
  <1>6. Versioned'
    <2>1. Updating => wk.pc = "filesWait" BY <1>0, <1>3 DEF Versioned
    <2> QED BY <1>0, <1>2, <1>3, <2>1 DEF Versioned, FailingPcs, Updating, Live, Old, New, Outcome
  <1>7. CASE EngineVerify
    <2>1. /\ eng.pc = "verify" /\ UNCHANGED <<vol, safety>>
          /\ \/ EngineAt("save", eng.failed)
             \/ EngineAt("error", eng.failed) /\ eng.kind = "restore"
      BY <1>0, <1>1, <1>2, <1>4, <1>7, EngineSteps DEF EngineVerify, EngineHolds
    <2>2. EngineHolds' BY <1>0, <1>1, <1>2, <1>3, <1>4, <2>1 DEF EngineHolds, EngineAt, Updating
    <2>3. Restoring' BY <1>0, <1>1, <1>3, <1>4, <2>1 DEF Restoring, EngineHolds, Stages, Securing, Before, Live, Outcome, EngineAt
    <2>4. Whole' BY <1>0, <1>1, <1>3, <1>4, <2>1 DEF Whole, EngineHolds, Stages, EngineAt
    <2> QED BY <1>5, <1>6, <2>2, <2>3, <2>4 DEF CalmInv
  <1>8. CASE EngineSave
    <2>1. /\ eng.pc = "save" /\ UNCHANGED vol
          /\ \/ EngineAt("clear", eng.failed) /\ safety' = vol
             \/ EngineAt("error", eng.failed) /\ eng.kind = "restore"
      BY <1>0, <1>1, <1>2, <1>4, <1>8, EngineSteps DEF EngineSave, EngineHolds
    <2>2. EngineHolds' BY <1>0, <1>1, <1>2, <1>3, <1>4, <2>1 DEF EngineHolds, EngineAt, Updating
    <2>3. Restoring' BY <1>0, <1>1, <1>3, <1>4, <2>1 DEF Restoring, EngineHolds, Stages, Securing, Before, Live, Outcome, EngineAt
    <2>4. Whole' BY <1>0, <1>1, <1>3, <1>4, <2>1 DEF Whole, EngineHolds, Stages, EngineAt
    <2> QED BY <1>5, <1>6, <2>2, <2>3, <2>4 DEF CalmInv
  <1>9. CASE EngineClear
    <2>1. /\ eng.pc = "clear" /\ UNCHANGED safety
          /\ \/ EngineAt("copy", eng.failed)
             \/ EngineAt("undoClear", eng.failed) /\ eng.kind = "restore" /\ Spent'
      BY <1>0, <1>1, <1>2, <1>4, <1>9, EngineSteps DEF EngineClear, EngineHolds
    <2>2. EngineHolds' BY <1>0, <1>1, <1>2, <1>3, <1>4, <2>1 DEF EngineHolds, EngineAt, Updating
    <2>3. Restoring' BY <1>0, <1>1, <1>3, <1>4, <2>1 DEF Restoring, EngineHolds, Stages, Securing, Before, Live, Outcome, EngineAt
    <2>4. Whole' BY <1>0, <1>1, <1>3, <1>4, <2>1 DEF Whole, EngineHolds, Stages, EngineAt
    <2> QED BY <1>5, <1>6, <2>2, <2>3, <2>4 DEF CalmInv
  <1>10. CASE EngineCopy
    <2>1. /\ eng.pc = "copy" /\ UNCHANGED safety
          /\ \/ EngineAt("remove", eng.failed) /\ vol' = arch[eng.kind].file
             \/ EngineAt("undoClear", eng.failed) /\ eng.kind = "restore" /\ Spent'
      BY <1>0, <1>1, <1>2, <1>4, <1>10, EngineSteps DEF EngineCopy, EngineHolds
    <2>2. EngineHolds' BY <1>0, <1>1, <1>2, <1>3, <1>4, <2>1 DEF EngineHolds, EngineAt, Updating
    <2>3. Restoring' BY <1>0, <1>1, <1>3, <1>4, <2>1 DEF Restoring, EngineHolds, Stages, Securing, Before, Live, Outcome, EngineAt
    <2>4. Whole' BY <1>0, <1>1, <1>3, <1>4, <2>1 DEF Whole, EngineHolds, Stages, EngineAt
    <2> QED BY <1>5, <1>6, <2>2, <2>3, <2>4 DEF CalmInv
  <1>11. CASE EngineUndoClear
    <2>1. eng.pc = "undoClear" /\ UNCHANGED safety /\ EngineAt("undoCopy", TRUE)
      BY <1>0, <1>1, <1>2, <1>4, <1>11, EngineSteps DEF EngineUndoClear, EngineHolds
    <2>2. EngineHolds' BY <1>0, <1>1, <1>2, <1>3, <1>4, <2>1 DEF EngineHolds, EngineAt, Updating
    <2>3. Restoring' BY <1>0, <1>1, <1>3, <1>4, <2>1 DEF Restoring, EngineHolds, Stages, Securing, Before, Live, Outcome, EngineAt
    <2>4. Whole' BY <1>0, <1>1, <1>3, <1>4, <2>1 DEF Whole, EngineHolds, Stages, EngineAt
    <2> QED BY <1>5, <1>6, <2>2, <2>3, <2>4 DEF CalmInv
  <1>12. CASE EngineUndoCopy
    <2>1. eng.pc = "undoCopy" /\ UNCHANGED safety /\ EngineAt("remove", eng.failed) /\ vol' = safety
      BY <1>0, <1>1, <1>2, <1>4, <1>12, EngineSteps DEF EngineUndoCopy, EngineHolds
    <2>2. EngineHolds' BY <1>0, <1>1, <1>2, <1>3, <1>4, <2>1 DEF EngineHolds, EngineAt, Updating
    <2>3. Restoring' BY <1>0, <1>1, <1>3, <1>4, <2>1 DEF Restoring, EngineHolds, Stages, Securing, Before, Live, Outcome, EngineAt
    <2>4. Whole' BY <1>0, <1>1, <1>3, <1>4, <2>1 DEF Whole, EngineHolds, Stages, EngineAt
    <2> QED BY <1>5, <1>6, <2>2, <2>3, <2>4 DEF CalmInv
  <1>13. CASE EngineRemove
    <2>1. eng.pc = "remove" /\ UNCHANGED vol /\ EngineAt(IF eng.failed THEN "error" ELSE "ok", eng.failed)
      BY <1>0, <1>1, <1>2, <1>4, <1>13, EngineSteps DEF EngineRemove, EngineHolds
    <2>2. EngineHolds' BY <1>0, <1>1, <1>2, <1>3, <1>4, <2>1 DEF EngineHolds, EngineAt, Updating
    <2>3. Restoring' BY <1>0, <1>1, <1>3, <1>4, <2>1 DEF Restoring, EngineHolds, Stages, Securing, Before, Live, Outcome, EngineAt
    <2>4. Whole' BY <1>0, <1>1, <1>3, <1>4, <2>1 DEF Whole, EngineHolds, Stages, EngineAt
    <2> QED BY <1>5, <1>6, <2>2, <2>3, <2>4 DEF CalmInv
  <1>14. CASE EngineDrops
    <2>1. eng.cancelled = TRUE /\ eng.pc \in {"ok", "error"} /\ eng'.pc = "idle" /\ UNCHANGED vol
      BY <1>1, <1>14 DEF EngineDrops, NoEngine
    <2>2. EngineHolds' BY <1>0, <1>1, <1>2, <1>3, <1>4, <2>1 DEF EngineHolds, EngineAt, Updating
    <2>3. Restoring' BY <1>0, <1>1, <1>3, <1>4, <2>1 DEF Restoring, EngineHolds, Stages, Securing, Before, Live, Outcome, EngineAt
    <2>4. Whole' BY <1>0, <1>1, <1>3, <1>4, <2>1 DEF Whole, EngineHolds, Stages, EngineAt
    <2> QED BY <1>5, <1>6, <2>2, <2>3, <2>4 DEF CalmInv
  <1> QED BY <1>7, <1>8, <1>9, <1>10, <1>11, <1>12, <1>13, <1>14 DEF Engine

\* Requests, claims and telemetry keep CalmInv.
LEMMA OutsideCalm ==
  ASSUME TypeInv, Serving, BackupInv, CalmInv, [Next]_vars, Calm'
  PROVE  CalmInv'
  <1>0. /\ Typed /\ Stages /\ OneLive /\ Delivered /\ Securing
        /\ Stopped /\ Versioned /\ Restoring /\ EngineHolds /\ Whole
        /\ srv \in ServerRow /\ req \in [Reqs -> PowerRequest] /\ OnlyStops /\ OnlyStops'
    BY StaysCalm DEF TypeInv, Typed, BackupInv, CalmInv, Calm
  <1>1. /\ \A k \in Jobs : k # "restore" <=> k \in {"rebase", "reinstall"}
        /\ None \notin Jobs /\ None \notin {"restore", "rebase", "reinstall"}
        /\ wk.pc # "idle" => wk.kind \in Jobs
        /\ wk.pc = "idle" => wk.kind = None
        /\ \A k \in Jobs : job[k].was \in BOOLEAN
    BY <1>0, Kinds DEF Stages, Typed, Job
  <1>2. ~FailedStatement /\ (FailedCall => ~Spent /\ Spent') /\ (Spent => Spent') BY StaysCalm
  <1>3. ASSUME NEW k \in Jobs, NEW i \in BOOLEAN, Accept(k, i), k # "restore" => srv.version = "old",
               \A j \in Jobs : arch'[j].file = arch[j].file /\ arch'[j].sha = arch[j].sha
        PROVE  CalmInv'
    <2>1. /\ job'[k].op = "pending" /\ job'[k].attempts = job[k].attempts
          /\ job'[k].was = (\/ srv.desired = "running"
                            \/ srv.status \in {"running", "starting", "restarting"})
          /\ \A j \in Jobs \ {k} : job'[j] = job[j]
      BY <1>0, <1>3, JobWrites
    <2>2. job'[k].before = job[k].before
      <3>1. job[k] \in Job /\ job \in [Jobs -> Job] BY <1>0 DEF Typed
      <3> DEFINE w == \/ srv.desired = "running"
                      \/ srv.status \in {"running", "starting", "restarting"}
      <3>2. job' = [job EXCEPT ![k] = [job[k] EXCEPT !.event = TRUE, !.op = "pending", !.installer = i, !.was = w]]
        BY <1>3, <3>1 DEF Accept
      <3> HIDE DEF w
      <3>3. job'[k] = [job[k] EXCEPT !.event = TRUE, !.op = "pending", !.installer = i, !.was = w] BY <3>1, <3>2
      <3> QED BY <3>1, <3>3 DEF Job
    <2>3. /\ job[k].op = "none" /\ UNCHANGED <<cont, vol, safety, wk, eng, req, fails>>
          /\ \A j \in Jobs : ~Live(j)
          /\ \A r \in Reqs : req[r].phase \in {"idle", "done"}
      BY <1>3 DEF Accept, NothingActive, Live
    <2>4. srv'.version = srv.version BY <1>0, <1>3 DEF Accept, ServerRow
    <2>5. wk.pc \in {"idle", "ack"} /\ (wk.pc = "ack" => wk.kind \in Jobs \ {k}) BY <1>0, <1>1, <2>3 DEF Delivered, Stages
    <2>6. \A j \in Jobs \ {k} : ~Live(j)' BY <2>1, <2>3 DEF Live
    <2>7. Live(k)' /\ job'[k].attempts = 0 BY <1>0, <2>1, <2>3 DEF Live, Active, Delivered
    <2>8. eng.kind = k => eng.pc = "idle" \/ job'[eng.kind].before = job[eng.kind].before BY <2>2
    <2>9. \A j \in Jobs : job'[j].before = job[j].before BY <2>1, <2>2
    <2>10. Stopped' BY <1>0, <2>1, <2>3, <2>5, <2>6, <2>7 DEF Stopped
    <2>11. Versioned'
      <3>1. Old \/ New BY <1>0, <2>3 DEF Versioned
      <3>2. k # "restore" => Old' BY <1>3, <2>3, <2>4, <3>1 DEF Old, New
      <3>3. (Old => Old') /\ (New => New') BY <2>3, <2>4 DEF Old, New
      <3>4. wk.pc = "ack" => job'[wk.kind] = job[wk.kind] BY <2>1, <2>5
      <3> QED BY <1>0, <1>1, <2>3, <2>5, <2>6, <3>1, <3>2, <3>3, <3>4
          DEF Versioned, Updating, FailingPcs, Unchanged, Changed, Goal, Outcome
    <2>12. Restoring' BY <1>0, <1>1, <2>1, <2>3, <2>5, <2>6, <2>7, <2>9 DEF Restoring, Outcome
    <2>13. EngineHolds' BY <1>0, <1>3, <2>3, <2>5, <2>9 DEF EngineHolds, Spent, Stages
    <2>14. Whole' BY <1>0, <2>3, <2>9 DEF Whole
    <2> QED BY <2>10, <2>11, <2>12, <2>13, <2>14 DEF CalmInv
  <1>4. CASE QueueBackupRestore BY <1>3, <1>4 DEF QueueBackupRestore
  <1>5. ASSUME NEW k \in Jobs, NEW i \in BOOLEAN, QueueTemplateUpdate(k, i) PROVE CalmInv'
    <2>1. arch' = [arch EXCEPT ![k].status = "queued"] /\ Accept(k, i) /\ srv.version = "old"
      BY <1>5 DEF QueueTemplateUpdate
    <2>2. arch'[k].file = arch[k].file /\ arch'[k].sha = arch[k].sha /\ \A j \in Jobs \ {k} : arch'[j] = arch[j]
      BY <1>0, <2>1, ArchiveWrites
    <2> QED BY <1>3, <2>1, <2>2
  <1>6. ASSUME NEW k \in Jobs, Claim(k) PROVE CalmInv'
    <2>1. wk'.pc = "begin" /\ wk'.kind = k /\ wk'.failed = FALSE /\ wk'.previous = "old" BY <1>6, ClaimTyped
    <2>2. /\ job'[k].op = job[k].op /\ SameJob(k)
          /\ job'[k].before = (IF job[k].attempts = 0 THEN vol ELSE job[k].before) /\ job'[k].attempts # 0
          /\ \A j \in Jobs \ {k} : job'[j] = job[j]
      BY <1>0, <1>6, JobWrites
    <2>3. /\ wk.pc = "idle" /\ job[k].event = TRUE /\ eng.pc = "idle"
          /\ UNCHANGED <<srv, cont, vol, arch, eng, req, fails>>
      <3>1. Uncrossed' BY DEF Calm, Steady
      <3> QED BY <1>0, <1>6, <3>1, ClaimsCross DEF Claim, Take, Typed, Job
    <2>4. Live(k) /\ \A j \in Jobs : Live(j)' <=> Live(j) BY <1>0, <2>2, <2>3 DEF Delivered, Live
    <2>5. \A j \in Jobs : job'[j].was = job[j].was BY <2>2 DEF SameJob
    <2>6. Before(k)' BY <1>0, <1>1, <2>2, <2>3, <2>4 DEF Securing, Restoring, Before
    <2>7. Stopped' BY <1>0, <2>1, <2>3, <2>4, <2>5 DEF Stopped
    <2>8. Versioned'
      BY <1>0, <1>1, <2>1, <2>3, <2>4, <2>6 DEF Versioned, OneLive, FailingPcs, Updating, Old, New, Unchanged, Changed, Before
    <2>9. Restoring' BY <1>0, <1>1, <2>1, <2>2, <2>4, <2>6 DEF Restoring, OneLive
    <2>10. EngineHolds' BY <2>1, <2>3 DEF EngineHolds
    <2>11. Whole' BY <1>0, <2>1, <2>2, <2>3 DEF Whole
    <2> QED BY <2>7, <2>8, <2>9, <2>10, <2>11 DEF CalmInv
  <1>7. ASSUME UNCHANGED <<vol, arch, safety, job, wk, eng>>, cont'.version = cont.version, srv'.version = srv.version,
               Running(cont'.state) => Running(cont.state),
               Running(cont'.state) => \/ srv'.desired = "running" \/ \E k \in Jobs : Live(k)
                                       \/ \E r \in Reqs : req'[r].phase \in {"call", "error"}
        PROVE  CalmInv'
    <2>1. Stopped' BY <1>0, <1>7 DEF Stopped, Live
    <2>2. (Old => Old') /\ (New => New') BY <1>7 DEF Old, New
    <2>3. Versioned' BY <1>0, <1>2, <1>7, <2>2 DEF Versioned, Live, Updating, Unchanged, Changed, Goal, Outcome
    <2>4. Restoring' /\ Whole' BY <1>0, <1>7 DEF Restoring, Live, Before, Outcome, Whole
    <2>5. EngineHolds' BY <1>0, <1>2, <1>7 DEF EngineHolds
    <2> QED BY <2>1, <2>3, <2>4, <2>5 DEF CalmInv
  <1>8. ASSUME NEW r \in Reqs, NEW a \in Actions, RequestPower(r, a) PROVE CalmInv'
    <2>1. req'[r] = [phase |-> "call", action |-> a] BY <1>0, <1>8 DEF RequestPower
    <2>2. req'[r].phase = "call" BY <2>1
    <2>3. srv'.version = srv.version /\ UNCHANGED <<vol, arch, safety, job, wk, eng, cont>>
      BY <1>0, <1>8 DEF RequestPower, ServerRow
    <2> QED BY <1>7, <2>2, <2>3
  <1>9. ASSUME NEW r \in Reqs, NEW ph, req' = [req EXCEPT ![r].phase = ph]
        PROVE  req'[r].phase = ph /\ \A q \in Reqs \ {r} : req'[q] = req[q]
    <2>1. req'[r] = [req[r] EXCEPT !.phase = ph] /\ req[r] \in PowerRequest BY <1>0, <1>9
    <2> QED BY <1>0, <1>9, <2>1 DEF PowerRequest
  <1>10. ASSUME NEW r \in Reqs, CallPower(r) PROVE CalmInv'
    <2>1. PICK ok \in BOOLEAN : /\ Power(req[r].action, ok)
                                /\ req' = [req EXCEPT ![r].phase = IF ok THEN "ok" ELSE "error"]
      BY <1>10 DEF CallPower
    <2>2. req[r].action \in {"stop", "kill"} BY <1>0, <1>10 DEF CallPower, OnlyStops
    <2>3. \/ ok = TRUE /\ TurnedOff /\ UNCHANGED fails
          \/ ok = FALSE /\ MaybeOff /\ FailedCall
      BY <1>0, <2>1, <2>2, PowerDoes
    <2>4. UNCHANGED <<srv, vol, arch, safety, job, wk, eng>> BY <1>10 DEF CallPower
    <2>5. req'[r].phase = IF ok THEN "ok" ELSE "error" BY <1>9, <2>1
    <2>6. /\ cont'.version = cont.version /\ (Running(cont'.state) => Running(cont.state))
          /\ Running(cont'.state) => req'[r].phase = "error"
      BY <2>3, <2>5 DEF TurnedOff, MaybeOff, SameContainer
    <2> QED BY <1>7, <2>4, <2>6
  <1>11. ASSUME NEW r \in Reqs, FinishPower(r) PROVE CalmInv'
    <2>1. req[r].phase \in {"ok", "error"} /\ req' = [req EXCEPT ![r].phase = "done"]
          /\ UNCHANGED <<vol, arch, safety, job, wk, eng, cont>>
      BY <1>11 DEF FinishPower
    <2>2. req'[r].phase = "done" /\ \A q \in Reqs \ {r} : req'[q] = req[q] BY <1>9, <2>1
    <2>3. DesiredBy(req[r].action) = "stopped" BY <1>0, <2>1 DEF OnlyStops, DesiredBy
    <2>4. /\ srv'.version = srv.version
          /\ srv.desired = "running" => srv'.desired = "running"
          /\ req[r].phase = "error" => srv'.desired = "running"
      <3>1. \A st, d : /\ [srv EXCEPT !.status = st].version = srv.version /\ [srv EXCEPT !.status = st].desired = srv.desired
                      /\ [srv EXCEPT !.status = st, !.desired = d].version = srv.version
                      /\ [srv EXCEPT !.status = st, !.desired = d].desired = d
        BY <1>0 DEF ServerRow
      <3>2. srv.desired \in {"running", "stopped"} BY <1>0 DEF ServerRow
      <3> QED BY <1>11, <2>1, <2>3, <3>1, <3>2 DEF FinishPower
    <2>5. Running(cont.state) => \/ srv'.desired = "running" \/ \E k \in Jobs : Live(k)
                                 \/ \E q \in Reqs : req'[q].phase \in {"call", "error"}
      BY <1>0, <2>1, <2>2, <2>4 DEF Stopped
    <2> QED BY <1>7, <2>1, <2>4, <2>5
  <1>12. CASE ObserveStatus \/ UNCHANGED vars
    <2>1. /\ srv'.version = srv.version /\ srv'.desired = srv.desired
          /\ UNCHANGED <<vol, arch, safety, job, wk, eng, cont, req>>
      BY <1>0, <1>12 DEF ObserveStatus, ServerRow, vars
    <2> QED BY <1>0, <1>7, <2>1 DEF Stopped
  <1>13. ~Crash /\ ~Retry /\ ~\E i \in DOMAIN stray : Stray(i) BY StaysCalm
  <1> QED BY <1>4, <1>5, <1>6, <1>8, <1>10, <1>11, <1>12, <1>13, HandlerCalm, EngineCalm DEF Next

\* The invariants of a calm history hold together.
LEMMA CalmHolds ==
  /\ Init => TypeInv /\ Serving /\ SecuredInv /\ BackupInv /\ CalmInv
  /\ /\ TypeInv /\ Serving /\ SecuredInv /\ (Steady => BackupInv) /\ (Calm => CalmInv) /\ [Next]_vars
     => TypeInv' /\ Serving' /\ SecuredInv' /\ (Steady => BackupInv)' /\ (Calm => CalmInv)'
  <1>1. ASSUME Init PROVE TypeInv /\ Serving /\ SecuredInv /\ BackupInv /\ CalmInv
    <2>1. TypeInv /\ SecuredInv /\ BackupInv BY <1>1, InitTyped, BackupStep
    <2>2. /\ wk.pc = "idle" /\ wk.kind = None /\ eng.pc = "idle" /\ vol = "original"
          /\ \A k \in Jobs : job[k].op = "none" /\ job[k].before = "original"
      BY <1>1 DEF Init, IdleWorker, NoEngine
    <2>3. None \notin {"restore", "rebase", "reinstall"} BY WorkflowAssumption
    <2>4. Serving BY <2>2 DEF Serving, FailingPcs
    <2>5. PICK started \in BOOLEAN :
            /\ srv = [status |-> IF started THEN "running" ELSE "stopped",
                      desired |-> IF started THEN "running" ELSE "stopped", version |-> "old"]
            /\ cont = [state |-> IF started THEN "running" ELSE "exited", version |-> "old"]
      BY <1>1 DEF Init
    <2>6. Old /\ (Running(cont.state) => srv.desired = "running") BY <2>5 DEF Old, Running
    <2>7. Stopped BY <2>2, <2>6 DEF Stopped, Live, Active
    <2>8. Versioned BY <2>2, <2>3, <2>6 DEF Versioned, Updating
    <2>9. Restoring /\ EngineHolds /\ Whole
      BY <2>2, <2>3 DEF Restoring, Live, Active, EngineHolds, Whole
    <2> QED BY <2>1, <2>4, <2>7, <2>8, <2>9 DEF CalmInv
  <1>2. ASSUME TypeInv, Serving, SecuredInv, Steady => BackupInv, Calm => CalmInv, [Next]_vars
        PROVE  TypeInv' /\ Serving' /\ SecuredInv' /\ (Steady => BackupInv)' /\ (Calm => CalmInv)'
    <2>1. TypeInv' /\ Serving' /\ SecuredInv' /\ (Steady => BackupInv)' BY <1>2, NextTyped, NextServing, BackupStep
    <2>2. ASSUME Calm' PROVE CalmInv'
      <3>1. Calm /\ Steady BY <1>2, <2>2, StaysCalm DEF Calm
      <3> QED BY <1>2, <2>2, <3>1, OutsideCalm
    <2> QED BY <2>1, <2>2
  <1> QED BY <1>1, <1>2

\* As long as the worker has not crashed, at most one engine call has failed and
\* power requests only stop the server, every restore and every template update
\* is recorded with the files, the version in the row and the container all as
\* they were, or all as they were to become, and only the latter as a success:
\* whichever call it is that fails or is given up, in whichever workflow, for
\* any number of requests, as long as no workflow is begun beside a call the engine
\* still serves.
THEOREM AllOrNothingHolds ==
  Spec => [](fails.engine <= 1 /\ OnlyStops => AllOrNothing)
  <1>1. ASSUME TypeInv, Calm => CalmInv, fails.engine <= 1, OnlyStops PROVE AllOrNothing
    <2> SUFFICES ASSUME wk.pc = "ack", eng.pc = "idle", crashes = 0, fails.store = 0, Uncrossed
                 PROVE  \/ /\ Outcome = "failed"
                           /\ vol = job[wk.kind].before
                           /\ Updating => srv.version = "old" /\ cont.version = "old"
                        \/ /\ vol = Target
                           /\ Updating => srv.version = "new" /\ cont.version = "new"
      BY DEF AllOrNothing, Recorded
    <2>1. /\ Versioned /\ Restoring /\ wk.kind \in Jobs /\ job[wk.kind].installer \in BOOLEAN
          /\ wk.kind = "restore" => job[wk.kind].installer = FALSE
      BY <1>1 DEF Calm, Steady, CalmInv, TypeInv, Stages, Typed, Job
    <2>2. CASE wk.kind = "restore"
      <3>1. Target = "selected" BY <2>1, <2>2 DEF Target
      <3> QED BY <2>1, <2>2, <3>1 DEF Restoring, Updating
    <2>3. CASE wk.kind # "restore"
      <3>1. Updating BY <1>1, <2>1, <2>3, Kinds DEF Updating
      <3>2. Target = Goal(wk.kind) BY <2>1, <2>3 DEF Target, Goal
      <3> QED BY <2>1, <3>1, <3>2 DEF Versioned, Unchanged, Changed, Old, New
    <2> QED BY <2>2, <2>3
  <1> QED BY <1>1, CalmHolds, PTL DEF Spec

-----------------------------------------------------------------------------
(* The volume across a crash.                                              *)

\* At most one crash, a database that answers, requests that only stop the server.
Tame == crashes <= 1 /\ fails.store = 0 /\ OnlyStops

\* Without installers and crossed claims, either no engine call has failed, or one has in a tame history.
Survivable ==
  /\ Uncrossed
  /\ \A k \in Jobs : job[k].installer = FALSE
  /\ fails.engine = 0 \/ (Spent /\ Tame)

\* The worker has crashed, and a restore is the only workflow that is active or will
\* be delivered; the server of a restore that will not stop it is stopped.
Alone ==
  /\ crashes = 1 /\ "restore" \in Jobs /\ Live("restore")
  /\ \A k \in Jobs \ {"restore"} : ~Live(k) /\ job[k].event = FALSE
  /\ job["restore"].was = FALSE => ~Running(cont.state)

\* The crash has left the engine at work on that restore.
Orphan == Alone /\ wk.pc = "idle" /\ eng.pc # "idle"

\* Its rollback has failed too, and the restore's next delivery has not yet replaced
\* the files.  It will: nothing is left that could fail.
Mending ==
  /\ Alone /\ Spent
  /\ \/ wk.pc = "idle"
     \/ wk.pc \in {"begin", "stop"} /\ wk.kind = "restore" /\ eng.pc = "idle"
     \/ wk.pc = "call" /\ eng.pc = "idle" /\ ~Running(cont.state)
     \/ /\ wk.pc = "wait" /\ eng.pc \in {"verify", "save", "clear", "copy"} /\ eng.kind = "restore"
        /\ eng.cancelled = FALSE /\ ~Running(cont.state)

\* Only a handler that called the engine, or gave its call up, finds it at work.
EngineFree ==
  wk.pc \notin {"wait", "filesWait", "start", "finish", "ack", "runtime", "restart", "idle"} => eng.pc = "idle"

ArchivesWhole == \A k \in Jobs : arch[k].file # "damaged"

\* The files are whole, or the archive from which a rollback restores them is.
FilesWhole ==
  /\ eng.pc \in {"idle", "verify", "save", "remove", "ok", "error"} => vol # "damaged" \/ Mending
  /\ eng.pc \in {"clear", "copy", "undoClear", "undoCopy"} => safety # "damaged" \/ Mending

\* In a tame history a rollback follows the failure that was allowed, or the crash.
Undone ==
  Tame /\ (eng.pc \in {"undoClear", "undoCopy"} \/ eng.cancelled = TRUE) => Spent \/ Orphan

SurviveInv == EngineFree /\ ArchivesWhole /\ FilesWhole /\ Undone

\* A job that was not requested has no installer.
Fresh == \A k \in Jobs : job[k].op = "none" => job[k].installer = FALSE

\* A job is requested once, and then it keeps its target.
LEMMA TargetKept ==
  ASSUME TypeInv, [Next]_vars, NEW k \in Jobs
  PROVE  \/ job[k].op = "none" /\ job'[k].op # "none"
         \/ job'[k].installer = job[k].installer /\ (job'[k].op = "none" => job[k].op = "none")
  <1> DEFINE Kept == \/ job[k].op = "none" /\ job'[k].op # "none"
                     \/ job'[k].installer = job[k].installer /\ (job'[k].op = "none" => job[k].op = "none")
  <1> SUFFICES Kept OBVIOUS
  <1>0. Typed /\ Stages BY DEF TypeInv
  <1>1. ASSUME NEW j \in Jobs, NEW i \in BOOLEAN, Accept(j, i) PROVE Kept
    <2>1. job[j].op = "none" /\ job'[j].op = "pending" /\ \A l \in Jobs \ {j} : job'[l] = job[l]
      BY <1>0, <1>1, JobWrites DEF Accept
    <2> QED BY <2>1
  <1>2. ASSUME NEW j \in Jobs, Claim(j) PROVE Kept
    BY <1>0, <1>2, JobWrites DEF SameJob
  <1>3. ASSUME UNCHANGED job PROVE Kept BY <1>3
  <1>4. ASSUME wk.kind \in Jobs, NEW x, OpBecomes(x), x # "none" PROVE Kept
    BY <1>4 DEF OpBecomes, SameRest, SameJob
  <1>5. CASE Handler
    <2>1. ASSUME wk.pc # "idle" PROVE wk.kind \in Jobs /\ job[wk.kind].op # "none" BY <1>0, <2>1 DEF Stages
    <2>2. CASE RestoreBegin BY <1>4, <2>1, <2>2, RestoreSteps DEF RestoreBegin
    <2>3. CASE UpdateBegin BY <1>4, <2>1, <2>3, UpdateSteps DEF UpdateBegin
    <2>4. CASE Finish
      <3>1. OpBecomes(IF wk.failed THEN "failed" ELSE "succeeded") /\ wk.kind \in Jobs
        BY <2>1, <2>4, RestoreSteps DEF Finish
      <3> QED BY <1>4, <3>1
    <2>5. CASE Ack BY <2>1, <2>5, RestoreSteps DEF Ack, SameRest, SameJob
    <2>6. CASE RestoreStop \/ RestoreCall \/ RestoreAnswered \/ RestoreLost \/ StartAgain
      BY <1>3, <2>6 DEF RestoreStop, RestoreCall, RestoreAnswered, RestoreLost, StartAgain
    <2>7. CASE UpdateArchive \/ UpdateRecord \/ UpdateStop \/ UpdateVersion \/ UpdateReturn \/ UpdateInstall
      BY <1>3, <2>7 DEF UpdateArchive, UpdateRecord, UpdateStop, UpdateVersion, UpdateReturn, UpdateInstall
    <2>8. CASE \/ UpdateReconfigure \/ UpdateRevert \/ UpdateFiles \/ UpdateFilesAnswered \/ UpdateRuntime
               \/ UpdateRestart
      BY <1>3, <2>8 DEF UpdateReconfigure, UpdateRevert, UpdateFiles, UpdateFilesAnswered, UpdateRuntime,
         UpdateRestart
    <2> QED BY <1>5, <2>2, <2>3, <2>4, <2>5, <2>6, <2>7, <2>8 DEF Handler, FinishBackupRestore, FinishTemplateUpdate
  <1>6. Engine => UNCHANGED job
    BY DEF Engine, EngineVerify, EngineSave, EngineClear, EngineCopy, EngineUndoClear, EngineUndoCopy, EngineRemove,
       EngineDrops
  <1>7. ASSUME NEW r \in Reqs, (\E a \in Actions : RequestPower(r, a)) \/ CallPower(r) \/ FinishPower(r)
        PROVE  UNCHANGED job
    BY <1>7 DEF RequestPower, CallPower, FinishPower
  <1>8. ObserveStatus \/ Crash \/ (\E i \in DOMAIN stray : Stray(i)) \/ UNCHANGED vars => UNCHANGED job
    BY DEF ObserveStatus, Crash, Stray, vars
  <1>9. QueueBackupRestore => Kept BY <1>1 DEF QueueBackupRestore
  <1>10. ASSUME NEW j \in Jobs, NEW i \in BOOLEAN, QueueTemplateUpdate(j, i) PROVE Kept
    BY <1>1, <1>10 DEF QueueTemplateUpdate
  <1>11. CASE Retry
    <2>1. UNCHANGED job \/ OpBecomes("running") BY <1>11, RetryDoes
    <2> QED BY <1>3, <1>4, <1>11, <2>1, RetryDoes
  <1> HIDE DEF Kept
  <1> QED BY <1>2, <1>3, <1>5, <1>6, <1>7, <1>8, <1>9, <1>10, <1>11 DEF Next

\* What is survivable was so before, and then a call fails at most once, in a tame
\* history.
LEMMA StaysSurvivable ==
  ASSUME TypeInv, Fresh, [Next]_vars, Survivable'
  PROVE  /\ Survivable /\ ~\E i \in DOMAIN stray : Stray(i)
         /\ Tame' => Tame /\ ~FailedStatement
         /\ Spent => Spent' /\ Tame'
         /\ FailedCall => fails.engine = 0 /\ Spent' /\ Tame' /\ Tame
  <1>0. fails.engine \in Nat /\ fails.store \in Nat /\ crashes \in Nat BY DEF TypeInv, Typed, FailCounts
  <1>1. \A k \in Jobs : job[k].installer = FALSE BY TargetKept DEF Fresh, Survivable
  <1>2. crashes' = crashes \/ crashes' = crashes + 1 BY CrashesCount DEF Crash
  <1>3. UNCHANGED fails \/ FailedCall \/ FailedStatement BY FailuresCount
  <1>4. fails'.engine = 0 \/ (fails'.engine = 1 /\ Tame') BY DEF Survivable, Spent
  <1>5. Tame' => Tame /\ ~FailedStatement
    <2> SUFFICES ASSUME Tame' PROVE Tame /\ ~FailedStatement OBVIOUS
    <2>1. crashes <= 1 BY <1>0, <1>2 DEF Tame
    <2>2. fails.store = 0 /\ ~FailedStatement BY <1>0, <1>3 DEF Tame, FailedCall, FailedStatement
    <2>3. OnlyStops BY StopsKept DEF Tame
    <2> QED BY <2>1, <2>2, <2>3 DEF Tame
  <1>6. Spent => Spent' /\ Tame' BY <1>0, <1>3, <1>4 DEF Spent, FailedCall, FailedStatement
  <1>7. FailedCall => fails.engine = 0 /\ Spent' /\ Tame' BY <1>0, <1>4 DEF FailedCall, Spent
  <1>8. fails.engine = 0 \/ (Spent /\ Tame) BY <1>0, <1>3, <1>4, <1>5 DEF FailedCall, FailedStatement, Spent
  <1>9. Uncrossed /\ ~\E i \in DOMAIN stray : Stray(i) BY StaysUncrossed DEF Survivable
  <1> QED BY <1>1, <1>5, <1>6, <1>7, <1>8, <1>9 DEF Survivable

\* Steps that leave the volume and the engine alone.
LEMMA FilesUntouched ==
  ASSUME TypeInv, Fresh, SurviveInv, [Next]_vars, Survivable',
         UNCHANGED <<vol, safety, eng>>, ArchivesWhole', EngineFree',
         Mending => Mending', Tame' /\ Orphan => Orphan'
  PROVE  SurviveInv'
  <1>1. FilesWhole' BY DEF SurviveInv, FilesWhole
  <1>2. Undone' BY StaysSurvivable DEF SurviveInv, Undone
  <1> QED BY <1>1, <1>2 DEF SurviveInv

\* The handlers keep SurviveInv.
LEMMA HandlerSurvives ==
  ASSUME TypeInv, Fresh, Serving, SurviveInv, Handler, [Next]_vars, Survivable'
  PROVE  SurviveInv'
  <1>0. /\ Typed /\ Stages /\ EngineFree /\ ArchivesWhole /\ FilesWhole /\ Undone
        /\ \A k \in Jobs : job[k].was \in BOOLEAN
    BY DEF TypeInv, SurviveInv, Typed, Job
  <1>1. /\ Survivable /\ (Tame' => Tame /\ ~FailedStatement) /\ (Spent => Spent' /\ Tame')
        /\ FailedCall => fails.engine = 0 /\ Spent' /\ Tame' /\ Tame
    BY StaysSurvivable
  <1>2. /\ wk.pc # "idle" /\ wk.kind \in Jobs /\ UNCHANGED crashes
        /\ ~Orphan
        /\ Mending => wk.kind = "restore" /\ wk.pc \in {"begin", "stop", "call", "wait"}
    <2>1. wk.pc # "idle" /\ UNCHANGED crashes
      BY DEF Handler, RestoreBegin, RestoreStop, RestoreCall, RestoreAnswered, RestoreLost, StartAgain, UpdateBegin,
       UpdateArchive, UpdateRecord, UpdateStop, UpdateVersion, UpdateReturn, UpdateInstall, UpdateReconfigure,
       UpdateRevert, UpdateFiles, UpdateFilesAnswered, UpdateRuntime, UpdateRestart, FinishBackupRestore,
       FinishTemplateUpdate, Finish, Ack
    <2> QED BY <1>0, <2>1 DEF Stages, Orphan, Mending
  <1>3. IdleWorker.pc = "idle" /\ NoEngine.pc = "idle" /\ NoEngine.cancelled = FALSE BY DEF IdleWorker, NoEngine
  <1>4. ASSUME UNCHANGED <<vol, safety, eng>>, ArchivesWhole', EngineFree', Mending => Mending' PROVE SurviveInv'
    BY <1>2, <1>4, FilesUntouched
  <1>5. UNCHANGED arch => ArchivesWhole' BY <1>0 DEF ArchivesWhole
  <1>6. CASE RestoreBegin
    <2>1. /\ wk.pc = "begin" /\ wk.kind = "restore" /\ OpBecomes("running")
          /\ Moved(IF WasRunning THEN "stop" ELSE "call", wk.failed)
          /\ UNCHANGED <<srv, cont, vol, arch, safety, eng, req, fails>>
      BY <1>6, RestoreSteps DEF RestoreBegin
    <2>2. EngineFree' BY <1>0, <2>1 DEF EngineFree, Moved
    <2>3. Mending => Mending'
      <3> SUFFICES ASSUME Mending PROVE Mending' OBVIOUS
      <3>1. Alone' BY <1>2, <2>1 DEF Mending, Alone, Live, Active, OpBecomes, SameRest, SameJob
      <3>2. Alone /\ eng.pc = "idle" /\ Spent' BY <1>1, <2>1 DEF Mending
      <3>3. wk'.pc = "call" => ~Running(cont'.state)
        BY <1>0, <2>1, <3>2 DEF Alone, WasRunning, Moved
      <3> QED BY <2>1, <3>1, <3>2, <3>3 DEF Mending, Moved
    <2> QED BY <1>4, <1>5, <2>1, <2>2, <2>3
  <1>7. CASE RestoreStop
    <2>1. /\ wk.pc = "stop" /\ wk.kind = "restore" /\ UNCHANGED <<srv, vol, arch, safety, job, eng, req>>
          /\ \/ Moved("call", wk.failed) /\ TurnedOff
             \/ Moved("start", TRUE) /\ FailedCall
      BY <1>0, <1>7, RestoreSteps DEF RestoreStop, Stages
    <2>2. EngineFree' BY <1>0, <2>1 DEF EngineFree, Moved
    <2>3. Mending => Mending'
      <3> SUFFICES ASSUME Mending PROVE Mending' OBVIOUS
      <3>1. ~FailedCall /\ Spent' BY <1>1 DEF Mending, Spent
      <3>2. ~Running(cont'.state) /\ wk'.pc = "call" /\ eng'.pc = "idle"
        BY <2>1, <3>1 DEF Mending, TurnedOff, Moved
      <3>3. Alone' BY <1>2, <2>1, <3>2 DEF Mending, Alone, Live
      <3> QED BY <3>1, <3>2, <3>3 DEF Mending
    <2> QED BY <1>4, <1>5, <2>1, <2>2, <2>3
  <1>8. CASE RestoreCall
    <2>1. /\ wk.pc = "call" /\ wk.kind = "restore" /\ UNCHANGED <<srv, cont, vol, arch, safety, job, req>>
          /\ \/ EngineCalled /\ Moved("wait", wk.failed) /\ UNCHANGED fails
             \/ UNCHANGED eng /\ FailedStatement /\ Moved(AfterRestore, TRUE)
      BY <1>0, <1>8, RestoreSteps DEF RestoreCall, Stages
    <2>2. CASE EngineCalled /\ Moved("wait", wk.failed) /\ UNCHANGED fails
      <3>1. Mending => Mending' BY <1>2, <2>1, <2>2 DEF Mending, Alone, Live, Spent, EngineCalled, Moved
      <3>2. EngineFree' BY <2>2 DEF EngineFree, Moved
      <3>3. FilesWhole'
        BY <1>0, <2>1, <2>2, <3>1 DEF FilesWhole, EngineFree, EngineCalled
      <3>4. Undone' BY <2>2 DEF Undone, EngineCalled
      <3> QED BY <1>5, <2>1, <3>2, <3>3, <3>4 DEF SurviveInv
    <2>3. CASE UNCHANGED eng /\ FailedStatement /\ Moved(AfterRestore, TRUE)
      <3>1. ~Mending BY <1>1, <2>3 DEF Mending
      <3>2. EngineFree' BY <1>0, <2>1, <2>3 DEF EngineFree, Moved, AfterRestore
      <3> QED BY <1>4, <1>5, <2>1, <2>3, <3>1, <3>2
    <2> QED BY <2>1, <2>2, <2>3
  <1>9. ASSUME eng' = NoEngine, eng.pc \in {"ok", "error"}, UNCHANGED <<vol, arch>> PROVE SurviveInv'
    <2>1. ~Mending BY <1>2, <1>9 DEF Mending
    <2>2. FilesWhole' BY <1>0, <1>3, <1>9, <2>1 DEF FilesWhole
    <2>3. EngineFree' /\ Undone' BY <1>3, <1>9 DEF EngineFree, Undone
    <2> QED BY <1>5, <1>9, <2>2, <2>3 DEF SurviveInv
  <1>10. CASE RestoreAnswered \/ UpdateFilesAnswered BY <1>9, <1>10 DEF RestoreAnswered, UpdateFilesAnswered
  <1>11. CASE RestoreLost
    <2>1. /\ FailedCall /\ eng'.pc = eng.pc /\ eng'.cancelled = TRUE /\ UNCHANGED <<vol, arch, safety>>
          /\ \/ Moved(AfterRestore, TRUE)
             \/ Moved("runtime", wk.failed)
      BY <1>11, RestoreSteps DEF RestoreLost
    <2>2. ~Mending /\ Spent' BY <1>1, <2>1 DEF Mending, Spent
    <2>3. EngineFree' BY <2>1 DEF EngineFree, Moved, AfterRestore
    <2>4. FilesWhole' BY <1>0, <2>1, <2>2 DEF FilesWhole
    <2>5. Undone' BY <2>2 DEF Undone
    <2> QED BY <1>5, <2>1, <2>3, <2>4, <2>5 DEF SurviveInv
  <1>12. ASSUME wk.pc \notin {"begin", "stop", "call", "wait"} \/ wk.kind # "restore",
                UNCHANGED <<vol, safety, eng>>, ArchivesWhole', EngineFree'
         PROVE  SurviveInv'
    BY <1>2, <1>4, <1>12
  <1>13. CASE StartAgain
    <2>1. /\ wk.pc = "start" /\ UNCHANGED <<vol, arch, safety, eng>>
          /\ Moved("finish", wk.failed) \/ Moved("finish", TRUE)
      BY <1>13, RestoreSteps DEF StartAgain
    <2> QED BY <1>5, <1>12, <2>1 DEF EngineFree, Moved
  <1>14. CASE Finish
    <2>1. wk.pc = "finish" /\ UNCHANGED <<vol, arch, safety, eng>> /\ Moved("ack", wk.failed)
      BY <1>14, RestoreSteps DEF Finish
    <2> QED BY <1>5, <1>12, <2>1 DEF EngineFree, Moved
  <1>15. CASE Ack
    <2>1. wk.pc = "ack" /\ UNCHANGED <<vol, arch, safety, eng>> /\ wk'.pc = "idle"
      BY <1>3, <1>15, RestoreSteps DEF Ack
    <2> QED BY <1>5, <1>12, <2>1 DEF EngineFree
  <1>16. CASE UpdateBegin
    <2>1. /\ wk.pc = "begin" /\ wk.kind # "restore" /\ UNCHANGED <<vol, safety, eng>> /\ Moved("archive", wk.failed)
          /\ \A j \in Jobs : arch'[j].file = arch[j].file
      BY <1>16, UpdateSteps DEF UpdateBegin
    <2>2. ArchivesWhole' /\ EngineFree' BY <1>0, <2>1 DEF ArchivesWhole, EngineFree, Moved
    <2> QED BY <1>12, <2>1, <2>2
  <1>17. CASE UpdateArchive
    <2>1. /\ wk.pc = "archive" /\ UNCHANGED <<vol, safety, eng>> /\ (Archives(vol) \/ Archives(arch[wk.kind].file))
          /\ Moved("record", wk.failed) \/ wk' = IdleWorker \/ Moved("finish", TRUE)
      BY <1>17, UpdateSteps DEF UpdateArchive
    <2>2. eng.pc = "idle" /\ vol # "damaged" BY <1>0, <1>2, <2>1 DEF EngineFree, FilesWhole
    <2>3. ArchivesWhole' BY <1>0, <1>2, <2>1, <2>2 DEF ArchivesWhole, Archives
    <2>4. EngineFree' BY <2>1, <2>2 DEF EngineFree
    <2> QED BY <1>12, <2>1, <2>3, <2>4
  <1>18. CASE UpdateRecord
    <2>1. wk.pc = "record" /\ UNCHANGED <<vol, safety, eng>> /\ Archives(arch[wk.kind].file)
      BY <1>18, UpdateSteps DEF UpdateRecord
    <2>2. ArchivesWhole' BY <1>0, <1>2, <2>1 DEF ArchivesWhole, Archives
    <2>3. EngineFree' BY <1>0, <2>1 DEF EngineFree
    <2> QED BY <1>12, <2>1, <2>2, <2>3
  <1>19. ASSUME wk.pc \in {"stopping", "version", "return", "reconfigure", "revert"},
                UNCHANGED <<vol, arch, safety, eng>>
         PROVE  SurviveInv'
    <2>1. EngineFree' BY <1>0, <1>19 DEF EngineFree
    <2> QED BY <1>5, <1>12, <1>19, <2>1
  <1>20. CASE UpdateStop \/ UpdateVersion \/ UpdateReturn \/ UpdateReconfigure \/ UpdateRevert
    BY <1>19, <1>20 DEF UpdateStop, UpdateVersion, UpdateReturn, UpdateReconfigure, UpdateRevert
  <1>21. CASE UpdateInstall
    <2>1. wk.pc = "install" BY <1>21 DEF UpdateInstall
    <2>2. job[wk.kind].installer = TRUE BY <1>0, <2>1 DEF Stages
    <2> QED BY <1>1, <1>2, <2>2 DEF Survivable
  <1>22. CASE UpdateFiles
    <2>1. /\ wk.pc = "files" /\ EngineCalled /\ Moved("filesWait", wk.failed)
          /\ UNCHANGED <<vol, arch, safety>>
      BY <1>22, UpdateSteps DEF UpdateFiles
    <2>2. vol # "damaged" BY <1>0, <1>2, <2>1 DEF EngineFree, FilesWhole
    <2>3. EngineFree' /\ FilesWhole' /\ Undone'
      BY <2>1, <2>2 DEF EngineFree, FilesWhole, Undone, EngineCalled, Moved
    <2> QED BY <1>5, <2>1, <2>3 DEF SurviveInv
  <1>23. CASE UpdateRuntime
    <2>1. /\ wk.pc = "runtime" /\ UNCHANGED <<vol, arch, safety, eng>>
          /\ Moved(IF WasRunning THEN "restart" ELSE "finish", wk.failed)
      BY <1>23, UpdateSteps DEF UpdateRuntime
    <2> QED BY <1>5, <1>12, <2>1 DEF EngineFree, Moved
  <1>24. CASE UpdateRestart
    <2>1. wk.pc = "restart" /\ UNCHANGED <<vol, arch, safety, eng>> /\ Moved("finish", wk.failed)
      BY <1>24, UpdateSteps DEF UpdateRestart
    <2> QED BY <1>5, <1>12, <2>1 DEF EngineFree, Moved
  <1> QED BY <1>6, <1>7, <1>8, <1>10, <1>11, <1>13, <1>14, <1>15, <1>16, <1>17, <1>18, <1>20, <1>21, <1>22, <1>23, <1>24
      DEF Handler, FinishBackupRestore, FinishTemplateUpdate

\* The engine's restore keeps SurviveInv.
LEMMA EngineSurvives ==
  ASSUME TypeInv, Fresh, SurviveInv, Engine, [Next]_vars, Survivable'
  PROVE  SurviveInv'
  <1>0. Typed /\ Stages /\ EngineFree /\ ArchivesWhole /\ FilesWhole /\ Undone BY DEF TypeInv, SurviveInv
  <1>1. /\ (Tame' => Tame) /\ (Spent => Spent')
        /\ FailedCall => fails.engine = 0 /\ Spent' /\ Tame
        /\ \A c : Extracted(c) = {c}
    BY StaysSurvivable DEF Survivable, Uncrossed, Extracted
  <1>2. /\ eng.pc # "idle" /\ UNCHANGED <<arch, cont, job, wk, crashes>> /\ eng.kind \in Jobs
        /\ eng.cancelled \in BOOLEAN /\ eng.failed \in BOOLEAN
    <2>1. eng.pc # "idle" /\ UNCHANGED <<arch, cont, job, wk, crashes>>
      BY DEF Engine, EngineVerify, EngineSave, EngineClear, EngineCopy, EngineUndoClear, EngineUndoCopy,
         EngineRemove, EngineDrops
    <2> QED BY <1>0, <2>1 DEF Stages, Typed, EngineState
  <1>3. /\ ArchivesWhole' /\ EngineFree' /\ arch[eng.kind].file # "damaged"
        /\ Alone => Alone'
    BY <1>0, <1>2 DEF ArchivesWhole, EngineFree, Alone, Live
  <1>4. /\ Mending => Spent' /\ ~FailedCall
        /\ Mending => wk.pc = "idle" \/ wk.pc = "wait"
        /\ Mending /\ wk.pc = "idle" => Mending'
        /\ Mending /\ wk.pc = "wait" => /\ eng.pc \in {"verify", "save", "clear", "copy"} /\ eng.cancelled = FALSE
                                        /\ ~Running(cont.state) /\ Verified
    <2>1. Mending => Spent' /\ ~FailedCall BY <1>1 DEF Mending, Spent
    <2>2. Mending /\ wk.pc = "idle" => Mending' BY <1>2, <1>3, <2>1 DEF Mending
    <2>3. eng.kind = "restore" => Verified BY <1>0, <1>2 DEF Stages, Verified
    <2> QED BY <1>2, <2>1, <2>2, <2>3 DEF Mending
  <1>5. ASSUME NEW pc \in {"verify", "save", "clear", "copy"}, NEW f, EngineAt(pc, f) PROVE Mending => Mending'
    BY <1>2, <1>3, <1>4, <1>5 DEF Mending, EngineAt
  <1>6. ASSUME NEW pc \in EnginePcs \ {"idle"}, NEW f, EngineAt(pc, f),
               pc \in {"undoClear", "undoCopy"} =>
                 FailedCall \/ eng.cancelled = TRUE \/ eng.pc \in {"undoClear", "undoCopy"}
        PROVE  Undone'
    <2> SUFFICES ASSUME Tame', pc \in {"undoClear", "undoCopy"} \/ eng.cancelled = TRUE PROVE Spent' \/ Orphan'
      BY <1>6 DEF Undone, EngineAt
    <2>1. CASE FailedCall BY <1>1, <2>1
    <2>2. CASE eng.cancelled = TRUE \/ eng.pc \in {"undoClear", "undoCopy"}
      <3>1. Spent \/ Orphan BY <1>0, <1>1, <2>2 DEF Undone
      <3>2. Orphan => Orphan' BY <1>2, <1>3, <1>6 DEF Orphan, EngineAt
      <3> QED BY <1>1, <3>1, <3>2
    <2> QED BY <1>6, <2>1, <2>2
  <1>7. {"save", "clear", "copy", "undoClear", "undoCopy", "remove", "ok", "error"} \subseteq EnginePcs \ {"idle"}
    BY DEF EnginePcs
  <1>8. CASE EngineVerify
    <2>1. eng.pc = "verify" /\ UNCHANGED vol /\ (EngineAt("save", eng.failed) \/ EngineAt("error", eng.failed))
      BY <1>8, EngineSteps DEF EngineVerify
    <2>2. Mending => Mending'
      <3>1. CASE EngineAt("save", eng.failed) BY <1>5, <3>1
      <3>2. CASE ~EngineAt("save", eng.failed)
        <4>1. FailedCall \/ eng.cancelled \/ Running(cont.state) \/ ~Verified BY <1>8, <3>2, EngineSteps
        <4> QED BY <1>4, <4>1
      <3> QED BY <3>1, <3>2
    <2>3. FilesWhole' BY <1>0, <2>1, <2>2 DEF FilesWhole, EngineAt
    <2>4. Undone' BY <1>6, <1>7, <2>1
    <2> QED BY <1>3, <2>3, <2>4 DEF SurviveInv
  <1>9. CASE EngineSave
    <2>1. /\ eng.pc = "save" /\ UNCHANGED vol
          /\ \/ safety' = vol /\ EngineAt("clear", eng.failed)
             \/ EngineAt("error", eng.failed) /\ (eng.cancelled \/ FailedCall)
      BY <1>9, EngineSteps DEF EngineSave
    <2>2. Mending => Mending'
      <3>1. CASE EngineAt("clear", eng.failed) BY <1>5, <3>1
      <3>2. CASE eng.cancelled \/ FailedCall BY <1>4, <3>2
      <3> QED BY <2>1, <3>1, <3>2
    <2>3. FilesWhole' BY <1>0, <2>1, <2>2 DEF FilesWhole, EngineAt
    <2>4. Undone' BY <1>6, <1>7, <2>1
    <2> QED BY <1>3, <2>3, <2>4 DEF SurviveInv
  <1>10. CASE EngineClear
    <2>1. /\ eng.pc = "clear" /\ UNCHANGED safety
          /\ \/ EngineAt("copy", eng.failed)
             \/ EngineAt("undoClear", eng.failed) /\ (eng.cancelled \/ FailedCall)
      BY <1>10, EngineSteps DEF EngineClear
    <2>2. Mending => Mending'
      <3>1. CASE EngineAt("copy", eng.failed) BY <1>5, <3>1
      <3>2. CASE eng.cancelled \/ FailedCall BY <1>4, <3>2
      <3> QED BY <2>1, <3>1, <3>2
    <2>3. FilesWhole' BY <1>0, <2>1, <2>2 DEF FilesWhole, EngineAt
    <2>4. Undone' BY <1>2, <1>6, <1>7, <2>1
    <2> QED BY <1>3, <2>3, <2>4 DEF SurviveInv
  <1>11. CASE EngineCopy
    <2>1. /\ eng.pc = "copy" /\ UNCHANGED safety
          /\ \/ EngineAt("remove", eng.failed) /\ vol' = arch[eng.kind].file
             \/ EngineAt("undoClear", eng.failed) /\ (eng.cancelled \/ FailedCall)
      BY <1>1, <1>11, EngineSteps DEF EngineCopy
    <2>2. Mending /\ (eng.cancelled \/ FailedCall) => Mending' BY <1>4
    <2>3. FilesWhole' BY <1>0, <1>3, <2>1, <2>2 DEF FilesWhole, EngineAt
    <2>4. Undone' BY <1>2, <1>6, <1>7, <2>1
    <2> QED BY <1>3, <2>3, <2>4 DEF SurviveInv
  <1>12. ASSUME FailedCall, eng.pc \in {"undoClear", "undoCopy"} PROVE Mending'
    <2>1. Tame /\ ~Spent /\ Spent' BY <1>1, <1>12 DEF Spent
    <2>2. Alone /\ wk.pc = "idle" BY <1>0, <1>12, <2>1 DEF Undone, Orphan
    <2> QED BY <1>2, <1>3, <2>1, <2>2 DEF Mending
  <1>13. CASE EngineUndoClear
    <2>1. /\ eng.pc = "undoClear" /\ UNCHANGED safety
          /\ EngineAt("undoCopy", TRUE) \/ (EngineAt("remove", TRUE) /\ FailedCall)
      BY <1>13, EngineSteps DEF EngineUndoClear
    <2>2. Mending => Mending' BY <1>4, <2>1
    <2>3. FilesWhole' BY <1>0, <1>12, <2>1, <2>2 DEF FilesWhole, EngineAt
    <2>4. Undone' BY <1>6, <1>7, <2>1
    <2> QED BY <1>3, <2>3, <2>4 DEF SurviveInv
  <1>14. CASE EngineUndoCopy
    <2>1. /\ eng.pc = "undoCopy" /\ EngineAt("remove", eng.failed)
          /\ vol' = safety \/ FailedCall
      BY <1>1, <1>14, EngineSteps DEF EngineUndoCopy
    <2>2. Mending => Mending' BY <1>4, <2>1
    <2>3. FilesWhole' BY <1>0, <1>12, <2>1, <2>2 DEF FilesWhole, EngineAt
    <2>4. Undone' BY <1>6, <1>7, <2>1
    <2> QED BY <1>3, <2>3, <2>4 DEF SurviveInv
  <1>15. CASE EngineRemove
    <2>1. eng.pc = "remove" /\ UNCHANGED vol /\ EngineAt(IF eng.failed THEN "error" ELSE "ok", eng.failed)
      BY <1>15, EngineSteps DEF EngineRemove
    <2>2. Mending => Mending' BY <1>4, <2>1
    <2>3. FilesWhole' BY <1>0, <2>1, <2>2 DEF FilesWhole, EngineAt
    <2>4. Undone' BY <1>6, <1>7, <2>1
    <2> QED BY <1>3, <2>3, <2>4 DEF SurviveInv
  <1>16. CASE EngineDrops
    <2>1. eng.pc \in {"ok", "error"} /\ UNCHANGED vol /\ eng'.pc = "idle" /\ eng'.cancelled = FALSE
      BY <1>16 DEF EngineDrops, NoEngine
    <2>2. Mending => Mending' BY <1>4, <2>1
    <2>3. FilesWhole' BY <1>0, <2>1, <2>2 DEF FilesWhole
    <2>4. Undone' BY <2>1 DEF Undone
    <2> QED BY <1>3, <2>3, <2>4 DEF SurviveInv
  <1> QED BY <1>8, <1>9, <1>10, <1>11, <1>13, <1>14, <1>15, <1>16 DEF Engine

\* A crash keeps SurviveInv: the first one in a tame history leaves the engine with
\* the only workflow there is.
LEMMA CrashSurvives ==
  ASSUME TypeInv, Fresh, SurviveInv, Crash, [Next]_vars, Survivable',
         Calm => BackupInv /\ CalmInv
  PROVE  SurviveInv'
  <1>0. Typed /\ Stages /\ ArchivesWhole /\ FilesWhole /\ Undone BY DEF TypeInv, SurviveInv
  <1>1. /\ Survivable /\ (Tame' => Tame) /\ (Spent => Spent' /\ Tame')
    BY StaysSurvivable
  <1>2. /\ wk.pc # "idle" /\ wk'.pc = "idle" /\ crashes' = crashes + 1 /\ wk.kind \in Jobs
        /\ UNCHANGED <<cont, arch, safety, job, fails>> /\ crashes \in Nat
    BY <1>0 DEF Crash, IdleWorker, Stages, Typed
  <1>3. \/ eng.pc \in {"idle", "ok", "error"} /\ eng'.pc = "idle" /\ eng'.cancelled = FALSE
        \/ eng.pc \notin {"idle", "ok", "error"} /\ eng'.pc = eng.pc /\ eng'.cancelled = TRUE
    <2>1. [eng EXCEPT !.cancelled = TRUE].pc = eng.pc /\ [eng EXCEPT !.cancelled = TRUE].cancelled = TRUE
      BY <1>0, EngineMoves
    <2>2. eng.pc = "idle" => eng.cancelled = FALSE BY <1>0 DEF Stages, NoEngine
    <2>3. NoEngine.pc = "idle" /\ NoEngine.cancelled = FALSE BY DEF NoEngine
    <2> QED BY <2>1, <2>2, <2>3 DEF Crash
  <1>4. UNCHANGED vol
    <2>1. wk.pc # "install" BY <1>0, <1>1, <1>2 DEF Stages, Survivable
    <2> QED BY <2>1 DEF Crash
  <1>5. ~Mending BY <1>1, <1>2 DEF Mending, Alone, Tame
  <1>6. EngineFree' /\ ArchivesWhole' BY <1>0, <1>2 DEF EngineFree, ArchivesWhole
  <1>7. FilesWhole' BY <1>0, <1>2, <1>3, <1>4, <1>5 DEF FilesWhole
  <1>8. Undone'
    <2> SUFFICES ASSUME Tame', eng'.pc # "idle", ~Spent PROVE Orphan'
      BY <1>2, <1>3 DEF Undone, Spent
    <2>1. crashes = 0 /\ Tame BY <1>1, <1>2 DEF Tame
    <2>2. BackupInv /\ CalmInv
      <3>1. fails.engine <= 1 BY <1>1 DEF Survivable, Spent
      <3>2. Calm BY <1>1, <2>1, <3>1 DEF Calm, Steady, Tame, Survivable
      <3> QED BY <3>2
    <2>3. eng.pc # "idle" /\ wk.pc = "wait" /\ wk.kind = "restore"
      <3>1. eng.pc # "idle" BY <1>3
      <3>2. wk.pc \in {"wait", "filesWait"} BY <2>2, <3>1 DEF CalmInv, EngineHolds
      <3>3. wk.pc # "filesWait"
        <4>1. wk.pc = "filesWait" => Updating BY <1>0 DEF Stages, Updating
        <4> QED BY <2>2, <4>1 DEF CalmInv, Versioned, FailingPcs
      <3> QED BY <1>0, <3>1, <3>2, <3>3 DEF Stages
    <2>4. Live("restore") BY <2>2, <2>3 DEF BackupInv, Delivered
    <2>5. \A k \in Jobs \ {"restore"} : ~Live(k) /\ job[k].event = FALSE
      <3> SUFFICES ASSUME NEW k \in Jobs \ {"restore"} PROVE ~Live(k) /\ job[k].event = FALSE OBVIOUS
      <3>1. ~Live(k) BY <1>2, <2>2, <2>3, <2>4 DEF BackupInv, OneLive
      <3>2. job[k].event # TRUE BY <2>2, <2>3, <3>1 DEF BackupInv, Delivered
      <3>3. job[k].event \in BOOLEAN BY <1>0 DEF Typed, Job
      <3> QED BY <3>1, <3>2, <3>3
    <2>6. job["restore"].was = FALSE => ~Running(cont.state) BY <1>2, <2>2, <2>3, <2>4 DEF CalmInv, Stopped
    <2> QED BY <1>2, <2>1, <2>3, <2>4, <2>5, <2>6 DEF Orphan, Alone, Live
  <1> QED BY <1>6, <1>7, <1>8 DEF SurviveInv

\* Requests, claims and telemetry keep SurviveInv.
LEMMA NextSurvives ==
  ASSUME TypeInv, Fresh, Serving, SurviveInv, [Next]_vars, Survivable',
         Calm => BackupInv /\ CalmInv
  PROVE  SurviveInv'
  <1>0. Typed /\ Stages /\ EngineFree /\ ArchivesWhole /\ FilesWhole BY DEF TypeInv, SurviveInv
  <1>1. (Tame' => Tame) /\ (Spent => Spent' /\ Tame') BY StaysSurvivable
  <1>2. ASSUME NEW k \in Jobs, NEW i \in BOOLEAN, Accept(k, i), \A j \in Jobs : arch'[j].file = arch[j].file
        PROVE  SurviveInv'
    <2>1. UNCHANGED <<vol, safety, wk, eng>> /\ \A j \in Jobs : ~Live(j) BY <1>2 DEF Accept, NothingActive, Live
    <2>2. ~Alone BY <2>1 DEF Alone
    <2>3. ArchivesWhole' /\ EngineFree' BY <1>0, <1>2, <2>1 DEF ArchivesWhole, EngineFree
    <2> QED BY <2>1, <2>2, <2>3, FilesUntouched DEF Mending, Orphan
  <1>3. CASE QueueBackupRestore BY <1>2, <1>3 DEF QueueBackupRestore
  <1>4. ASSUME NEW k \in Jobs, NEW i \in BOOLEAN, QueueTemplateUpdate(k, i) PROVE SurviveInv'
    <2>1. arch' = [arch EXCEPT ![k].status = "queued"] /\ Accept(k, i) BY <1>4 DEF QueueTemplateUpdate
    <2>2. arch'[k].file = arch[k].file /\ \A j \in Jobs \ {k} : arch'[j] = arch[j] BY <1>0, <2>1, ArchiveWrites
    <2> QED BY <1>2, <2>1, <2>2
  <1>5. ASSUME NEW k \in Jobs, Claim(k) PROVE SurviveInv'
    <2>1. wk'.pc = "begin" /\ wk'.kind = k BY <1>5, ClaimTyped
    <2>2. /\ job'[k].op = job[k].op /\ job'[k].event = job[k].event /\ job'[k].was = job[k].was
          /\ \A j \in Jobs \ {k} : job'[j] = job[j]
      BY <1>0, <1>5, JobWrites DEF SameJob
    <2>3. /\ job[k].event = TRUE /\ eng.pc = "idle" /\ wk.pc = "idle"
          /\ UNCHANGED <<cont, vol, arch, eng, fails, crashes>>
      <3>1. Uncrossed' BY DEF Survivable
      <3> QED BY <1>0, <1>5, <3>1, ClaimsCross DEF Claim, Take, Typed, Job
    <2>4. ArchivesWhole' /\ EngineFree' BY <1>0, <2>3 DEF ArchivesWhole, EngineFree
    <2>5. Mending => Mending'
      <3> SUFFICES ASSUME Mending PROVE Mending' OBVIOUS
      <3>1. k = "restore" /\ Alone BY <2>3 DEF Mending, Alone
      <3>2. Alone' BY <2>2, <2>3, <3>1 DEF Alone, Live
      <3> QED BY <1>1, <2>1, <2>3, <3>1, <3>2 DEF Mending
    <2>6. FilesWhole' BY <1>0, <2>3, <2>5 DEF FilesWhole
    <2>7. Undone'
      <3>1. eng.cancelled = FALSE BY <1>0, <2>3 DEF Stages, NoEngine
      <3> QED BY <2>3, <3>1 DEF Undone
    <2> QED BY <2>4, <2>6, <2>7 DEF SurviveInv
  <1>6. ASSUME UNCHANGED <<vol, arch, safety, job, wk, eng, crashes>>,
               Tame' => (Running(cont'.state) => Running(cont.state))
        PROVE  SurviveInv'
    <2>1. ArchivesWhole' /\ EngineFree' BY <1>0, <1>6 DEF ArchivesWhole, EngineFree
    <2>2. Tame' /\ Alone => Alone' BY <1>6 DEF Alone, Live
    <2>3. Tame' /\ Orphan => Orphan' BY <1>6, <2>2 DEF Orphan
    <2>4. Mending => Mending'
      <3> SUFFICES ASSUME Mending PROVE Mending' OBVIOUS
      <3>1. Tame' /\ Spent' /\ Alone' BY <1>1, <2>2 DEF Mending
      <3> QED BY <1>6, <3>1 DEF Mending
    <2> QED BY <1>6, <2>1, <2>3, <2>4, FilesUntouched
  <1>7. ASSUME NEW r \in Reqs, (\E a \in Actions : RequestPower(r, a)) \/ FinishPower(r) PROVE SurviveInv'
    BY <1>6, <1>7 DEF RequestPower, FinishPower
  <1>8. ASSUME NEW r \in Reqs, CallPower(r) PROVE SurviveInv'
    <2>1. PICK ok \in BOOLEAN : Power(req[r].action, ok) BY <1>8 DEF CallPower
    <2>2. ASSUME Tame' PROVE Running(cont'.state) => Running(cont.state)
      <3>1. req[r].action \in {"stop", "kill"} BY <1>1, <1>8, <2>2 DEF CallPower, Tame, OnlyStops
      <3> QED BY <1>0, <2>1, <3>1, PowerDoes DEF TurnedOff, MaybeOff
    <2> QED BY <1>6, <1>8, <2>2 DEF CallPower
  <1>9. CASE ObserveStatus \/ UNCHANGED vars BY <1>6, <1>9 DEF ObserveStatus, vars
  <1>10. CASE Retry
    <2>1. /\ UNCHANGED <<vol, arch, safety, eng>> /\ wk.pc # "idle" /\ wk'.pc = "idle" /\ FailedStatement
      BY <1>10, RetryDoes
    <2>2. ~Mending /\ ~Orphan
      <3>1. Mending => Tame' BY <1>1 DEF Mending
      <3> QED BY <2>1, <3>1, StaysSurvivable DEF Orphan
    <2>3. ArchivesWhole' /\ EngineFree' BY <1>0, <2>1 DEF ArchivesWhole, EngineFree
    <2> QED BY <2>1, <2>2, <2>3, FilesUntouched
  <1>11. ~\E i \in DOMAIN stray : Stray(i) BY StaysSurvivable
  <1> QED BY <1>3, <1>4, <1>5, <1>7, <1>8, <1>9, <1>10, <1>11, HandlerSurvives, EngineSurvives, CrashSurvives DEF Next

\* A crash does not leave a damaged volume behind either: where no template update
\* has an installer, a workflow is recorded with whole files after any number of
\* crashes as long as no engine call has failed, and after a crash and a failed call
\* as long as the database answers, power requests only stop the server and no
\* workflow is begun beside a call that an earlier one has left behind.  The
\* call that fails may be the rollback of the very restore the crash interrupted:
\* its next delivery then replaces the files before anything is recorded.
THEOREM VolumeSurvivesCrash == Spec => [](Survivable => VolumeWhole)
  <1> DEFINE Calmly == TypeInv /\ Serving /\ SecuredInv /\ (Steady => BackupInv) /\ (Calm => CalmInv)
             Survives == Fresh /\ (Survivable => SurviveInv)
  <1>1. Init => Calmly BY CalmHolds
  <1>2. Calmly /\ [Next]_vars => Calmly' BY CalmHolds
  <1>3. Init => Survives
    <2> SUFFICES ASSUME Init PROVE Fresh /\ SurviveInv OBVIOUS
    <2>1. /\ wk.pc = "idle" /\ eng.pc = "idle" /\ eng.cancelled = FALSE /\ vol = "original"
          /\ \A k \in Jobs : job[k].installer = FALSE
      BY DEF Init, IdleWorker, NoEngine
    <2>2. ArchivesWhole
      <3>1. None # "damaged" BY WorkflowAssumption
      <3>2. \A k \in Jobs : arch[k].file \in {"selected", None} BY DEF Init
      <3> QED BY <3>1, <3>2 DEF ArchivesWhole
    <2> QED BY <2>1, <2>2 DEF Fresh, SurviveInv, EngineFree, FilesWhole, Undone
  <1>4. Calmly /\ Survives /\ [Next]_vars => Survives'
    <2> SUFFICES ASSUME Calmly, Survives, [Next]_vars PROVE Survives' OBVIOUS
    <2>1. Fresh' BY TargetKept DEF Fresh
    <2>2. ASSUME Survivable' PROVE SurviveInv'
      <3>1. Survivable BY <2>2, StaysSurvivable
      <3>2. Calm => BackupInv /\ CalmInv BY DEF Calm
      <3> QED BY <2>2, <3>1, <3>2, NextSurvives
    <2> QED BY <2>1, <2>2
  <1>5. Survives => (Survivable => VolumeWhole)
    BY DEF SurviveInv, FilesWhole, Mending, VolumeWhole, Recorded
  <1> HIDE DEF Calmly, Survives
  <1> QED BY <1>1, <1>2, <1>3, <1>4, <1>5, PTL DEF Spec
=============================================================================
