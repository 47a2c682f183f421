--------------------------- MODULE ServerWorkflow ---------------------------
(***************************************************************************)
(* The long workflows of one server: backup restore and template update,   *)
(* as the worker runs them from the outbox, step by step, with the engine  *)
(* calls they make, the failures they roll back from, worker crashes and   *)
(* the redelivery that follows, and power requests made meanwhile.         *)
(*                                                                         *)
(* A volume or an archive is its content: the files as they were, those of *)
(* the backup selected for the restore, those an installer leaves, or a    *)
(* damaged volume (cleared, or partly written).  A checksum stands for the *)
(* content it was computed from.  Requests go through the engine's power   *)
(* handler in one step; ServerLifecycle splits it.                         *)
(***************************************************************************)
EXTENDS Naturals, Sequences, PowerRules

CONSTANTS
  Jobs,           \* the workflows that are requested, each at most once
  Reqs,           \* power requests made meanwhile
  Actions,        \* the power actions they make
  BackupAttempts, \* deliveries after which a failed backup is final (3 in the code)
  MaxFails,       \* bound: engine calls that fail
  MaxStoreFails,  \* bound: database statements that fail
  MaxCrashes,     \* bound: worker crashes
  None            \* no content, no job

ASSUME WorkflowAssumption ==
  /\ Jobs \subseteq {"restore", "rebase", "reinstall"}
  /\ Actions \subseteq PowerActions
  /\ BackupAttempts \in Nat \ {0}
  /\ MaxFails \in Nat
  /\ MaxStoreFails \in Nat
  /\ MaxCrashes \in Nat
  /\ None \notin {"original", "selected", "installed", "damaged"}
  /\ None \notin {"restore", "rebase", "reinstall"}

VARIABLES
  srv,     \* the row of table servers: status, desired_state, template version
  cont,    \* the container: state and the version it was configured for
  vol,     \* the content of the game volume
  arch,    \* arch[k]: the backup of job k (the one to restore, the mandatory one):
           \* its file, and status and checksum in its row
  safety,  \* the engine's pre-restore archive
  job,     \* job[k]: the outbox event of job k, its payload and its row in operations
  wk,      \* the worker's handler
  eng,     \* the engine's restore handler, at the worker's latest call
  stray,   \* earlier calls that the engine was still serving, their callers gone, when
           \* the worker claimed its next event: the step each is at and its safety archive
  req,     \* power requests
  fails,   \* what has failed so far, of the bounds above
  crashes

vars == <<srv, cont, vol, arch, safety, job, wk, eng, stray, req, fails, crashes>>

Contents == {"original", "selected", "installed", "damaged"}
Versions == {"old", "new"}
Active == {"pending", "running"}

TypeOK ==
  /\ srv \in [status : {"running", "stopped", "starting", "stopping", "restarting", "failed"},
              desired : {"running", "stopped"}, version : Versions]
  /\ cont \in [state : {"created", "running", "exited"}, version : Versions]
  /\ vol \in Contents
  /\ arch \in [Jobs -> [file : Contents \cup {None}, sha : Contents \cup {None},
                        status : {"none", "queued", "running", "succeeded", "failed"}]]
  /\ safety \in Contents \cup {None}
  /\ job \in [Jobs -> [event : BOOLEAN, was : BOOLEAN, attempts : 0 .. BackupAttempts,
                       op : {"none", "pending", "running", "succeeded", "failed"},
                       installer : BOOLEAN, \* the target version has an installer
                       before : Contents,   \* history: the files when first claimed
                       again : BOOLEAN]]    \* history: claimed with the engine at work, or
                                            \* again with the files no longer as they were
  /\ wk \in [pc : {"idle", "begin", "stop", "call", "wait", "start", "finish", "ack",
                   "archive", "record", "stopping", "version", "install", "reconfigure",
                   "return", "revert", "files", "filesWait", "runtime", "restart"},
             kind : Jobs \cup {None}, failed : BOOLEAN, previous : Versions]
  /\ eng \in [pc : {"idle", "verify", "save", "clear", "copy", "undoClear", "undoCopy",
                    "remove", "ok", "error"},
              kind : Jobs \cup {None}, failed : BOOLEAN, cancelled : BOOLEAN]
  /\ stray \in Seq([pc : {"idle", "verify", "save", "clear", "copy", "undoClear", "undoCopy",
                          "remove", "ok", "error"}, safety : Contents \cup {None}])
  /\ req \in [Reqs -> [phase : {"idle", "call", "ok", "error", "done"},
                       action : Actions \cup {"none"}]]
  /\ fails \in [engine : 0 .. MaxFails, store : 0 .. MaxStoreFails]
  /\ crashes \in 0 .. MaxCrashes

NoEngine == [pc |-> "idle", kind |-> None, failed |-> FALSE, cancelled |-> FALSE]
IdleWorker == [pc |-> "idle", kind |-> None, failed |-> FALSE, previous |-> "old"]

Init ==
  /\ \E started \in BOOLEAN :
       /\ srv = [status |-> IF started THEN "running" ELSE "stopped",
                 desired |-> IF started THEN "running" ELSE "stopped", version |-> "old"]
       /\ cont = [state |-> IF started THEN "running" ELSE "exited", version |-> "old"]
  /\ vol = "original"
  /\ arch = [k \in Jobs |->
               IF k = "restore"
               THEN [file |-> "selected", sha |-> "selected", status |-> "succeeded"]
               ELSE [file |-> None, sha |-> None, status |-> "none"]]
  /\ safety = None
  /\ job = [k \in Jobs |-> [event |-> FALSE, was |-> FALSE, attempts |-> 0,
                            op |-> "none", installer |-> FALSE, before |-> "original",
                            again |-> FALSE]]
  /\ wk = IdleWorker
  /\ eng = NoEngine
  /\ stray = <<>>
  /\ req = [r \in Reqs |-> [phase |-> "idle", action |-> "none"]]
  /\ fails = [engine |-> 0, store |-> 0]
  /\ crashes = 0

-----------------------------------------------------------------------------
(* Engine calls that change the container.                                 *)

\* A call fails because of the reason given, or for no reason at all.
Fails(reason) ==
  \/ reason /\ UNCHANGED fails
  \/ fails.engine < MaxFails /\ fails' = [fails EXCEPT !.engine = @ + 1]

MayFail == Fails(FALSE)

\* A statement of the store fails; each is a transaction of its own.
StoreFails == fails.store < MaxStoreFails /\ fails' = [fails EXCEPT !.store = @ + 1]

Powered(a) == [cont EXCEPT !.state = DockerResult(DockerCall(a, @), @)]

\* Engine.Power(a) answers ok or not; a failed call may have had its effect.
Power(a, ok) ==
  \/ /\ ok
     /\ cont' = Powered(a)
     /\ UNCHANGED fails
  \/ /\ ~ok
     /\ MayFail
     /\ cont' \in {cont, Powered(a)}

\* replaceRuntimeContainer refuses a running server and otherwise leaves a
\* created container of the new configuration, or the old one.
Reconfigure(version, ok) ==
  \/ /\ ok
     /\ ~Running(cont.state)
     /\ cont' = [state |-> "created", version |-> version]
     /\ UNCHANGED fails
  \/ /\ ~ok
     /\ Fails(Running(cont.state))
     /\ UNCHANGED cont

-----------------------------------------------------------------------------
(* Requests: QueueBackupRestore, QueueTemplateUpdate, serverPower.         *)

NothingActive ==
  /\ \A k \in Jobs : job[k].op \notin Active /\ arch[k].status \notin {"queued", "running"}
  /\ \A r \in Reqs : req[r].phase \in {"idle", "done"}

\* What both requests write: the operation, the event, the request to stop.
Accept(k, installer) ==
  /\ job[k].op = "none"
  /\ NothingActive
  /\ job' = [job EXCEPT ![k] = [@ EXCEPT
       !.event = TRUE, !.op = "pending", !.installer = installer,
       !.was = \/ srv.desired = "running"
               \/ srv.status \in {"running", "starting", "restarting"}]]
  /\ srv' = [srv EXCEPT !.desired = "stopped",
                        !.status = IF @ \in {"running", "starting", "restarting"}
                                   THEN "stopping" ELSE @]
  /\ UNCHANGED <<cont, vol, safety, wk, eng, stray, req, fails, crashes>>

QueueBackupRestore ==
  /\ "restore" \in Jobs
  /\ arch["restore"].status = "succeeded"
  /\ Accept("restore", FALSE)
  /\ UNCHANGED arch

QueueTemplateUpdate(k, installer) ==
  /\ k # "restore"
  /\ srv.version = "old"
  /\ installer => k = "reinstall"
  /\ Accept(k, installer)
  /\ arch' = [arch EXCEPT ![k].status = "queued"]

RequestPower(r, a) ==
  /\ req[r].phase = "idle"
  /\ a # "kill" => srv.status \notin {"starting", "restarting", "stopping"}
  /\ a = "start" => srv.status # "running"
  /\ a \in {"stop", "kill"} => srv.status # "stopped"
  /\ srv' = [srv EXCEPT !.status = Transition(a), !.desired = DesiredBy(a)]
  /\ req' = [req EXCEPT ![r] = [phase |-> "call", action |-> a]]
  /\ UNCHANGED <<cont, vol, arch, safety, job, wk, eng, stray, fails, crashes>>

CallPower(r) ==
  /\ req[r].phase = "call"
  /\ \E ok \in BOOLEAN :
       /\ Power(req[r].action, ok)
       /\ req' = [req EXCEPT ![r].phase = IF ok THEN "ok" ELSE "error"]
  /\ UNCHANGED <<srv, vol, arch, safety, job, wk, eng, stray, crashes>>

FinishPower(r) ==
  /\ req[r].phase \in {"ok", "error"}
  /\ LET a == req[r].action  ok == req[r].phase = "ok" IN
       srv' = IF srv.desired # DesiredBy(a) THEN srv
              ELSE IF ok
              THEN [srv EXCEPT !.status = DesiredBy(a)]
              ELSE IF DesiredBy(a) = "stopped"
              THEN [srv EXCEPT !.status = "running", !.desired = "running"]
              ELSE [srv EXCEPT !.status = "failed"]
  /\ req' = [req EXCEPT ![r].phase = "done"]
  /\ UNCHANGED <<cont, vol, arch, safety, job, wk, eng, stray, fails, crashes>>

\* Telemetry, which the worker applies between its other work.
ObserveStatus ==
  /\ wk.pc = "idle"
  /\ srv' = [srv EXCEPT !.status = runtimeServerStatus(cont.state, srv.desired, @)]
  /\ UNCHANGED <<cont, vol, arch, safety, job, wk, eng, stray, req, fails, crashes>>

-----------------------------------------------------------------------------
(* The worker: claim, acknowledgement, retry, crash.  An event that is due  *)
(* is claimed whatever the engine is doing: a call that was given up, or   *)
(* whose worker crashed, may be at its rollback still (the lease counts    *)
(* from the claim, so a long restore can be delivered again beside it).    *)

WasRunning == job[wk.kind].was
Goto(pc) == wk' = [wk EXCEPT !.pc = pc]
Failed(pc) == wk' = [wk EXCEPT !.pc = pc, !.failed = TRUE]

AtWork == eng.pc # "idle" \/ \E i \in DOMAIN stray : stray[i].pc # "idle"

\* What claiming job k writes: the call the engine is still serving becomes a stray.
Take(k) ==
  /\ wk' = [IdleWorker EXCEPT !.pc = "begin", !.kind = k]
  /\ job' = [job EXCEPT ![k] = [@ EXCEPT
       !.before = IF job[k].attempts = 0 THEN vol ELSE job[k].before,
       !.again = AtWork \/ job[k].again \/ (job[k].attempts # 0 /\ vol # job[k].before),
       !.attempts = IF job[k].attempts < BackupAttempts THEN job[k].attempts + 1 ELSE job[k].attempts]]
  /\ stray' = IF eng.pc = "idle" THEN stray
              ELSE Append(stray, [pc |-> eng.pc, safety |-> safety])
  /\ eng' = NoEngine
  /\ safety' = None
  /\ UNCHANGED <<srv, cont, vol, arch, req, fails, crashes>>

\* Mutant: only an operation that was never started is delivered.
ClaimOnce(k) == wk.pc = "idle" /\ job[k].event /\ job[k].op = "pending" /\ Take(k)

Claim(k) == wk.pc = "idle" /\ job[k].event /\ Take(k)

Ack ==
  /\ wk.pc = "ack"
  /\ job' = [job EXCEPT ![wk.kind].event = FALSE]
  /\ wk' = IdleWorker
  /\ UNCHANGED <<srv, cont, vol, arch, safety, eng, stray, req, fails, crashes>>

\* A statement whose error the handler returns, or the acknowledgement itself,
\* fails: the event is delivered again, and the handler starts from the beginning.
Retry ==
  /\ \/ wk.pc \in {"begin", "stop", "record", "stopping", "finish", "ack"}
     \/ wk.pc = "version" /\ ~WasRunning
  /\ StoreFails
  /\ wk' = IdleWorker
  /\ job' \in {job, [job EXCEPT ![wk.kind].op = IF wk.pc = "begin" THEN "running" ELSE @]}
  /\ UNCHANGED <<srv, cont, vol, arch, safety, eng, stray, req, crashes>>

\* The volume after an installer that did not end well.
Interrupted == IF job[wk.kind].installer /\ ~Running(cont.state)
               THEN {vol, "installed", "damaged"} ELSE {vol}

\* The event stays in the outbox; a restore the engine is serving loses its
\* caller, and with it the context of every step but the rollback's, and a
\* running installer is removed.
Crash ==
  /\ crashes < MaxCrashes
  /\ wk.pc # "idle"
  /\ wk' = IdleWorker
  /\ eng' = IF eng.pc \in {"ok", "error"} THEN NoEngine
            ELSE IF eng.pc = "idle" THEN eng ELSE [eng EXCEPT !.cancelled = TRUE]
  /\ vol' \in IF wk.pc = "install" THEN Interrupted ELSE {vol}
  /\ crashes' = crashes + 1
  /\ UNCHANGED <<srv, cont, arch, safety, job, stray, req, fails>>

\* Both set the row from the payload, whatever it says by now.
Finish ==
  /\ wk.pc = "finish"
  /\ srv' = [srv EXCEPT !.desired = IF WasRunning THEN "running" ELSE "stopped",
                        !.status = IF WasRunning THEN "starting" ELSE "stopped"]
  /\ job' = [job EXCEPT ![wk.kind].op = IF wk.failed THEN "failed" ELSE "succeeded"]
  /\ Goto("ack")
  /\ UNCHANGED <<cont, vol, arch, safety, eng, stray, req, fails, crashes>>

FinishBackupRestore == wk.kind = "restore" /\ Finish

FinishTemplateUpdate == wk.kind # "restore" /\ Finish

-----------------------------------------------------------------------------
(* Handler of backup.restore.                                              *)

RestoreBegin ==
  /\ wk.pc = "begin" /\ wk.kind = "restore"
  /\ job' = [job EXCEPT ![wk.kind].op = "running"]
  /\ Goto(IF WasRunning THEN "stop" ELSE "call")
  /\ UNCHANGED <<srv, cont, vol, arch, safety, eng, stray, req, fails, crashes>>

RestoreStop ==
  /\ wk.pc = "stop"
  /\ \E ok \in BOOLEAN : Power("stop", ok) /\ IF ok THEN Goto("call") ELSE Failed("start")
  /\ UNCHANGED <<srv, vol, arch, safety, job, eng, stray, req, crashes>>

AfterRestore == IF WasRunning THEN "start" ELSE "finish"

RestoreCall ==
  /\ wk.pc = "call"
  /\ \/ /\ eng' = [NoEngine EXCEPT !.pc = "verify", !.kind = wk.kind]
        /\ Goto("wait")
        /\ UNCHANGED fails
     \/ /\ StoreFails
        /\ Failed(AfterRestore)
        /\ UNCHANGED eng
  /\ UNCHANGED <<srv, cont, vol, arch, safety, job, stray, req, crashes>>

\* Mutant: the server is not started again after a successful restore.
RestoreAnsweredStays ==
  /\ wk.pc = "wait" /\ eng.pc \in {"ok", "error"}
  /\ IF eng.pc = "ok" THEN Goto("finish") ELSE Failed(AfterRestore)
  /\ eng' = NoEngine
  /\ UNCHANGED <<srv, cont, vol, arch, safety, job, stray, req, fails, crashes>>

RestoreAnswered ==
  /\ wk.pc = "wait" /\ eng.pc \in {"ok", "error"}
  /\ IF eng.pc = "ok" THEN Goto(AfterRestore) ELSE Failed(AfterRestore)
  /\ eng' = NoEngine
  /\ UNCHANGED <<srv, cont, vol, arch, safety, job, stray, req, fails, crashes>>

\* The call is given up (its timeout, a lost connection) with the engine at work.
RestoreLost ==
  /\ wk.pc \in {"wait", "filesWait"} /\ eng.pc \notin {"idle", "ok", "error"}
  /\ MayFail
  /\ eng' = [eng EXCEPT !.cancelled = TRUE]
  /\ IF wk.pc = "wait" THEN Failed(AfterRestore) ELSE Goto("runtime")
  /\ UNCHANGED <<srv, cont, vol, arch, safety, job, stray, req, crashes>>

\* Restart the server, also at the end of a template update.
StartAgain ==
  /\ wk.pc = "start"
  /\ \E ok \in BOOLEAN : Power("start", ok) /\ IF ok THEN Goto("finish") ELSE Failed("finish")
  /\ UNCHANGED <<srv, vol, arch, safety, job, eng, stray, req, crashes>>

-----------------------------------------------------------------------------
(* The engine's restoreServerVolume.                                       *)

\* What an archive leaves in a volume that was cleared, unless an earlier call
\* has been at work on it too.
Extracted(content) == IF stray = <<>> THEN {content} ELSE {content, "damaged"}

\* The archive that the restore reads has the checksum its caller passes.
Verified == arch[eng.kind].file = arch[eng.kind].sha

EngineVerify ==
  /\ eng.pc = "verify"
  /\ \/ /\ ~eng.cancelled /\ ~Running(cont.state) /\ Verified
        /\ eng' = [eng EXCEPT !.pc = "save"]
        /\ UNCHANGED fails
     \/ /\ Fails(eng.cancelled \/ Running(cont.state) \/ ~Verified)
        /\ eng' = [eng EXCEPT !.pc = "error"]
  /\ UNCHANGED <<srv, cont, vol, arch, safety, job, wk, stray, req, crashes>>

EngineSave ==
  /\ eng.pc = "save"
  /\ \/ /\ ~eng.cancelled
        /\ safety' = vol
        /\ eng' = [eng EXCEPT !.pc = "clear"]
        /\ UNCHANGED fails
     \/ /\ Fails(eng.cancelled)
        /\ eng' = [eng EXCEPT !.pc = "error"]
        /\ UNCHANGED safety
  /\ UNCHANGED <<srv, cont, vol, arch, job, wk, stray, req, crashes>>

\* Clear the volume; what a clear that fails or is cancelled leaves is open.
EngineClear ==
  /\ eng.pc = "clear"
  /\ \/ /\ ~eng.cancelled
        /\ vol' = "damaged"
        /\ eng' = [eng EXCEPT !.pc = "copy"]
        /\ UNCHANGED fails
     \/ /\ Fails(eng.cancelled)
        /\ vol' \in {vol, "damaged"}
        /\ eng' = [eng EXCEPT !.pc = "undoClear"]
  /\ UNCHANGED <<srv, cont, arch, safety, job, wk, stray, req, crashes>>

\* Mutant: an extraction that fails is reported without the rollback.
EngineCopyNoRollback ==
  /\ eng.pc = "copy"
  /\ \/ /\ ~eng.cancelled
        /\ vol' \in Extracted(arch[eng.kind].file)
        /\ eng' = [eng EXCEPT !.pc = "remove"]
        /\ UNCHANGED fails
     \/ /\ Fails(eng.cancelled)
        /\ eng' = [eng EXCEPT !.pc = "remove", !.failed = TRUE]
        /\ UNCHANGED vol
  /\ UNCHANGED <<srv, cont, arch, safety, job, wk, stray, req, crashes>>

EngineCopy ==
  /\ eng.pc = "copy"
  /\ \/ /\ ~eng.cancelled
        /\ vol' \in Extracted(arch[eng.kind].file)
        /\ eng' = [eng EXCEPT !.pc = "remove"]
        /\ UNCHANGED fails
     \/ /\ Fails(eng.cancelled)
        /\ eng' = [eng EXCEPT !.pc = "undoClear"]
        /\ UNCHANGED vol
  /\ UNCHANGED <<srv, cont, arch, safety, job, wk, stray, req, crashes>>

\* The rollback runs without the caller's context; the restore fails anyway.
EngineUndoClear ==
  /\ eng.pc = "undoClear"
  /\ \/ /\ vol' = "damaged"
        /\ eng' = [eng EXCEPT !.pc = "undoCopy", !.failed = TRUE]
        /\ UNCHANGED fails
     \/ /\ MayFail
        /\ vol' \in {vol, "damaged"}
        /\ eng' = [eng EXCEPT !.pc = "remove", !.failed = TRUE]
  /\ UNCHANGED <<srv, cont, arch, safety, job, wk, stray, req, crashes>>

EngineUndoCopy ==
  /\ eng.pc = "undoCopy"
  /\ \/ vol' \in Extracted(safety) /\ UNCHANGED fails
     \/ MayFail /\ UNCHANGED vol
  /\ eng' = [eng EXCEPT !.pc = "remove"]
  /\ UNCHANGED <<srv, cont, arch, safety, job, wk, stray, req, crashes>>

\* The deferred os.Remove of the safety archive, on every way out.
EngineRemove ==
  /\ eng.pc = "remove"
  /\ safety' = None
  /\ eng' = [eng EXCEPT !.pc = IF eng.failed THEN "error" ELSE "ok"]
  /\ UNCHANGED <<srv, cont, vol, arch, job, wk, stray, req, fails, crashes>>

\* Nobody waits for the answer of a restore whose caller is gone.
EngineDrops ==
  /\ eng.cancelled /\ eng.pc \in {"ok", "error"}
  /\ eng' = NoEngine
  /\ UNCHANGED <<srv, cont, vol, arch, safety, job, wk, stray, req, fails, crashes>>

\* A stray has lost its context, so that every step of it fails but those of the
\* rollback, of which either may; its safety archive goes with it.
StrayAt(i, pc) ==
  stray' = [stray EXCEPT ![i] = [pc |-> pc, safety |-> IF pc = "idle" THEN None ELSE stray[i].safety]]

Stray(i) ==
  /\ \/ /\ stray[i].pc \in {"verify", "save", "remove", "ok", "error"}
        /\ StrayAt(i, "idle")
        /\ UNCHANGED <<vol, fails>>
     \/ /\ stray[i].pc \in {"clear", "copy"}
        /\ vol' \in {vol, "damaged"}
        /\ StrayAt(i, "undoClear")
        /\ UNCHANGED fails
     \/ /\ stray[i].pc = "undoClear"
        /\ \/ vol' = "damaged" /\ StrayAt(i, "undoCopy") /\ UNCHANGED fails
           \/ vol' \in {vol, "damaged"} /\ StrayAt(i, "idle") /\ MayFail
     \/ /\ stray[i].pc = "undoCopy"
        /\ \/ vol' \in Extracted(stray[i].safety) /\ UNCHANGED fails
           \/ vol' \in {vol, "damaged"} /\ MayFail
        /\ StrayAt(i, "idle")
  /\ UNCHANGED <<srv, cont, arch, safety, job, wk, eng, req, crashes>>

-----------------------------------------------------------------------------
(* Handler of server.template_update.                                      *)

\* MarkTemplateUpdateRunning and MarkBackupRunning.
UpdateBegin ==
  /\ wk.pc = "begin" /\ wk.kind # "restore"
  /\ job' = [job EXCEPT ![wk.kind].op = "running"]
  /\ arch' = IF arch[wk.kind].status = "queued"
             THEN [arch EXCEPT ![wk.kind].status = "running"] ELSE arch
  /\ Goto("archive")
  /\ UNCHANGED <<srv, cont, vol, safety, eng, stray, req, fails, crashes>>

\* Mutant: an update whose backup failed goes on without it.
UpdateArchiveOptional ==
  /\ wk.pc = "archive"
  /\ \/ /\ arch' = [arch EXCEPT ![wk.kind].file = vol]
        /\ Goto("record")
        /\ UNCHANGED fails
     \/ /\ MayFail
        /\ \E file \in {arch[wk.kind].file, vol} :
             IF job[wk.kind].attempts < BackupAttempts
             THEN wk' = IdleWorker /\ arch' = [arch EXCEPT ![wk.kind].file = file]
             ELSE /\ arch' = [arch EXCEPT ![wk.kind] = [@ EXCEPT !.file = file,
                                                              !.status = "failed"]]
                  /\ Failed("record")
  /\ UNCHANGED <<srv, cont, vol, safety, job, eng, stray, req, crashes>>

\* Engine.CreateBackup writes the archive under the backup's name, replacing a
\* file of that name; until the last delivery a failure sends the event to a retry.
UpdateArchive ==
  /\ wk.pc = "archive"
  /\ \/ /\ arch' = [arch EXCEPT ![wk.kind].file = vol]
        /\ Goto("record")
        /\ UNCHANGED fails
     \/ /\ MayFail
        /\ \E file \in {arch[wk.kind].file, vol} :
             IF job[wk.kind].attempts < BackupAttempts
             THEN wk' = IdleWorker /\ arch' = [arch EXCEPT ![wk.kind].file = file]
             ELSE /\ arch' = [arch EXCEPT ![wk.kind] = [@ EXCEPT !.file = file,
                                                              !.status = "failed"]]
                  /\ Failed("finish")
  /\ UNCHANGED <<srv, cont, vol, safety, job, eng, stray, req, crashes>>

\* MarkBackupSucceeded, then ServerConfiguration reads the version in the row.
UpdateRecord ==
  /\ wk.pc = "record"
  /\ arch' = [arch EXCEPT ![wk.kind] = [@ EXCEPT !.sha = arch[wk.kind].file, !.status = "succeeded"]]
  /\ \/ /\ wk' = [wk EXCEPT !.pc = IF WasRunning THEN "stopping" ELSE "version",
                            !.previous = srv.version]
        /\ UNCHANGED fails
     \/ StoreFails /\ Failed("finish")
  /\ UNCHANGED <<srv, cont, vol, safety, job, eng, stray, req, crashes>>

UpdateStop ==
  /\ wk.pc = "stopping"
  /\ \E ok \in BOOLEAN : Power("stop", ok) /\ IF ok THEN Goto("version") ELSE Failed("finish")
  /\ UNCHANGED <<srv, vol, arch, safety, job, eng, stray, req, crashes>>

\* SetServerTemplateVersion updates the row and then reads the template, in two
\* statements; the configuration is read in a third.
UpdateVersion ==
  /\ wk.pc = "version"
  /\ LET switched == [srv EXCEPT !.version = "new"] IN
       \/ /\ srv' = switched
          /\ Goto(IF job[wk.kind].installer THEN "install" ELSE "reconfigure")
          /\ UNCHANGED fails
       \/ /\ StoreFails
          /\ \/ /\ srv' \in {srv, switched}
                /\ Failed(IF WasRunning THEN "return" ELSE "finish")
             \/ srv' = switched /\ Failed("revert")
  /\ UNCHANGED <<cont, vol, arch, safety, job, eng, stray, req, crashes>>

\* failBeforeRuntimeChange starts the server again.
UpdateReturn ==
  /\ wk.pc = "return"
  /\ \E ok \in BOOLEAN : Power("start", ok)
  /\ Goto("finish")
  /\ UNCHANGED <<srv, vol, arch, safety, job, eng, stray, req, crashes>>

\* Engine.InstallExisting refuses a running server.
UpdateInstall ==
  /\ wk.pc = "install"
  /\ \/ /\ ~Running(cont.state)
        /\ vol' = "installed"
        /\ Goto("reconfigure")
        /\ UNCHANGED fails
     \/ /\ \/ Running(cont.state) /\ UNCHANGED <<vol, fails>>
           \/ MayFail /\ vol' \in Interrupted
           \/ StoreFails /\ UNCHANGED vol
        /\ Failed("revert")
  /\ UNCHANGED <<srv, cont, arch, safety, job, eng, stray, req, crashes>>

UpdateReconfigure ==
  /\ wk.pc = "reconfigure"
  /\ \/ /\ Reconfigure("new", TRUE)
        /\ Goto(IF WasRunning THEN "start" ELSE "finish")
     \/ /\ Reconfigure("new", FALSE) \/ (StoreFails /\ UNCHANGED cont)
        /\ Failed("revert")
  /\ UNCHANGED <<srv, vol, arch, safety, job, eng, stray, req, crashes>>

\* Rollback: the version in the row, the files, the container, the power state.
UpdateRevert ==
  /\ wk.pc = "revert"
  /\ \/ srv' = [srv EXCEPT !.version = "old"] /\ UNCHANGED fails
     \/ StoreFails /\ UNCHANGED srv
  /\ Goto(IF wk.kind = "reinstall" THEN "files" ELSE "runtime")
  /\ UNCHANGED <<cont, vol, arch, safety, job, eng, stray, req, crashes>>

UpdateFiles ==
  /\ wk.pc = "files"
  /\ eng' = [NoEngine EXCEPT !.pc = "verify", !.kind = wk.kind]
  /\ Goto("filesWait")
  /\ UNCHANGED <<srv, cont, vol, arch, safety, job, stray, req, fails, crashes>>

UpdateFilesAnswered ==
  /\ wk.pc = "filesWait" /\ eng.pc \in {"ok", "error"}
  /\ eng' = NoEngine
  /\ Goto("runtime")
  /\ UNCHANGED <<srv, cont, vol, arch, safety, job, stray, req, fails, crashes>>

\* Mutant: the rollback configures the container for the version that failed.
UpdateRuntimeCurrent ==
  /\ wk.pc = "runtime"
  /\ \E ok \in BOOLEAN : Reconfigure("new", ok)
  /\ Goto(IF WasRunning THEN "restart" ELSE "finish")
  /\ UNCHANGED <<srv, vol, arch, safety, job, eng, stray, req, crashes>>

UpdateRuntime ==
  /\ wk.pc = "runtime"
  /\ \E ok \in BOOLEAN : Reconfigure(wk.previous, ok)
  /\ Goto(IF WasRunning THEN "restart" ELSE "finish")
  /\ UNCHANGED <<srv, vol, arch, safety, job, eng, stray, req, crashes>>

UpdateRestart ==
  /\ wk.pc = "restart"
  /\ \E ok \in BOOLEAN : Power("start", ok)
  /\ Goto("finish")
  /\ UNCHANGED <<srv, vol, arch, safety, job, eng, stray, req, crashes>>

-----------------------------------------------------------------------------
Handler ==
  \/ RestoreBegin \/ RestoreStop \/ RestoreCall \/ RestoreAnswered
  \/ RestoreLost \/ StartAgain
  \/ UpdateBegin \/ UpdateArchive \/ UpdateRecord \/ UpdateStop \/ UpdateVersion \/ UpdateReturn
  \/ UpdateInstall \/ UpdateReconfigure \/ UpdateRevert \/ UpdateFiles
  \/ UpdateFilesAnswered \/ UpdateRuntime \/ UpdateRestart
  \/ FinishBackupRestore \/ FinishTemplateUpdate \/ Ack

Engine ==
  \/ EngineVerify \/ EngineSave \/ EngineClear \/ EngineCopy
  \/ EngineUndoClear \/ EngineUndoCopy \/ EngineRemove \/ EngineDrops

Next ==
  \/ QueueBackupRestore
  \/ \E k \in Jobs : (\E installer \in BOOLEAN : QueueTemplateUpdate(k, installer)) \/ Claim(k)
  \/ \E r \in Reqs : (\E a \in Actions : RequestPower(r, a)) \/ CallPower(r) \/ FinishPower(r)
  \/ ObserveStatus \/ Handler \/ Retry \/ Crash
  \/ Engine
  \/ \E i \in DOMAIN stray : Stray(i)

Spec == Init /\ [][Next]_vars

\* Handlers and engine calls return, and an event that is due is claimed.
Fairness ==
  /\ \A k \in Jobs : SF_vars(Claim(k))
  /\ WF_vars(Handler) /\ WF_vars(Engine)
  /\ \A r \in Reqs : WF_vars(CallPower(r)) /\ WF_vars(FinishPower(r))

FairSpec == Spec /\ Fairness

-----------------------------------------------------------------------------
(* Properties.                                                             *)

\* The worker has recorded the outcome of a job, and the engine is done with it.
Recorded == wk.pc = "ack" /\ eng.pc = "idle"
Outcome == job[wk.kind].op
Updating == wk.kind \in {"rebase", "reinstall"}
Target == CASE wk.kind = "restore" -> "selected"
            [] job[wk.kind].installer -> "installed"
            [] OTHER -> job[wk.kind].before

\* No event was claimed with the engine still at work for an earlier one.
Uncrossed == stray = <<>>

\* Whichever engine call of a workflow fails or is given up, its outcome is recorded
\* with the files, the template version in the row and the container all as they
\* were, or all as they were meant to become; only the latter is recorded as a
\* success. That is so as long as the worker lives, the database answers (see
\* StoreFails) and no workflow starts beside a call that an earlier one has given
\* up (see Uncrossed).
AllOrNothing ==
  Recorded /\ crashes = 0 /\ fails.store = 0 /\ Uncrossed =>
    \/ /\ Outcome = "failed"
       /\ vol = job[wk.kind].before
       /\ Updating => srv.version = "old" /\ cont.version = "old"
    \/ /\ vol = Target
       /\ Updating => srv.version = "new" /\ cont.version = "new"

\* A template update changes the files only while the mandatory backup holds
\* them as they were when the worker first took the update up.
BackupBeforeChange ==
  Updating /\ vol # job[wk.kind].before => arch[wk.kind].file = job[wk.kind].before

\* That is so however often the update is delivered, after a failed backup, a failed
\* statement or a crash, until it is delivered once more with the files already
\* changed (which overwrites the backup) or beside a call the engine still serves.
BackupUntilRedone ==
  Updating /\ ~job[wk.kind].again => BackupBeforeChange

\* No power request has been made.
Quiet == \A r \in Reqs : req[r].phase = "idle"

\* As long as nobody asks for power, a workflow recorded as succeeded has returned
\* the server to the state it was in when it was requested, although the row said
\* stopped in between and the workflow may have been delivered twice.
ReturnedToService ==
  Recorded /\ Quiet /\ Outcome = "succeeded" => (Running(cont.state) <=> WasRunning)

\* No workflow whose outcome is recorded leaves a damaged volume behind, be it
\* that a step failed, that the answer was lost or that a worker crashed: as long
\* as no installer was involved, no workflow was started beside a call that an
\* earlier one has left behind, and not both an engine call (the rollback of a
\* restore, say) and a statement have failed.
VolumeWhole ==
  /\ Recorded /\ Uncrossed
  /\ \A k \in Jobs : ~job[k].installer
  /\ fails.engine = 0 \/ fails.store = 0
  => vol # "damaged"

\* Every workflow that was accepted is eventually recorded as finished.
WorkflowFinishes ==
  \A k \in Jobs : job[k].op \in Active ~> job[k].op \in {"succeeded", "failed"}
=============================================================================
