----------------------------- MODULE PanelUpdate -----------------------------
(***************************************************************************)
(* The in-panel update.  A request of the owner reaches the engine, which  *)
(* writes a status file and a plan and launches a helper container.  The   *)
(* helper downloads the release, stops the panel's writers and the running *)
(* game servers, takes a recovery snapshot, replaces the installation and  *)
(* waits for it to become healthy.  Whatever step fails, it rolls back.    *)
(*                                                                         *)
(* Versions are "old" and "new"; "restored" is the old release as a        *)
(* rollback puts it back, with files and tables beside it that the new     *)
(* release had added; "mixed" is a state in between that no release has.   *)
(* Services and game servers run under Docker's restart policy: one that   *)
(* ends is tried again.  The snapshot holds what the rollback restores:    *)
(* the configuration and the database.                                     *)
(***************************************************************************)
EXTENDS Naturals, FiniteSets

CONSTANTS
  Requests,   \* updates the owner asks for, each once
  Servers,    \* the game servers' containers
  Overlaps,   \* bound: whether a request may meet an update that it did not see
  MaxFaults   \* bound: failed steps, failed writes and crashes together

ASSUME PanelUpdateAssumption ==
  /\ Overlaps \in BOOLEAN /\ MaxFaults \in Nat
  /\ Servers \cap {"app", "worker", "engine"} = {}   \* the panel's services are no game servers

VARIABLES
  status,    \* status.json: its state, and what its message tells
  req,       \* req[r]: the request in startPanelUpdate
  hp,        \* hp[r]: the helper of request r
  snap,      \* the snapshot directories
  files,     \* the installed panel files and .env
  db,        \* the schema of the panel's database
  svc,       \* svc[c]: the container of panel service c
  srv,       \* the game servers that run, and those Docker is about to restart
  touched,   \* history: servers that something but a helper started or stopped since the
             \* last list, and those it skipped
  odd,       \* history: updates overlapped, a rollback missed a looping writer or failed
  faults     \* faults so far, by kind

vars == <<status, req, hp, snap, files, db, svc, srv, touched, odd, faults>>
disk == <<snap, files, db>>
docker == <<svc, srv>>
history == <<touched, odd>>

Services == {"app", "worker", "engine"}
Writers == {"app", "worker"}
Version == {"old", "restored", "new", "mixed"}

\* The release that files or a schema belong to.
Release(v) == IF v = "restored" THEN "old" ELSE v

Status ==
  [state : {"idle", "queued", "running", "failed", "succeeded"},
   tells : {"nothing", "notLaunched", "notReplaced", "snapshotKept", "restored"}]

Helper ==
  [pc : {"none", "download", "extract", "list", "stop", "config", "saveImages", "volumes", "dump",
         "manifest",
         "setAside", "promote", "undo", "drop", "apply", "files", "compose", "verify", "worker",
         "verifyAll", "finish", "fail", "stopWriters", "images", "restoreConfig",
         "restoreDb", "recreate", "verifyOld", "resume", "record", "ended", "killed"},
   todo : SUBSET (Servers \cup Writers), stopped : SUBSET (Servers \cup Writers),
   snapshotReady : BOOLEAN, applyStarted : BOOLEAN, rolledBack : BOOLEAN]

\* A snapshot directory; live: the containers that ran while it was filled.
Snapshot == [there : BOOLEAN, whole : BOOLEAN, files : Version, db : Version,
             live : SUBSET (Servers \cup Writers)]

TypeOK ==
  /\ status \in Status
  /\ req \in [Requests -> {"idle", "checked", "queued", "planned", "created", "done"}]
  /\ hp \in [Requests -> Helper]
  /\ snap \in [current : Snapshot, previous : [Requests -> Snapshot],
               partial : [Requests -> Snapshot]]
  /\ files \in Version /\ db \in Version
  /\ svc \in [Services -> [ver : {"old", "new"}, st : {"stopped", "booting", "up", "looping"}]]
  /\ srv \in [running : SUBSET Servers, restarting : SUBSET Servers]
  /\ touched \subseteq Servers
  /\ odd \subseteq {"overlap", "looping", "unrestored"}
  /\ faults \in [step : 0 .. MaxFaults, write : 0 .. MaxFaults, start : 0 .. MaxFaults,
                 crash : 0 .. MaxFaults]

NoSnapshot == [there |-> FALSE, whole |-> FALSE, files |-> "mixed", db |-> "mixed", live |-> {}]
Earlier == [there |-> TRUE, whole |-> TRUE, files |-> "old", db |-> "old", live |-> {}]

NoHelper ==
  [pc |-> "none", todo |-> {}, stopped |-> {},
   snapshotReady |-> FALSE, applyStarted |-> FALSE, rolledBack |-> FALSE]

\* A panel that has been running for a while, updated before or not.
Init ==
  /\ status = [state |-> "idle", tells |-> "nothing"]
  /\ req = [r \in Requests |-> "idle"]
  /\ hp = [r \in Requests |-> NoHelper]
  /\ \E s \in {NoSnapshot, Earlier} :
       snap = [current |-> s, previous |-> [r \in Requests |-> NoSnapshot],
               partial |-> [r \in Requests |-> NoSnapshot]]
  /\ files = "old" /\ db = "old"
  /\ svc = [c \in Services |-> [ver |-> "old", st |-> "up"]]
  /\ srv \in [running : SUBSET Servers, restarting : {{}}]
  /\ touched = {} /\ odd = {}
  /\ faults = [step |-> 0, write |-> 0, start |-> 0, crash |-> 0]

Fault(kind) ==
  /\ faults.step + faults.write + faults.start + faults.crash < MaxFaults
  /\ faults' = [faults EXCEPT ![kind] = @ + 1]

Active(r) == hp[r].pc \notin {"none", "ended", "killed"}
Running(c) == svc[c].st \in {"booting", "up"}     \* Docker's state "running"
Healthy(c) == svc[c].st = "up"

\* The game servers that run or are about to.
Awake == srv.running \cup srv.restarting

\* docker stop and docker start; the latter does nothing to a container that restarts.
Halted(cs) == [running |-> srv.running \ cs, restarting |-> srv.restarting \ cs]
Started(cs) == [srv EXCEPT !.running = @ \cup (cs \ srv.restarting)]

At(r, pc) == hp[r].pc = pc

Goto(r, pc) == hp' = [hp EXCEPT ![r].pc = pc]

\* The helper's process is gone, and with it what it remembered.
Exit(r, pc) == hp' = [hp EXCEPT ![r] = [NoHelper EXCEPT !.pc = pc]]

-----------------------------------------------------------------------------
(* startPanelUpdate, in the engine.                                        *)

panelUpdateActive(state) == state \in {"queued", "running"}

\* applyPanelUpdate: the panel offers a release newer than its own.
UpdateAvailable == svc["app"].ver = "old"

\* The engine is asked when no update is active.
ReadStatus(r) ==
  /\ req[r] = "idle"
  /\ Healthy("app") /\ Healthy("engine") /\ UpdateAvailable
  /\ ~panelUpdateActive(status.state)
  /\ req' = [req EXCEPT ![r] = "checked"]
  /\ UNCHANGED <<status, hp, disk, docker, history, faults>>

\* After a look at the engine's container the status is written, over that of an
\* update that became active in between.
WriteQueued(r) ==
  /\ req[r] = "checked"
  /\ \/ /\ req' = [req EXCEPT ![r] = "queued"]
        /\ status' = [state |-> "queued", tells |-> "nothing"]
        /\ odd' = IF panelUpdateActive(status.state) THEN odd \cup {"overlap"} ELSE odd
        /\ "overlap" \in odd' => Overlaps
        /\ UNCHANGED faults
     \/ Fault("step") /\ req' = [req EXCEPT ![r] = "done"] /\ UNCHANGED <<status, odd>>
  /\ UNCHANGED <<hp, disk, docker, touched>>

\* The status of a plan that cannot be written stays "queued".
WritePlan(r) ==
  /\ req[r] = "queued"
  /\ \/ req' = [req EXCEPT ![r] = "planned"] /\ UNCHANGED faults
     \/ Fault("write") /\ req' = [req EXCEPT ![r] = "done"]
  /\ UNCHANGED <<status, hp, disk, docker, history>>

\* Mutant: the status is left as it is.
markPanelUpdateLaunchFailedSilently(r) ==
  /\ Fault("step")
  /\ req' = [req EXCEPT ![r] = "done"]
  /\ UNCHANGED status

markPanelUpdateLaunchFailed(r) ==
  /\ Fault("step")
  /\ status' = [state |-> "failed", tells |-> "notLaunched"]
  /\ req' = [req EXCEPT ![r] = "done"]

CreateHelper(r) ==
  /\ req[r] = "planned"
  /\ \/ req' = [req EXCEPT ![r] = "created"] /\ UNCHANGED <<status, faults>>
     \/ markPanelUpdateLaunchFailed(r)
  /\ UNCHANGED <<hp, disk, docker, history>>

\* The helper reads its plan and reports the first phase; when it cannot, it
\* ends before it has taken charge of failures.
StartHelper(r) ==
  /\ req[r] = "created"
  /\ \/ /\ hp' = [hp EXCEPT ![r].pc = "download"]
        /\ req' = [req EXCEPT ![r] = "done"]
        /\ status' = [state |-> "running", tells |-> "nothing"]
        /\ UNCHANGED faults
     \/ /\ Fault("write")
        /\ Exit(r, "ended")
        /\ req' = [req EXCEPT ![r] = "done"]
        /\ UNCHANGED status
     \/ markPanelUpdateLaunchFailed(r) /\ UNCHANGED hp
  /\ UNCHANGED <<disk, docker, history>>

-----------------------------------------------------------------------------
(* The helper, up to the snapshot.                                         *)

\* A helper that fails before the snapshot is finalized deletes its partial one.
Discard(r) ==
  snap' = IF hp[r].snapshotReady THEN snap
          ELSE [snap EXCEPT !.partial[r] = NoSnapshot]

\* A step returned an error: the deferred handlers take over.
Fails(r) ==
  /\ Goto(r, "fail")
  /\ Discard(r)

StepFails(r) == Fault("step") /\ Fails(r) /\ UNCHANGED <<status, files, db>>

\* writeStatus of the next phase; the phase before it is over.
writeStatus(r, next) ==
  \/ /\ next
     /\ status' = [state |-> "running", tells |-> "nothing"]
     /\ UNCHANGED <<snap, faults>>
  \/ Fault("write") /\ Fails(r) /\ UNCHANGED status

\* A release that is missing, too large or of another digest is refused.
downloadAndVerify(r) ==
  /\ At(r, "download")
  /\ \/ Goto(r, "extract") /\ UNCHANGED snap
     \/ Fails(r)
  /\ UNCHANGED <<status, files, db, faults, req, docker, history>>

\* The archive's root and the release metadata agree with the plan.
extractRelease(r) ==
  /\ At(r, "extract")
  /\ \/ writeStatus(r, Goto(r, "list"))
     \/ Fault("step") /\ Fails(r) /\ UNCHANGED status
  /\ UNCHANGED <<req, files, db, docker, history>>

\* Mutant: the worker, which the panel does not need, is not among them.
RunningWorkloadsNoWorker == srv.running \cup {c \in {"app"} : Running(c)}

RunningWorkloads == srv.running \cup {c \in Writers : Running(c)}

\* stopWorkloads lists the containers once and stops those it saw running; a server
\* that Docker is about to restart is not "running" and is skipped.
ListWorkloads(r) ==
  /\ At(r, "list")
  /\ \/ /\ hp' = [hp EXCEPT ![r] = [@ EXCEPT !.pc = "stop", !.todo = RunningWorkloads]]
        /\ touched' = srv.restarting
        /\ UNCHANGED <<status, disk, faults>>
     \/ StepFails(r) /\ UNCHANGED touched
  /\ UNCHANGED <<req, docker, odd>>

\* The worker first, the game servers next, the app last.
StopOrder(c, todo) ==
  /\ c = "app" => todo = {"app"}
  /\ c \in Servers => "worker" \notin todo

Stop(c) ==
  /\ srv' = Halted({c})
  /\ svc' = IF c \in Servers THEN svc ELSE [svc EXCEPT ![c].st = "stopped"]

\* A stop that returns an error may have taken effect.
StopNext(r, c) ==
  /\ At(r, "stop") /\ c \in hp[r].todo /\ StopOrder(c, hp[r].todo)
  /\ \/ /\ hp' = [hp EXCEPT ![r].todo = @ \ {c}, ![r].stopped = @ \cup {c}]
        /\ Stop(c)
        /\ UNCHANGED <<status, disk, faults>>
     \/ StepFails(r) /\ (Stop(c) \/ UNCHANGED docker)
  /\ UNCHANGED <<req, history>>

stopWorkloads(r) ==
  /\ At(r, "stop") /\ hp[r].todo = {}
  /\ writeStatus(r, Goto(r, "config"))
  /\ UNCHANGED <<req, files, db, docker, history>>

-----------------------------------------------------------------------------
(* The recovery snapshot.                                                  *)

\* Who writes while the snapshot is taken, touched servers aside.
Live == (Awake \ touched) \cup {c \in Writers : svc[c].st # "stopped"}

\* archiveDirectory: the panel's configuration.
ArchiveConfig(r) ==
  /\ At(r, "config")
  /\ \/ /\ Goto(r, "saveImages")
        /\ snap' = [snap EXCEPT !.partial[r] = [NoSnapshot EXCEPT !.there = TRUE,
                                                !.files = files, !.live = Live]]
        /\ UNCHANGED <<status, files, db, faults>>
     \/ StepFails(r)
  /\ UNCHANGED <<req, docker, history>>

\* The containers' images and the named volumes of servers and system services.
saveImages(r) ==
  /\ At(r, "saveImages")
  /\ \/ Goto(r, "volumes") /\ UNCHANGED <<status, disk, faults>>
     \/ StepFails(r)
  /\ UNCHANGED <<req, docker, history>>

archiveVolumes(r) ==
  /\ At(r, "volumes")
  /\ \/ /\ Goto(r, "dump")
        /\ snap' = [snap EXCEPT !.partial[r].live = @ \cup Live]
        /\ UNCHANGED <<status, files, db, faults>>
     \/ StepFails(r)
  /\ UNCHANGED <<req, docker, history>>

dumpPostgres(r) ==
  /\ At(r, "dump")
  /\ \/ /\ Goto(r, "manifest")
        /\ snap' = [snap EXCEPT !.partial[r].db = db, !.partial[r].live = @ \cup Live]
        /\ UNCHANGED <<status, files, db, faults>>
     \/ StepFails(r)
  /\ UNCHANGED <<req, docker, history>>

\* createSnapshot ends with the digests of all it has written.
WriteManifest(r) ==
  /\ At(r, "manifest")
  /\ \/ /\ Goto(r, "setAside")
        /\ snap' = [snap EXCEPT !.partial[r].whole = TRUE]
        /\ UNCHANGED <<status, files, db, faults>>
     \/ StepFails(r)
  /\ UNCHANGED <<req, docker, history>>

\* Mutant: the snapshot in place is removed to make room.
SetAsideRemoves(r) ==
  /\ At(r, "setAside")
  /\ Goto(r, "promote")
  /\ snap' = [snap EXCEPT !.current = NoSnapshot]
  /\ UNCHANGED <<status, files, db, faults, req, docker, history>>

\* finalizeSnapshot: the snapshot in place moves aside,
SetAside(r) ==
  /\ At(r, "setAside")
  /\ \/ /\ Goto(r, "promote")
        /\ snap' = IF ~snap.current.there THEN snap
                   ELSE [snap EXCEPT !.previous[r] = snap.current, !.current = NoSnapshot]
        /\ UNCHANGED <<status, files, db, faults>>
     \/ StepFails(r)
  /\ UNCHANGED <<req, docker, history>>

\* Mutant: a snapshot that could not be finalized does not keep the helper from going on.
PromoteUnchecked(r) ==
  /\ At(r, "promote")
  /\ \/ /\ ~snap.current.there /\ Goto(r, "drop")
        /\ snap' = [snap EXCEPT !.current = snap.partial[r], !.partial[r] = NoSnapshot]
        /\ UNCHANGED faults
     \/ Fault("step") /\ Goto(r, "apply") /\ UNCHANGED snap
  /\ UNCHANGED <<status, files, db, req, docker, history>>

\* the new one takes its place, unless another helper's already has,
Promote(r) ==
  /\ At(r, "promote")
  /\ \/ /\ IF snap.current.there
           THEN Goto(r, "undo") /\ UNCHANGED snap
           ELSE /\ Goto(r, "drop")
                /\ snap' = [snap EXCEPT !.current = snap.partial[r], !.partial[r] = NoSnapshot]
        /\ UNCHANGED faults
     \/ Fault("step") /\ Goto(r, "undo") /\ UNCHANGED snap
  /\ UNCHANGED <<status, files, db, req, docker, history>>

\* (when it cannot, the old one moves back if it can)
UndoAside(r) ==
  /\ At(r, "undo")
  /\ Goto(r, "fail")
  /\ LET back == snap.previous[r].there /\ ~snap.current.there
         undone == IF ~back THEN snap
                   ELSE [snap EXCEPT !.current = snap.previous[r], !.previous[r] = NoSnapshot]
     IN  \/ snap' = [undone EXCEPT !.partial[r] = NoSnapshot] /\ UNCHANGED faults
         \/ Fault("step") /\ Discard(r)
  /\ UNCHANGED <<status, files, db, req, docker, history>>

\* and the superseded one is removed, or what is left of it stays.
DropPrevious(r) ==
  /\ At(r, "drop")
  /\ hp' = [hp EXCEPT ![r] = [@ EXCEPT !.snapshotReady = TRUE, !.pc = "apply"]]
  /\ \/ snap' = [snap EXCEPT !.previous[r] = NoSnapshot] /\ UNCHANGED faults
     \/ Fault("step") /\ snap' = [snap EXCEPT !.previous[r].whole = FALSE]
  /\ UNCHANGED <<status, files, db, req, docker, history>>

-----------------------------------------------------------------------------
(* The new release is installed and verified.                              *)

BeginApply(r) ==
  /\ At(r, "apply")
  /\ writeStatus(r, hp' = [hp EXCEPT ![r] = [@ EXCEPT !.applyStarted = TRUE, !.pc = "files"]])
  /\ UNCHANGED <<req, files, db, docker, history>>

\* applyRelease copies the release's files over the old ones, sets the version in .env,
CopyFiles(r) ==
  /\ At(r, "files")
  /\ \/ /\ Goto(r, "compose")
        /\ files' = "new"
        /\ UNCHANGED faults
     \/ Fault("step") /\ Goto(r, "fail") /\ files' = "mixed"
  /\ UNCHANGED <<status, snap, db, req, docker, history>>

\* Compose makes containers anew for the installed version.
Recreated(cs, ver) ==
  [c \in Services |-> IF c \in cs THEN [ver |-> ver, st |-> "booting"] ELSE svc[c]]

\* A request is lost with the engine that was handling it.
Interrupted(cs) ==
  IF "engine" \in cs THEN [r \in Requests |-> IF req[r] = "idle" THEN "idle" ELSE "done"]
  ELSE req

\* pulls the images and starts all services but the worker.
ComposeUp(r) ==
  /\ At(r, "compose")
  /\ \/ /\ svc' = Recreated({"app", "engine"}, "new")
        /\ req' = Interrupted({"engine"})
        /\ writeStatus(r, Goto(r, "verify"))
     \/ /\ Fault("step") /\ Goto(r, "fail")
        /\ \E cs \in SUBSET {"app", "engine"} :
             svc' = Recreated(cs, "new") /\ req' = Interrupted(cs)
        /\ UNCHANGED <<status, snap>>
  /\ UNCHANGED <<files, db, srv, history>>

\* waitForPanel: all healthy before the deadline; the worker has no health check.
Ready(requireWorker) ==
  /\ Healthy("app") /\ Healthy("engine")
  /\ requireWorker => Running("worker")

VerifyCore(r) ==
  /\ At(r, "verify")
  /\ \/ Ready(FALSE) /\ writeStatus(r, Goto(r, "worker"))
     \/ ~Ready(FALSE) /\ Goto(r, "fail") /\ UNCHANGED <<status, snap, faults>>
  /\ UNCHANGED <<files, db, req, docker, history>>

startUpdatedWorker(r) ==
  /\ At(r, "worker")
  /\ \/ svc' = Recreated({"worker"}, "new") /\ Goto(r, "verifyAll") /\ UNCHANGED faults
     \/ Fault("step") /\ Goto(r, "fail") /\ UNCHANGED svc
  /\ UNCHANGED <<status, disk, req, srv, history>>

\* startStoppedContainers: containers that Compose has replaced are gone, and
\* one that does not start is only logged.
Resume(r) ==
  LET same == {c \in Writers \cap hp[r].stopped : svc[c].st = "stopped"}
      servers == Servers \cap hp[r].stopped
  IN  \E lost \in SUBSET (same \cup servers) :
        /\ svc' = [c \in Services |-> IF c \in same \ lost THEN [svc[c] EXCEPT !.st = "booting"]
                                      ELSE svc[c]]
        /\ srv' = Started(servers \ lost)
        /\ IF lost = {} THEN UNCHANGED faults ELSE Fault("start")

VerifyAll(r) ==
  /\ At(r, "verifyAll")
  /\ \/ Ready(TRUE) /\ Goto(r, "finish") /\ Resume(r)
     \/ ~Ready(TRUE) /\ Goto(r, "fail") /\ UNCHANGED <<docker, faults>>
  /\ UNCHANGED <<status, disk, req, history>>

\* When even the final status cannot be written, the update is rolled back.
Succeed(r) ==
  /\ At(r, "finish")
  /\ \/ /\ status' = [state |-> "succeeded", tells |-> "nothing"]
        /\ Exit(r, "ended") /\ UNCHANGED faults
     \/ Fault("write") /\ Goto(r, "fail") /\ UNCHANGED status
  /\ UNCHANGED <<disk, req, docker, history>>

-----------------------------------------------------------------------------
(* The deferred failure handler, with the rollback.                        *)

NeedsRollback(r) == hp[r].applyStarted /\ hp[r].snapshotReady

\* Mutant: only a rolled back update resumes what it stopped.
HandleFailureNoResume(r) ==
  /\ At(r, "fail")
  /\ Goto(r, IF NeedsRollback(r) THEN "stopWriters" ELSE "record")
  /\ UNCHANGED <<status, disk, req, docker, history, faults>>

HandleFailure(r) ==
  /\ At(r, "fail")
  /\ Goto(r, CASE NeedsRollback(r) -> "stopWriters"
               [] ~NeedsRollback(r) /\ ~hp[r].applyStarted -> "resume"
               [] OTHER -> "record")
  /\ UNCHANGED <<status, disk, req, docker, history, faults>>

\* A rollback that fails leaves everything as it is.
RollbackFails(r) == Fault("step") /\ Goto(r, "record")

\* Mutant: the writers go on while the database is restored.
stopCurrentPanelWritersSkipped(r) ==
  /\ At(r, "stopWriters")
  /\ Goto(r, "images")
  /\ UNCHANGED <<status, disk, req, docker, history, faults>>

\* A writer that Docker is about to restart is not "running" and is skipped.
stopCurrentPanelWriters(r) ==
  /\ At(r, "stopWriters")
  /\ \/ /\ svc' = [c \in Services |-> IF c \in Writers /\ Running(c)
                                      THEN [svc[c] EXCEPT !.st = "stopped"] ELSE svc[c]]
        /\ odd' = IF \E c \in Writers : svc[c].st = "looping" THEN odd \cup {"looping"} ELSE odd
        /\ Goto(r, "images") /\ UNCHANGED faults
     \/ /\ RollbackFails(r) /\ UNCHANGED odd
        /\ \E cs \in SUBSET {c \in Writers : Running(c)} :
             svc' = [c \in Services |-> IF c \in cs THEN [svc[c] EXCEPT !.st = "stopped"]
                                       ELSE svc[c]]
  /\ UNCHANGED <<status, disk, req, srv, touched>>

loadSnapshotImages(r) ==
  /\ At(r, "images")
  /\ \/ Goto(r, "restoreConfig") /\ UNCHANGED faults
     \/ RollbackFails(r)
  /\ UNCHANGED <<status, disk, req, docker, history>>

\* What is left of the new release where the snapshot's version v is put back over w.
Beside(v, w) == IF v = "old" /\ w # "old" THEN {"old", "restored"} ELSE {v}

\* extractTarGzip writes the snapshot's files; those it does not have stay.
RestoreConfig(r) ==
  /\ At(r, "restoreConfig")
  /\ \/ /\ Goto(r, "restoreDb")
        /\ files' \in Beside(snap.current.files, files)
        /\ UNCHANGED faults
     \/ RollbackFails(r) /\ files' = "mixed"
  /\ UNCHANGED <<status, snap, db, req, docker, history>>

\* psql drops what was dumped and makes it anew; what a migration has added since
\* stays, or keeps an object it depends on from being dropped, which ends psql
\* between two statements.
restorePostgres(r) ==
  /\ At(r, "restoreDb")
  /\ \/ /\ Goto(r, "recreate")
        /\ db' \in Beside(snap.current.db, db)
        /\ UNCHANGED faults
     \/ /\ db # snap.current.db
        /\ Goto(r, "record") /\ db' = "mixed" /\ UNCHANGED faults
     \/ RollbackFails(r) /\ db' = "mixed"
  /\ UNCHANGED <<status, snap, files, req, docker, history>>

\* setEnvironmentVersion is the last step of copying: .env names the old version
\* until everything is in place.
EnvironmentVersion == IF files = "new" THEN "new" ELSE "old"

\* Compose starts every service, in the version .env names.
RecreatePrior(r) ==
  /\ At(r, "recreate")
  /\ \/ /\ svc' = Recreated(Services, EnvironmentVersion) /\ req' = Interrupted(Services)
        /\ Goto(r, "verifyOld") /\ UNCHANGED faults
     \/ /\ RollbackFails(r)
        /\ \E cs \in SUBSET Services : svc' = Recreated(cs, EnvironmentVersion) /\ req' = Interrupted(cs)
  /\ UNCHANGED <<status, disk, srv, history>>

VerifyPrior(r) ==
  /\ At(r, "verifyOld")
  /\ \/ Ready(TRUE) /\ hp' = [hp EXCEPT ![r] = [@ EXCEPT !.rolledBack = TRUE, !.pc = "resume"]]
     \/ ~Ready(TRUE) /\ Goto(r, "record")
  /\ UNCHANGED <<status, disk, req, docker, history, faults>>

ResumeStopped(r) ==
  /\ At(r, "resume")
  /\ Goto(r, "record") /\ Resume(r)
  /\ UNCHANGED <<status, disk, req, history>>

Tells(r) ==
  CASE hp[r].rolledBack -> "restored"
    [] ~hp[r].rolledBack /\ hp[r].snapshotReady -> "snapshotKept"
    [] OTHER -> "notReplaced"

\* The error of the last write is ignored.
RecordFailure(r) ==
  /\ At(r, "record")
  /\ Exit(r, "ended")
  /\ \/ status' = [state |-> "failed", tells |-> Tells(r)] /\ UNCHANGED faults
     \/ Fault("write") /\ UNCHANGED status
  /\ odd' = IF hp[r].applyStarted /\ ~hp[r].rolledBack THEN odd \cup {"unrestored"} ELSE odd
  /\ UNCHANGED <<disk, req, docker, touched>>

-----------------------------------------------------------------------------
(* The services, the users and the host.                                   *)

\* A service boots: app and worker migrate the schema forward first.  A new
\* release may fail to, before or after the migration, and does when the migration
\* meets tables that an earlier attempt has left.
Migrated(c) == IF c \in Writers /\ svc[c].ver = "new" THEN "new" ELSE db

Boot(c) ==
  /\ svc[c].st = "booting"
  /\ \/ svc' = [svc EXCEPT ![c].st = "up"] /\ db' = Migrated(c) /\ UNCHANGED faults
     \/ /\ svc[c].ver = "new" /\ Fault("step")
        /\ svc' = [svc EXCEPT ![c].st = "looping"] /\ db' \in {db, Migrated(c)}
     \/ /\ c \in Writers /\ svc[c].ver = "new" /\ db \in {"restored", "mixed"}
        /\ svc' = [svc EXCEPT ![c].st = "looping"] /\ UNCHANGED <<db, faults>>
  /\ UNCHANGED <<status, req, hp, snap, files, srv, history>>

\* Docker's restart policy.
Restart(c) ==
  /\ svc[c].st = "looping"
  /\ svc' = [svc EXCEPT ![c].st = "booting"]
  /\ UNCHANGED <<status, req, hp, disk, srv, history, faults>>

Touch(s) == touched' = IF \E r \in Requests : Active(r) THEN touched \cup {s} ELSE {}

\* The engine starts and stops game servers for the users of the app, and for the
\* recoveries and schedules of the worker.
ServerPower(s) ==
  /\ Healthy("engine") /\ (Healthy("app") \/ Healthy("worker"))
  /\ srv' = IF s \in Awake THEN Halted({s}) ELSE Started({s})
  /\ Touch(s)
  /\ UNCHANGED <<status, req, hp, disk, svc, odd, faults>>

\* A game server ends of itself; Docker restarts it, unless its policy was disabled.
ServerExits(s) ==
  /\ s \in srv.running
  /\ \/ srv' = [srv EXCEPT !.running = @ \ {s}, !.restarting = @ \cup {s}] /\ UNCHANGED touched
     \/ srv' = Halted({s}) /\ Touch(s)
  /\ UNCHANGED <<status, req, hp, disk, svc, odd, faults>>

RestartServer(s) ==
  /\ s \in srv.restarting
  /\ srv' = [running |-> srv.running \cup {s}, restarting |-> srv.restarting \ {s}]
  /\ UNCHANGED <<status, req, hp, disk, svc, history, faults>>

\* The helper is killed: nobody continues its work or corrects its status.
Crash(r) ==
  /\ Active(r)
  /\ Fault("crash")
  /\ Exit(r, "killed")
  /\ UNCHANGED <<status, req, disk, docker, history>>

RequestStep(r) ==
  \/ WriteQueued(r) \/ WritePlan(r) \/ CreateHelper(r) \/ StartHelper(r)

HelperStep(r) ==
  \/ downloadAndVerify(r) \/ extractRelease(r)
  \/ ListWorkloads(r) \/ (\E c \in Servers \cup Writers : StopNext(r, c)) \/ stopWorkloads(r)
  \/ ArchiveConfig(r) \/ saveImages(r) \/ archiveVolumes(r) \/ dumpPostgres(r) \/ WriteManifest(r)
  \/ SetAside(r) \/ Promote(r) \/ UndoAside(r) \/ DropPrevious(r)
  \/ BeginApply(r) \/ CopyFiles(r) \/ ComposeUp(r) \/ VerifyCore(r)
  \/ startUpdatedWorker(r) \/ VerifyAll(r) \/ Succeed(r)
  \/ HandleFailure(r) \/ stopCurrentPanelWriters(r) \/ loadSnapshotImages(r)
  \/ RestoreConfig(r) \/ restorePostgres(r) \/ RecreatePrior(r) \/ VerifyPrior(r)
  \/ ResumeStopped(r) \/ RecordFailure(r)

ServerStep(s) == ServerPower(s) \/ ServerExits(s) \/ RestartServer(s)

Next ==
  \/ \E r \in Requests : ReadStatus(r) \/ RequestStep(r) \/ HelperStep(r) \/ Crash(r)
  \/ \E c \in Services : Boot(c) \/ Restart(c)
  \/ \E s \in Servers : ServerStep(s)

Spec == Init /\ [][Next]_vars

\* A handler, a helper and Docker run on.
FairSpec ==
  /\ Spec
  /\ \A r \in Requests : WF_vars(RequestStep(r)) /\ WF_vars(HelperStep(r))
  /\ \A c \in Services : WF_vars(Boot(c)) /\ WF_vars(Restart(c))

-----------------------------------------------------------------------------
(* Properties.                                                             *)

HasSnapshot == snap.current.whole \/ \E r \in Requests : snap.previous[r].whole

Installed(ver) ==
  /\ Release(files) = ver /\ Release(db) = ver
  /\ \A c \in Services : svc[c].ver = ver

\* What Panel Settings shows of an update that is over is true, whatever step
\* failed: an update that succeeded has replaced files, containers and schema,
\* after one that was not launched, stopped early or was rolled back all three are
\* the old release's again, with at most additions of the new one beside them, and
\* one that failed otherwise has left a whole snapshot.
TruthfulStatus ==
  /\ status.state = "succeeded" /\ odd = {} => Installed("new")
  /\ status.tells \in {"notLaunched", "notReplaced", "restored"} /\ odd = {} => Installed("old")
  /\ status.tells = "snapshotKept" => HasSnapshot

\* The snapshot in place is whole and of the old release, and while it was taken
\* nobody wrote but game servers that the list had skipped or that others started.
RecoverySnapshot ==
  snap.current.there =>
    /\ snap.current.whole
    /\ odd = {} => /\ Release(snap.current.files) = "old" /\ Release(snap.current.db) = "old"
                   /\ snap.current.live = {}

\* From the first completed snapshot on there is one on disk, whichever rename
\* fails and even when a helper is killed between two of them.
SnapshotSurvives == [][HasSnapshot => HasSnapshot']_vars

\* The release that files, schema and containers belong to, if they agree.
Held ==
  CASE Installed("old") -> "old"
    [] Installed("new") -> "new"
    [] OTHER -> "between"

\* An update implements the abstract replacement: nothing of the old release is replaced
\* and nothing is put back while there is no whole snapshot on disk, the last one is never
\* given up, and no single step leads from one release to the other.
Replacement == INSTANCE SafeReplacement WITH installed <- Held, fallback <- HasSnapshot

ReplacementSpec == Replacement!Spec

\* A helper that ends leaves every game server it had stopped running or about to be
\* restarted, unless something else stopped it, the server did not start, or the
\* rollback failed.
Resumed ==
  [][\A r \in Requests :
       hp[r].pc \in {"finish", "record"} /\ hp'[r].pc = "ended" /\ odd = {}
         /\ faults.start = 0 /\ (hp[r].applyStarted => hp[r].rolledBack \/ hp[r].pc = "finish")
       => hp[r].stopped \cap Servers \subseteq Awake' \cup touched]_vars

\* The panel tells of a rolled back update that it "automatically restored the prior
\* panel version and database": the database is as it was, with no table of the new
\* release that the next attempt's migration would run into.
DatabaseRestored == status.tells = "restored" /\ odd = {} => db = "old"

\* The documentation says that "the worker, running game servers, and app are stopped to
\* quiesce writes": none runs while a helper fills its snapshot.
Quiesced ==
  (\E r \in Requests : hp[r].pc \in {"config", "saveImages", "volumes", "dump"}) /\ odd = {}
    => srv.running = {} /\ \A c \in Writers : ~Running(c)

\* The engine refuses a request with "a panel update is already running": no two
\* helpers work on the installation at a time.
OneUpdate == \A r, o \in Requests : Active(r) /\ Active(o) => r = o

\* An update that was accepted does not stay active for ever, unless the helper
\* was killed or status or plan could not be written.
UpdateSettles ==
  panelUpdateActive(status.state) ~>
    ~panelUpdateActive(status.state) \/ faults.write > 0 \/ faults.crash > 0
=============================================================================
