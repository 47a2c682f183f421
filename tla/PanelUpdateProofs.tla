-------------------------- MODULE PanelUpdateProofs --------------------------
(***************************************************************************)
(* Proofs about PanelUpdate, for any number of requests, game servers and  *)
(* faults: a recovery snapshot, once completed, is never lost; the one in  *)
(* place is whole; what the status file tells of an update that is over    *)
(* is true; the game servers an update had stopped run again; and the      *)
(* update implements SafeReplacement.                                      *)
(***************************************************************************)
EXTENDS PanelUpdate, TLAPS

-----------------------------------------------------------------------------
(* The inductive invariant, first part: the snapshot directories, also     *)
(* when updates overlap.                                                   *)

Pcs ==
  {"none", "download", "extract", "list", "stop", "config", "saveImages", "volumes", "dump", "manifest",
   "setAside", "promote", "undo", "drop", "apply", "files", "compose", "verify", "worker",
   "verifyAll", "finish", "fail", "stopWriters", "images", "restoreConfig",
   "restoreDb", "recreate", "verifyOld", "resume", "record", "ended", "killed"}

\* Where a helper's partial snapshot exists, and where it is complete.
Filling == {"saveImages", "volumes", "dump", "manifest", "setAside", "promote"}
Filled == {"setAside", "promote"}

\* Where a helper has not dropped the snapshot that its own superseded.
BeforeDrop == {"none", "download", "extract", "list", "stop", "config", "undo"} \cup Filling

\* A request that is not over has no helper yet.
NotStarted == \A r \in Requests : req[r] # "done" => hp[r] = NoHelper

\* The snapshot in place is whole: it got there by a rename.
CurrentWhole == snap.current.there = snap.current.whole

\* A partial snapshot is complete before it takes its place.
PartialWhole ==
  \A r \in Requests :
    /\ hp[r].pc \in Filling => snap.partial[r].there = TRUE
    /\ hp[r].pc \in Filled => snap.partial[r].whole = TRUE

\* What was set aside is whole as long as it may have to move back.
AsideWhole == \A r \in Requests : hp[r].pc \in BeforeDrop => snap.previous[r].there = snap.previous[r].whole

\* A helper that is about to drop a snapshot does not drop the last one, and no two
\* helpers count on each other's.
DropSafe ==
  (\E r \in Requests : At(r, "drop")) =>
     snap.current.whole = TRUE \/ \E q \in Requests : snap.previous[q].whole = TRUE /\ ~At(q, "drop")

\* A helper that remembers a snapshot, and a status that tells of one, are right.
SnapshotKept ==
  (\E r \in Requests : hp[r].snapshotReady) \/ status.tells = "snapshotKept" => HasSnapshot

SnapshotInv ==
  TypeOK /\ NotStarted /\ CurrentWhole /\ PartialWhole /\ AsideWhole /\ DropSafe /\ SnapshotKept

-----------------------------------------------------------------------------
(* Second part: the installation, as long as nothing odd has happened.     *)

\* What a helper remembers at each step.
Early == {"none", "download", "extract", "list", "stop", "config", "undo", "drop", "ended", "killed"} \cup Filling
Installing == {"files", "compose", "verify", "worker", "verifyAll", "finish"}
RollingBack == {"stopWriters", "images", "restoreConfig", "restoreDb", "recreate", "verifyOld"}

Remembers ==
  \A r \in Requests :
    /\ hp[r].pc \in Early => hp[r].snapshotReady = FALSE
    /\ hp[r].pc = "apply" => hp[r].snapshotReady = TRUE
    /\ hp[r].applyStarted = TRUE => hp[r].snapshotReady = TRUE
    /\ hp[r].pc \in Installing \cup RollingBack => hp[r].applyStarted = TRUE
    /\ hp[r].pc = "apply" => hp[r].applyStarted = FALSE
    /\ hp[r].rolledBack = TRUE => hp[r].pc \in {"resume", "record"} /\ hp[r].applyStarted = TRUE
    /\ hp[r].pc = "resume" => hp[r].applyStarted = hp[r].rolledBack

\* A request that holds the status file "active", or its helper.
Busy(r) == req[r] \in {"queued", "planned", "created"} \/ Active(r)

\* Updates do not overlap, and the status tells of the one there is.
OneBusy == \A r, o \in Requests : Busy(r) /\ Busy(o) => r = o
BusyShows == \A r \in Requests : Busy(r) => panelUpdateActive(status.state)
FailureTold == status.tells # "nothing" => status.state = "failed"

\* A helper has set nothing aside before it is about to put its own snapshot in place.
NothingAside ==
  \A r \in Requests : hp[r].pc \in BeforeDrop \ {"promote", "undo"} => snap.previous[r].there = FALSE

\* A service of the old release does not fail to boot, and a writer of the new one is
\* up only after it has migrated the database.
OldBoots == \A c \in Services : svc[c].ver = "old" => svc[c].st # "looping"
NewMigrated == \A c \in Writers : svc[c].ver = "new" /\ svc[c].st = "up" => db = "new"

\* Outside the installation of a release there is one, the old one until an update succeeds.
Settled ==
  /\ status.state \in {"idle", "failed"} => Installed("old")
  /\ status.state = "succeeded" => Installed("new") /\ \A r \in Requests : req[r] \in {"idle", "done"}
  /\ \A r \in Requests : Busy(r) /\ ~hp[r].applyStarted => Installed("old")

\* The steps of the installation,
Progress(r) ==
  /\ hp[r].pc = "files" => Installed("old")
  /\ hp[r].pc = "compose" => files = "new" /\ Release(db) = "old" /\ \A c \in Services : svc[c].ver = "old"
  /\ hp[r].pc \in {"verify", "worker", "verifyAll", "finish"} =>
       /\ files = "new" /\ svc["app"].ver = "new" /\ svc["engine"].ver = "new"
       /\ \A q \in Requests : req[q] \in {"idle", "done"}
  /\ hp[r].pc \in {"worker", "verifyAll", "finish"} => db = "new"
  /\ hp[r].pc \in {"verifyAll", "finish"} => svc["worker"].ver = "new"

\* and those of the rollback.
Restored(r) ==
  /\ hp[r].pc \in {"images", "restoreConfig", "restoreDb", "recreate"} =>
       \A c \in Writers : svc[c].st = "stopped"
  /\ hp[r].pc \in {"restoreDb", "recreate"} => Release(files) = "old"
  /\ hp[r].pc = "recreate" => Release(db) = "old"
  /\ hp[r].pc = "verifyOld" \/ hp[r].rolledBack = TRUE => Installed("old")

\* Who may still write is to be stopped; then nobody does.
Stopping(r) ==
  /\ hp[r].pc = "stop" => Live \subseteq hp[r].todo
  /\ hp[r].pc \in {"config", "saveImages", "volumes", "dump"} => Live = {}

\* The snapshots have the old release, and nobody wrote meanwhile.
Good(s) == s.there => Release(s.files) = "old" /\ Release(s.db) = "old" /\ s.live = {}

Snapshots(r) ==
  /\ hp[r].pc \in Filling => Release(snap.partial[r].files) = "old" /\ snap.partial[r].live = {}
  /\ hp[r].pc \in {"manifest", "setAside", "promote"} => Release(snap.partial[r].db) = "old"
  /\ hp[r].pc \in {"promote", "undo"} => Good(snap.previous[r])
  /\ hp[r].snapshotReady = TRUE \/ hp[r].pc = "drop" => snap.current.there = TRUE

Own(r) == Progress(r) /\ Restored(r) /\ Stopping(r) /\ Snapshots(r)

Consistent ==
  /\ OneBusy /\ BusyShows /\ NewMigrated /\ Settled /\ Good(snap.current)
  /\ \A r \in Requests : Own(r)

UpdateInv ==
  /\ SnapshotInv /\ Remembers /\ NothingAside /\ OldBoots /\ FailureTold
  /\ odd = {} => Consistent

-----------------------------------------------------------------------------
(* How helpers move.                                                       *)

\* The steps of a helper that changes nothing else of what it remembers.
Edge(p, q) ==
  \/ q = "fail" /\ p \in (Early \ {"none", "ended", "killed"}) \cup {"apply"} \cup Installing
  \/ q = "record" /\ p \in RollingBack \cup {"fail", "resume"}
  \/ p = "download" /\ q = "extract"
  \/ p = "extract" /\ q = "list"
  \/ p = "list" /\ q = "stop"
  \/ p = "stop" /\ q \in {"stop", "config"}
  \/ p = "config" /\ q = "saveImages"
  \/ p = "saveImages" /\ q = "volumes"
  \/ p = "volumes" /\ q = "dump"
  \/ p = "dump" /\ q = "manifest"
  \/ p = "manifest" /\ q = "setAside"
  \/ p = "setAside" /\ q = "promote"
  \/ p = "promote" /\ q \in {"undo", "drop"}
  \/ p = "files" /\ q = "compose"
  \/ p = "compose" /\ q = "verify"
  \/ p = "verify" /\ q = "worker"
  \/ p = "worker" /\ q = "verifyAll"
  \/ p = "verifyAll" /\ q = "finish"
  \/ p = "fail" /\ q \in {"stopWriters", "resume"}
  \/ p = "stopWriters" /\ q = "images"
  \/ p = "images" /\ q = "restoreConfig"
  \/ p = "restoreConfig" /\ q = "restoreDb"
  \/ p = "restoreDb" /\ q = "recreate"
  \/ p = "recreate" /\ q = "verifyOld"

SameMemory(r) ==
  /\ hp'[r].snapshotReady = hp[r].snapshotReady
  /\ hp'[r].applyStarted = hp[r].applyStarted
  /\ hp'[r].rolledBack = hp[r].rolledBack

Fresh(h) == h.snapshotReady = FALSE /\ h.applyStarted = FALSE /\ h.rolledBack = FALSE

\* A helper without a memory, at any of its steps.
LEMMA HelperTyped ==
  /\ NoHelper \in Helper /\ NoHelper.pc = "none" /\ Fresh(NoHelper)
  /\ \A q \in {"ended", "killed", "download"} :
       LET h == [NoHelper EXCEPT !.pc = q] IN h \in Helper /\ h.pc = q /\ Fresh(h)
  BY DEF NoHelper, Helper, Fresh

\* A helper goes to another step and remembers what it did.
LEMMA GotoMoves ==
  ASSUME hp \in [Requests -> Helper], NEW r \in Requests, NEW q \in Pcs, Goto(r, q)
  PROVE  /\ hp' \in [Requests -> Helper]
         /\ hp'[r].pc = q /\ SameMemory(r)
         /\ hp'[r].todo = hp[r].todo /\ hp'[r].stopped = hp[r].stopped
         /\ \A o \in Requests \ {r} : hp'[o] = hp[o]
  <1>1. \A h \in Helper : LET g == [h EXCEPT !.pc = q]
                          IN /\ g \in Helper /\ g.pc = q /\ g.todo = h.todo /\ g.stopped = h.stopped
                             /\ g.snapshotReady = h.snapshotReady /\ g.applyStarted = h.applyStarted
                             /\ g.rolledBack = h.rolledBack
    BY DEF Helper, Pcs
  <1>2. hp[r] \in Helper OBVIOUS
  <1>3. hp'[r] = [hp[r] EXCEPT !.pc = q] /\ hp' = [hp EXCEPT ![r] = [hp[r] EXCEPT !.pc = q]]
    BY DEF Goto
  <1>4. \A o \in Requests \ {r} : hp'[o] = hp[o] BY <1>3
  <1> QED BY <1>1, <1>2, <1>3, <1>4 DEF SameMemory

\* A helper ends, or is killed.
LEMMA ExitMoves ==
  ASSUME hp \in [Requests -> Helper], NEW r \in Requests, NEW q \in {"ended", "killed"}, Exit(r, q)
  PROVE  /\ hp' \in [Requests -> Helper]
         /\ hp'[r].pc = q /\ Fresh(hp'[r])
         /\ \A o \in Requests \ {r} : hp'[o] = hp[o]
  <1>1. hp' = [hp EXCEPT ![r] = [NoHelper EXCEPT !.pc = q]] BY DEF Exit
  <1> DEFINE h == [NoHelper EXCEPT !.pc = q]
  <1>2. h \in Helper /\ h.pc = q /\ Fresh(h) BY HelperTyped
  <1> HIDE DEF h
  <1>3. hp' = [hp EXCEPT ![r] = h] BY <1>1 DEF h
  <1> QED BY <1>2, <1>3

\* Every step of a helper, and what it remembers.
Moves(r) ==
  \/ Edge(hp[r].pc, hp'[r].pc) /\ SameMemory(r)
  \/ hp[r].pc \in {"finish", "record"} /\ hp'[r].pc = "ended" /\ Fresh(hp'[r])
  \/ /\ hp[r].pc = "drop" /\ hp'[r].pc = "apply" /\ hp'[r].snapshotReady = TRUE
     /\ hp'[r].applyStarted = hp[r].applyStarted /\ hp'[r].rolledBack = hp[r].rolledBack
  \/ /\ hp[r].pc = "apply" /\ hp'[r].pc = "files" /\ hp'[r].applyStarted = TRUE
     /\ hp'[r].snapshotReady = hp[r].snapshotReady /\ hp'[r].rolledBack = hp[r].rolledBack
  \/ /\ hp[r].pc = "verifyOld" /\ hp'[r].pc = "resume" /\ hp'[r].rolledBack = TRUE
     /\ hp'[r].snapshotReady = hp[r].snapshotReady /\ hp'[r].applyStarted = hp[r].applyStarted
\* HelperStep does nothing else to any helper.
LEMMA HelperMoves ==
  ASSUME TypeOK, NEW r \in Requests, HelperStep(r)
  PROVE  /\ hp' \in [Requests -> Helper]
         /\ \A o \in Requests \ {r} : hp'[o] = hp[o]
         /\ Moves(r)
  <1> DEFINE Goes(q) == q \in Pcs /\ Goto(r, q) /\ Edge(hp[r].pc, q)
             Ends == Exit(r, "ended") /\ hp[r].pc \in {"finish", "record"}
             Result == /\ hp' \in [Requests -> Helper]
                       /\ \A o \in Requests \ {r} : hp'[o] = hp[o]
                       /\ Moves(r)
  <1>0. hp \in [Requests -> Helper] BY DEF TypeOK
  <1>1. \A q : Goes(q) => Result BY <1>0, GotoMoves DEF Moves
  <1>2. Ends => Result BY <1>0, ExitMoves DEF Moves
  <1> SUFFICES Result OBVIOUS
  <1> HIDE DEF Result, Goes, Ends
  <1>3. CASE downloadAndVerify(r) \/ extractRelease(r)
    <2>1. Goes("extract") \/ Goes("list") \/ Goes("fail") BY <1>3 DEF Goes, downloadAndVerify, extractRelease, writeStatus, Fails, At, Pcs, Edge, Early
    <2> QED BY <1>1, <2>1
  <1>4. CASE ListWorkloads(r)
    <2>1. CASE StepFails(r)
      <3>1. Goes("fail") BY <1>4, <2>1 DEF Goes, ListWorkloads, StepFails, Fails, At, Pcs, Edge, Early
      <3> QED BY <1>1, <3>1
    <2>2. CASE hp' = [hp EXCEPT ![r] = [@ EXCEPT !.pc = "stop", !.todo = RunningWorkloads]]
      <3>1. RunningWorkloads \subseteq Servers \cup Writers BY DEF RunningWorkloads, TypeOK
      <3>2. \A h \in Helper :
              LET g == [h EXCEPT !.pc = "stop", !.todo = RunningWorkloads]
              IN  /\ g \in Helper /\ g.pc = "stop" /\ g.snapshotReady = h.snapshotReady
                  /\ g.applyStarted = h.applyStarted /\ g.rolledBack = h.rolledBack
        BY <3>1 DEF Helper
      <3> DEFINE g == [hp[r] EXCEPT !.pc = "stop", !.todo = RunningWorkloads]
      <3>3. /\ g \in Helper /\ g.pc = "stop" /\ g.snapshotReady = hp[r].snapshotReady
            /\ g.applyStarted = hp[r].applyStarted /\ g.rolledBack = hp[r].rolledBack
        BY <1>0, <3>1, <3>2
      <3> HIDE DEF g
      <3>4. hp' = [hp EXCEPT ![r] = g] BY <2>2 DEF g
      <3>5. hp[r].pc = "list" BY <1>4 DEF ListWorkloads, At
      <3> QED BY <1>0, <3>3, <3>4, <3>5 DEF Result, Moves, SameMemory, Edge
    <2> QED BY <1>4, <2>1, <2>2 DEF ListWorkloads
  <1>5. ASSUME NEW c \in Servers \cup Writers, StopNext(r, c) PROVE Result
    <2>1. CASE StepFails(r)
      <3>1. Goes("fail") BY <1>5, <2>1 DEF Goes, StopNext, StepFails, Fails, At, Pcs, Edge, Early
      <3> QED BY <1>1, <3>1
    <2>2. CASE hp' = [hp EXCEPT ![r].todo = @ \ {c}, ![r].stopped = @ \cup {c}]
      <3>1. \A h \in Helper :
              LET g == [h EXCEPT !.todo = h.todo \ {c}, !.stopped = h.stopped \cup {c}]
              IN  /\ g \in Helper /\ g.pc = h.pc /\ g.snapshotReady = h.snapshotReady
                  /\ g.applyStarted = h.applyStarted /\ g.rolledBack = h.rolledBack
        BY DEF Helper
      <3> DEFINE g == [hp[r] EXCEPT !.todo = hp[r].todo \ {c}, !.stopped = hp[r].stopped \cup {c}]
      <3>2. /\ g \in Helper /\ g.pc = hp[r].pc /\ g.snapshotReady = hp[r].snapshotReady
            /\ g.applyStarted = hp[r].applyStarted /\ g.rolledBack = hp[r].rolledBack
        BY <1>0, <3>1
      <3> HIDE DEF g
      <3>3. hp' = [hp EXCEPT ![r] = g] BY <2>2 DEF g
      <3>4. hp[r].pc = "stop" BY <1>5 DEF StopNext, At
      <3> QED BY <1>0, <3>2, <3>3, <3>4 DEF Result, Moves, SameMemory, Edge
    <2> QED BY <1>5, <2>1, <2>2 DEF StopNext
  <1>6. CASE stopWorkloads(r) \/ ArchiveConfig(r) \/ saveImages(r) \/ archiveVolumes(r) \/ dumpPostgres(r)
    <2>1. Goes("config") \/ Goes("saveImages") \/ Goes("volumes") \/ Goes("dump") \/ Goes("manifest") \/ Goes("fail")
      BY <1>6 DEF Goes, stopWorkloads, ArchiveConfig, saveImages, archiveVolumes, dumpPostgres, writeStatus,
                           StepFails, Fails, At, Pcs, Edge, Early, Filling
    <2> QED BY <1>1, <2>1
  <1>7. CASE WriteManifest(r) \/ SetAside(r) \/ Promote(r) \/ UndoAside(r)
    <2>1. Goes("setAside") \/ Goes("promote") \/ Goes("undo") \/ Goes("drop") \/ Goes("fail")
      BY <1>7 DEF Goes, WriteManifest, SetAside, Promote, UndoAside, StepFails, Fails, At, Pcs, Edge, Early, Filling
    <2> QED BY <1>1, <2>1
  <1>8. CASE DropPrevious(r)
    <2>1. \A h \in Helper :
            LET g == [h EXCEPT !.snapshotReady = TRUE, !.pc = "apply"]
            IN  /\ g \in Helper /\ g.pc = "apply" /\ g.snapshotReady = TRUE
                /\ g.applyStarted = h.applyStarted /\ g.rolledBack = h.rolledBack
      BY DEF Helper
    <2> DEFINE g == [hp[r] EXCEPT !.snapshotReady = TRUE, !.pc = "apply"]
    <2>2. /\ g \in Helper /\ g.pc = "apply" /\ g.snapshotReady = TRUE
          /\ g.applyStarted = hp[r].applyStarted /\ g.rolledBack = hp[r].rolledBack
      BY <1>0, <2>1
    <2> HIDE DEF g
    <2>3. hp' = [hp EXCEPT ![r] = g] /\ hp[r].pc = "drop" BY <1>8 DEF DropPrevious, At, g
    <2> QED BY <1>0, <2>2, <2>3 DEF Result, Moves
  <1>9. CASE BeginApply(r)
    <2>1. CASE Fails(r)
      <3>1. Goes("fail") BY <1>9, <2>1 DEF Goes, BeginApply, Fails, At, Pcs, Edge
      <3> QED BY <1>1, <3>1
    <2>2. CASE hp' = [hp EXCEPT ![r] = [@ EXCEPT !.applyStarted = TRUE, !.pc = "files"]]
      <3>1. \A h \in Helper :
              LET g == [h EXCEPT !.applyStarted = TRUE, !.pc = "files"]
              IN  /\ g \in Helper /\ g.pc = "files" /\ g.applyStarted = TRUE
                  /\ g.snapshotReady = h.snapshotReady /\ g.rolledBack = h.rolledBack
        BY DEF Helper
      <3> DEFINE g == [hp[r] EXCEPT !.applyStarted = TRUE, !.pc = "files"]
      <3>2. /\ g \in Helper /\ g.pc = "files" /\ g.applyStarted = TRUE
            /\ g.snapshotReady = hp[r].snapshotReady /\ g.rolledBack = hp[r].rolledBack
        BY <1>0, <3>1
      <3> HIDE DEF g
      <3>3. hp' = [hp EXCEPT ![r] = g] /\ hp[r].pc = "apply" BY <1>9, <2>2 DEF BeginApply, At, g
      <3> QED BY <1>0, <3>2, <3>3 DEF Result, Moves
    <2> QED BY <1>9, <2>1, <2>2 DEF BeginApply, writeStatus
  <1>10. CASE CopyFiles(r) \/ ComposeUp(r) \/ VerifyCore(r) \/ startUpdatedWorker(r) \/ VerifyAll(r)
    <2>1. Goes("compose") \/ Goes("verify") \/ Goes("worker") \/ Goes("verifyAll") \/ Goes("finish") \/ Goes("fail")
      BY <1>10 DEF Goes, CopyFiles, ComposeUp, VerifyCore, startUpdatedWorker, VerifyAll, writeStatus, Fails, At, Pcs,
                            Edge, Installing
    <2> QED BY <1>1, <2>1
  <1>11. CASE Succeed(r) \/ RecordFailure(r)
    <2>1. Goes("fail") \/ Ends BY <1>11 DEF Goes, Ends, Succeed, RecordFailure, At, Pcs, Edge, Installing
    <2> QED BY <1>1, <1>2, <2>1
  <1>12. CASE HandleFailure(r)
    <2>1. Goes("stopWriters") \/ Goes("resume") \/ Goes("record") BY <1>12 DEF Goes, HandleFailure, At, Pcs, Edge
    <2> QED BY <1>1, <2>1
  <1>13. CASE stopCurrentPanelWriters(r) \/ loadSnapshotImages(r) \/ RestoreConfig(r) \/ restorePostgres(r)
    <2>1. Goes("images") \/ Goes("restoreConfig") \/ Goes("restoreDb") \/ Goes("recreate") \/ Goes("record")
      BY <1>13 DEF Goes, stopCurrentPanelWriters, loadSnapshotImages, RestoreConfig, restorePostgres, RollbackFails,
                            At, Pcs, Edge, RollingBack
    <2> QED BY <1>1, <2>1
  <1>14. CASE RecreatePrior(r) \/ ResumeStopped(r)
    <2>1. Goes("verifyOld") \/ Goes("record") BY <1>14 DEF Goes, RecreatePrior, ResumeStopped, RollbackFails, At, Pcs, Edge, RollingBack
    <2> QED BY <1>1, <2>1
  <1>15. CASE VerifyPrior(r)
    <2>1. CASE Goto(r, "record")
      <3>1. Goes("record") BY <1>15, <2>1 DEF Goes, VerifyPrior, At, Pcs, Edge, RollingBack
      <3> QED BY <1>1, <3>1
    <2>2. CASE hp' = [hp EXCEPT ![r] = [@ EXCEPT !.rolledBack = TRUE, !.pc = "resume"]]
      <3>1. \A h \in Helper :
              LET g == [h EXCEPT !.rolledBack = TRUE, !.pc = "resume"]
              IN  /\ g \in Helper /\ g.pc = "resume" /\ g.rolledBack = TRUE
                  /\ g.snapshotReady = h.snapshotReady /\ g.applyStarted = h.applyStarted
        BY DEF Helper
      <3> DEFINE g == [hp[r] EXCEPT !.rolledBack = TRUE, !.pc = "resume"]
      <3>2. /\ g \in Helper /\ g.pc = "resume" /\ g.rolledBack = TRUE
            /\ g.snapshotReady = hp[r].snapshotReady /\ g.applyStarted = hp[r].applyStarted
        BY <1>0, <3>1
      <3> HIDE DEF g
      <3>3. hp' = [hp EXCEPT ![r] = g] /\ hp[r].pc = "verifyOld" BY <1>15, <2>2 DEF VerifyPrior, At, g
      <3> QED BY <1>0, <3>2, <3>3 DEF Result, Moves
    <2> QED BY <1>15, <2>1, <2>2 DEF VerifyPrior
  <1> QED
    BY <1>3, <1>4, <1>5, <1>6, <1>7, <1>8, <1>9, <1>10, <1>11, <1>12, <1>13, <1>14, <1>15 DEF HelperStep
-----------------------------------------------------------------------------
(* Type correctness.                                                       *)

SnapshotDirs == [current : Snapshot, previous : [Requests -> Snapshot], partial : [Requests -> Snapshot]]
RequestSteps == {"idle", "checked", "queued", "planned", "created", "done"}
Containers == [Services -> [ver : {"old", "new"}, st : {"stopped", "booting", "up", "looping"}]]
Powers == [running : SUBSET Servers, restarting : SUBSET Servers]
FaultCounts == [step : 0 .. MaxFaults, write : 0 .. MaxFaults, start : 0 .. MaxFaults, crash : 0 .. MaxFaults]

\* What is not of a helper or in a snapshot directory.
OthersTyped ==
  /\ status \in Status
  /\ req \in [Requests -> RequestSteps]
  /\ files \in Version /\ db \in Version
  /\ svc \in Containers
  /\ srv \in Powers /\ touched \subseteq Servers
  /\ odd \subseteq {"overlap", "looping", "unrestored"}
  /\ faults \in FaultCounts

\* The type invariant in three parts.
LEMMA TypeParts == TypeOK <=> OthersTyped /\ hp \in [Requests -> Helper] /\ snap \in SnapshotDirs
  BY DEF TypeOK, OthersTyped, SnapshotDirs, RequestSteps, Containers, Powers, FaultCounts

\* What docker stop and docker start make of the game servers.
LEMMA PowersTyped ==
  ASSUME srv \in Powers
  PROVE  /\ \A cs : Halted(cs) \in Powers
         /\ \A cs \in SUBSET Servers : Started(cs) \in Powers
         /\ Awake \subseteq Servers
         /\ \A cs : srv' = Halted(cs) => Awake' = Awake \ cs
         /\ \A cs \in SUBSET Servers : srv' = Started(cs) => Awake' = Awake \cup cs
  <1>1. srv.running \in SUBSET Servers /\ srv.restarting \in SUBSET Servers BY DEF Powers
  <1>2. \A cs : Halted(cs) \in Powers BY <1>1 DEF Halted, Powers
  <1>3. \A cs : Started(cs) = [running |-> srv.running \cup (cs \ srv.restarting), restarting |-> srv.restarting]
    BY DEF Started, Powers
  <1>4. \A cs \in SUBSET Servers : Started(cs) \in Powers BY <1>1, <1>3 DEF Powers
  <1>5. \A cs : srv' = Halted(cs) => Awake' = Awake \ cs BY <1>1 DEF Halted, Awake
  <1>6. \A cs : srv' = Started(cs) => Awake' = Awake \cup cs BY <1>1, <1>3 DEF Awake
  <1> QED BY <1>1, <1>2, <1>4, <1>5, <1>6 DEF Awake

\* A game server that starts, stops or ends is no business of the update's,
LEMMA ServerStepKeeps ==
  \A s \in Servers : ServerStep(s) =>
    /\ status' = status /\ req' = req /\ hp' = hp /\ snap' = snap /\ files' = files /\ db' = db
    /\ svc' = svc /\ odd' = odd /\ faults' = faults
  BY DEF ServerStep, ServerPower, ServerExits, RestartServer, disk, history

\* but while there is one it is touched, unless Docker's policy is at work.
LEMMA ServerStepDoes ==
  ASSUME srv \in Powers, touched \subseteq Servers, NEW s \in Servers, ServerStep(s)
  PROVE  /\ srv' \in Powers /\ touched' \subseteq Servers
         /\ (\E r \in Requests : Active(r)) =>
              /\ touched \subseteq touched'
              /\ Awake' \subseteq Awake \cup touched' /\ Awake \subseteq Awake' \cup touched'
  <1>1. srv.running \in SUBSET Servers /\ srv.restarting \in SUBSET Servers BY DEF Powers
  <1>2. ASSUME Touch(s)
        PROVE  /\ touched' \subseteq Servers
               /\ (\E r \in Requests : Active(r)) => touched \subseteq touched' /\ s \in touched'
    BY <1>2 DEF Touch
  <1>3. CASE ServerPower(s)
    <2>1. srv' = Halted({s}) \/ srv' = Started({s}) BY <1>3 DEF ServerPower
    <2>2. srv' \in Powers /\ (Awake' = Awake \ {s} \/ Awake' = Awake \cup {s}) BY <2>1, PowersTyped
    <2> QED BY <1>2, <1>3, <2>2 DEF ServerPower
  <1>4. CASE ServerExits(s)
    <2>1. CASE srv' = Halted({s}) /\ Touch(s)
      <3>1. srv' \in Powers /\ Awake' = Awake \ {s} BY <2>1, PowersTyped
      <3> QED BY <1>2, <2>1, <3>1
    <2>2. CASE /\ srv' = [srv EXCEPT !.running = @ \ {s}, !.restarting = @ \cup {s}]
               /\ touched' = touched /\ s \in srv.running
      <3>1. srv' = [running |-> srv.running \ {s}, restarting |-> srv.restarting \cup {s}] BY <2>2 DEF Powers
      <3>2. srv' \in Powers /\ Awake' = Awake BY <1>1, <2>2, <3>1 DEF Powers, Awake
      <3> QED BY <2>2, <3>2
    <2> QED BY <1>4, <2>1, <2>2 DEF ServerExits
  <1>5. CASE RestartServer(s)
    <2>1. srv' = [running |-> srv.running \cup {s}, restarting |-> srv.restarting \ {s}] /\ s \in srv.restarting
      BY <1>5 DEF RestartServer
    <2>2. srv' \in Powers /\ Awake' = Awake BY <1>1, <2>1 DEF Powers, Awake
    <2> QED BY <1>5, <2>2 DEF RestartServer, history
  <1> QED BY <1>3, <1>4, <1>5 DEF ServerStep

\* A fault is counted, up to the bound.
LEMMA FaultTyped ==
  ASSUME faults \in FaultCounts, NEW k \in {"step", "write", "start", "crash"}, Fault(k)
  PROVE  faults' \in FaultCounts
  <1>1. faults.step \in Nat /\ faults.write \in Nat /\ faults.start \in Nat /\ faults.crash \in Nat BY DEF FaultCounts
  <1>2. faults[k] \in Nat BY <1>1
  <1>3. faults[k] + 1 \in 0 .. MaxFaults BY <1>1, <1>2, PanelUpdateAssumption DEF Fault
  <1> QED BY <1>3 DEF Fault, FaultCounts

\* A snapshot directory that does not exist, or is new, is one.
LEMMA NoSnapshotTyped ==
  /\ NoSnapshot \in Snapshot /\ NoSnapshot.there = FALSE /\ NoSnapshot.whole = FALSE
  /\ Earlier \in Snapshot /\ Earlier.there = TRUE /\ Earlier.whole = TRUE
  /\ Earlier.files = "old" /\ Earlier.db = "old" /\ Earlier.live = {}
  BY DEF NoSnapshot, Earlier, Snapshot, Version

\* A helper deletes its partial snapshot, or leaves it.
LEMMA DiscardTyped ==
  ASSUME snap \in SnapshotDirs, NEW r \in Requests, Discard(r)
  PROVE  /\ snap' \in SnapshotDirs
         /\ snap'.current = snap.current /\ snap'.previous = snap.previous
         /\ \A o \in Requests \ {r} : snap'.partial[o] = snap.partial[o]
  <1>1. CASE snap' = snap BY <1>1
  <1>2. CASE snap' = [snap EXCEPT !.partial[r] = NoSnapshot]
    <2>1. NoSnapshot \in Snapshot BY NoSnapshotTyped
    <2> QED BY <1>2, <2>1 DEF SnapshotDirs
  <1> QED BY <1>1, <1>2 DEF Discard

\* Compose's containers, the requests it interrupts and the containers a helper starts again.
LEMMA DockerTyped ==
  ASSUME OthersTyped
  PROVE  /\ \A cs \in SUBSET Services, v \in {"old", "new"} : Recreated(cs, v) \in Containers
         /\ \A cs : Interrupted(cs) \in [Requests -> RequestSteps]
         /\ \A r \in Requests : Resume(r) => svc' \in Containers /\ srv' \in Powers /\ faults' \in FaultCounts
  <1>1. svc \in Containers /\ req \in [Requests -> RequestSteps] /\ srv \in Powers /\ faults \in FaultCounts
    BY DEF OthersTyped
  <1>2. \A cs \in SUBSET Services, v \in {"old", "new"} : Recreated(cs, v) \in Containers
    BY <1>1 DEF Recreated, Containers
  <1>3. \A cs : Interrupted(cs) \in [Requests -> RequestSteps] BY <1>1 DEF Interrupted, RequestSteps
  <1>4. ASSUME NEW r \in Requests, Resume(r)
        PROVE  svc' \in Containers /\ srv' \in Powers /\ faults' \in FaultCounts
    <2>1. faults' \in FaultCounts BY <1>1, <1>4, FaultTyped DEF Resume
    <2>2. svc' \in Containers BY <1>1, <1>4 DEF Resume, Containers
    <2>3. \E cs \in SUBSET Servers : srv' = Started(cs) BY <1>4 DEF Resume
    <2>4. srv' \in Powers BY <1>1, <2>3, PowersTyped
    <2> QED BY <2>1, <2>2, <2>4
  <1> QED BY <1>2, <1>3, <1>4
\* A helper's step keeps what is not its own, or a snapshot, well typed.
LEMMA HelperOthers ==
  ASSUME OthersTyped, snap \in SnapshotDirs, NEW r \in Requests, HelperStep(r)
  PROVE  OthersTyped'
  <1>1. /\ status \in Status /\ req \in [Requests -> RequestSteps] /\ files \in Version /\ db \in Version
        /\ svc \in Containers /\ srv \in Powers /\ touched \subseteq Servers
        /\ odd \subseteq {"overlap", "looping", "unrestored"} /\ faults \in FaultCounts
    BY DEF OthersTyped
  <1>2. \A k \in {"step", "write", "start", "crash"} : Fault(k) => faults' \in FaultCounts BY <1>1, FaultTyped
  <1>3. /\ \A cs \in SUBSET Services, v \in {"old", "new"} : Recreated(cs, v) \in Containers
        /\ \A cs : Interrupted(cs) \in [Requests -> RequestSteps]
        /\ Resume(r) => svc' \in Containers /\ srv' \in Powers /\ faults' \in FaultCounts
    BY DockerTyped
  <1>4. [state |-> "running", tells |-> "nothing"] \in Status BY DEF Status
  <1>5. /\ "mixed" \in Version
        /\ \A w : Beside(snap.current.files, w) \subseteq Version /\ Beside(snap.current.db, w) \subseteq Version
    BY DEF SnapshotDirs, Snapshot, Version, Beside
  <1> USE DEF OthersTyped, disk, docker, history
  <1>7. CASE downloadAndVerify(r) \/ extractRelease(r)
    BY <1>1, <1>2, <1>3, <1>4, <1>7 DEF downloadAndVerify, extractRelease, writeStatus
  <1>8. CASE ListWorkloads(r)
    <2>1. srv.restarting \subseteq Servers BY <1>1 DEF Powers
    <2> QED BY <1>1, <1>2, <1>8, <2>1 DEF ListWorkloads, StepFails
  <1>9. CASE stopWorkloads(r)
    BY <1>1, <1>2, <1>4, <1>9 DEF stopWorkloads, writeStatus
  <1>10. CASE ArchiveConfig(r) \/ saveImages(r) \/ archiveVolumes(r)
    BY <1>1, <1>2, <1>3, <1>4, <1>10 DEF ArchiveConfig, saveImages, archiveVolumes, StepFails
  <1>11. CASE dumpPostgres(r) \/ WriteManifest(r) \/ SetAside(r)
    BY <1>1, <1>2, <1>3, <1>4, <1>11 DEF dumpPostgres, WriteManifest, SetAside, StepFails
  <1>12. CASE Promote(r) \/ UndoAside(r) \/ DropPrevious(r)
    BY <1>1, <1>2, <1>3, <1>4, <1>12 DEF Promote, UndoAside, DropPrevious
  <1>13. CASE BeginApply(r)
    BY <1>1, <1>2, <1>3, <1>4, <1>13 DEF BeginApply, writeStatus
  <1>14. CASE CopyFiles(r)
    BY <1>1, <1>2, <1>3, <1>4, <1>14 DEF CopyFiles, Version
  <1>15. CASE VerifyCore(r)
    BY <1>1, <1>2, <1>3, <1>4, <1>15 DEF VerifyCore, writeStatus
  <1>16. CASE startUpdatedWorker(r)
    BY <1>1, <1>2, <1>3, <1>4, <1>16 DEF startUpdatedWorker, Services
  <1>17. CASE VerifyAll(r)
    BY <1>1, <1>2, <1>3, <1>4, <1>17 DEF VerifyAll
  <1>18. CASE Succeed(r)
    BY <1>1, <1>2, <1>3, <1>4, <1>18 DEF Succeed, Status
  <1>19. CASE HandleFailure(r) \/ loadSnapshotImages(r)
    BY <1>1, <1>2, <1>3, <1>4, <1>19 DEF HandleFailure, loadSnapshotImages, RollbackFails
  <1>20. CASE VerifyPrior(r) \/ ResumeStopped(r)
    BY <1>1, <1>2, <1>3, <1>4, <1>20 DEF VerifyPrior, ResumeStopped
  <1>21. CASE RecordFailure(r)
    BY <1>1, <1>2, <1>3, <1>4, <1>21 DEF RecordFailure, Tells, Status
  <1>22. ASSUME NEW c \in Servers \cup Writers, StopNext(r, c) PROVE OthersTyped'
    <2>1. svc' \in Containers BY <1>1, <1>22 DEF StopNext, Stop, Containers
    <2>2. srv' = srv \/ srv' = Halted({c}) BY <1>22 DEF StopNext, Stop
    <2>3. srv' \in Powers BY <1>1, <2>2, PowersTyped
    <2> QED BY <1>1, <1>2, <1>22, <2>1, <2>3 DEF StopNext, StepFails
  <1>23. CASE ComposeUp(r)
    <2>1. svc' \in Containers /\ req' \in [Requests -> RequestSteps]
      <3>1. \A cs \in SUBSET {"app", "engine"} : cs \in SUBSET Services BY DEF Services
      <3> QED BY <1>3, <1>23, <3>1 DEF ComposeUp
    <2>2. status' \in Status /\ faults' \in FaultCounts BY <1>1, <1>2, <1>4, <1>23 DEF ComposeUp, writeStatus
    <2> QED BY <1>1, <1>23, <2>1, <2>2 DEF ComposeUp
  <1>24. CASE stopCurrentPanelWriters(r)
    <2>1. svc' \in Containers BY <1>1, <1>24 DEF stopCurrentPanelWriters, Containers
    <2>2. odd' \subseteq {"overlap", "looping", "unrestored"} BY <1>1, <1>24 DEF stopCurrentPanelWriters
    <2>3. faults' \in FaultCounts BY <1>1, <1>2, <1>24 DEF stopCurrentPanelWriters, RollbackFails
    <2> QED BY <1>1, <1>24, <2>1, <2>2, <2>3 DEF stopCurrentPanelWriters
  <1>25. CASE RestoreConfig(r) \/ restorePostgres(r)
    BY <1>1, <1>2, <1>5, <1>25 DEF RestoreConfig, restorePostgres, RollbackFails
  <1>26. CASE RecreatePrior(r)
    <2>1. EnvironmentVersion \in {"old", "new"} BY DEF EnvironmentVersion
    <2>2. svc' \in Containers /\ req' \in [Requests -> RequestSteps] BY <1>3, <1>26, <2>1 DEF RecreatePrior
    <2>3. faults' \in FaultCounts BY <1>1, <1>2, <1>26 DEF RecreatePrior, RollbackFails
    <2> QED BY <1>1, <1>26, <2>2, <2>3 DEF RecreatePrior
  <1> QED
    BY <1>7, <1>8, <1>9, <1>10, <1>11, <1>12, <1>13, <1>14, <1>15, <1>16, <1>17, <1>18, <1>19, <1>20, <1>21, <1>22, <1>23, <1>24, <1>25, <1>26
    DEF HelperStep
-----------------------------------------------------------------------------
(* What helpers do to the snapshot directories.                            *)

OnlyPartial(r) ==
  /\ snap'.current = snap.current /\ snap'.previous = snap.previous
  /\ \A o \in Requests \ {r} : snap'.partial[o] = snap.partial[o]

\* The snapshot is taken, piece by piece.
Fills(r) ==
  LET old == snap.partial[r]  new == snap'.partial[r] IN
  \/ /\ hp[r].pc = "config" /\ hp'[r].pc = "saveImages"
     /\ new.there = TRUE /\ new.files = files /\ new.live = Live
  \/ /\ hp[r].pc = "volumes" /\ hp'[r].pc = "dump"
     /\ new.there = old.there /\ new.files = old.files /\ new.live = old.live \cup Live
  \/ /\ hp[r].pc = "dump" /\ hp'[r].pc = "manifest"
     /\ new.there = old.there /\ new.files = old.files /\ new.db = db /\ new.live = old.live \cup Live
  \/ /\ hp[r].pc = "manifest" /\ hp'[r].pc = "setAside"
     /\ new.there = old.there /\ new.files = old.files /\ new.db = old.db /\ new.live = old.live
     /\ new.whole = TRUE

MovesAside(r) ==
  /\ hp[r].pc = "setAside" /\ hp'[r].pc = "promote" /\ snap.current.there
  /\ snap'.current = NoSnapshot /\ snap'.partial = snap.partial
  /\ snap'.previous = [snap.previous EXCEPT ![r] = snap.current]

TakesPlace(r) ==
  /\ hp[r].pc = "promote" /\ hp'[r].pc = "drop" /\ ~snap.current.there
  /\ snap'.current = snap.partial[r] /\ snap'.previous = snap.previous
  /\ \A o \in Requests \ {r} : snap'.partial[o] = snap.partial[o]

MovesBack(r) ==
  /\ hp[r].pc = "undo" /\ hp'[r].pc = "fail" /\ ~snap.current.there /\ snap.previous[r].there
  /\ snap'.current = snap.previous[r]
  /\ snap'.previous = [snap.previous EXCEPT ![r] = NoSnapshot]
  /\ \A o \in Requests \ {r} : snap'.partial[o] = snap.partial[o]

Drops(r) ==
  /\ hp[r].pc = "drop" /\ hp'[r].pc = "apply"
  /\ snap'.current = snap.current /\ snap'.partial = snap.partial
  /\ \A o \in Requests \ {r} : snap'.previous[o] = snap.previous[o]
  /\ snap'.previous[r].whole = FALSE

\* Nothing happens to them, and this is no step at which something does.
LeavesDirs(r) ==
  /\ snap' = snap
  /\ hp[r].pc \notin {"config", "volumes", "dump", "manifest", "undo", "drop"} /\ hp'[r].pc # "drop"
  /\ hp'[r].pc = "promote" => ~snap.current.there

\* The helper fails, and has discarded its partial snapshot if it had one.
Discards(r) == hp'[r].pc = "fail" /\ OnlyPartial(r)

\* The snapshot directories are written to and renamed by the steps that take a snapshot.
LEMMA SnapshotFills ==
  ASSUME snap \in SnapshotDirs, hp \in [Requests -> Helper], files \in Version, db \in Version, srv \in Powers,
         NEW r \in Requests,
         ArchiveConfig(r) \/ archiveVolumes(r) \/ dumpPostgres(r) \/ WriteManifest(r)
  PROVE  snap' \in SnapshotDirs /\ (Discards(r) \/ (OnlyPartial(r) /\ Fills(r)))
  <1>1. /\ snap.partial \in [Requests -> Snapshot] /\ snap.partial[r] \in Snapshot
        /\ Live \in SUBSET (Servers \cup Writers)
    BY PowersTyped DEF SnapshotDirs, Live
  <1> DEFINE Sets(x) == /\ snap' \in SnapshotDirs /\ OnlyPartial(r) /\ snap'.partial[r] = x
  <1>2. ASSUME NEW x \in Snapshot, snap' = [snap EXCEPT !.partial[r] = x] PROVE Sets(x)
    BY <1>2 DEF OnlyPartial, SnapshotDirs
  <1>3. CASE Fails(r)
    <2>1. hp'[r].pc = "fail" BY <1>3, GotoMoves DEF Fails, Pcs
    <2> QED BY <1>3, <2>1, DiscardTyped DEF Fails, Discards, OnlyPartial
  <1>4. CASE ArchiveConfig(r) /\ ~Fails(r)
    <2> DEFINE x == [NoSnapshot EXCEPT !.there = TRUE, !.files = files, !.live = Live]
    <2>1. x \in Snapshot /\ x.there = TRUE /\ x.files = files /\ x.live = Live BY <1>1 DEF Snapshot, NoSnapshot, Version
    <2>2. snap' = [snap EXCEPT !.partial[r] = x] /\ Goto(r, "saveImages") /\ hp[r].pc = "config"
      BY <1>4 DEF ArchiveConfig, StepFails, At
    <2>3. hp'[r].pc = "saveImages" BY <2>2, GotoMoves DEF Pcs
    <2> HIDE DEF x
    <2>4. Sets(x) BY <1>2, <2>1, <2>2
    <2> QED BY <2>1, <2>2, <2>3, <2>4 DEF Fills
  <1>5. CASE archiveVolumes(r) /\ ~Fails(r)
    <2> DEFINE x == [snap.partial[r] EXCEPT !.live = snap.partial[r].live \cup Live]
    <2>1. /\ x \in Snapshot /\ x.there = snap.partial[r].there /\ x.files = snap.partial[r].files
          /\ x.live = snap.partial[r].live \cup Live
      BY <1>1 DEF Snapshot
    <2>2. snap' = [snap EXCEPT !.partial[r] = x] /\ Goto(r, "dump") /\ hp[r].pc = "volumes"
      BY <1>5 DEF archiveVolumes, StepFails, At
    <2>3. hp'[r].pc = "dump" BY <2>2, GotoMoves DEF Pcs
    <2> HIDE DEF x
    <2>4. Sets(x) BY <1>2, <2>1, <2>2
    <2> QED BY <2>1, <2>2, <2>3, <2>4 DEF Fills
  <1>6. CASE dumpPostgres(r) /\ ~Fails(r)
    <2> DEFINE x == [snap.partial[r] EXCEPT !.db = db, !.live = snap.partial[r].live \cup Live]
    <2>1. /\ x \in Snapshot /\ x.there = snap.partial[r].there /\ x.files = snap.partial[r].files
          /\ x.db = db /\ x.live = snap.partial[r].live \cup Live
      BY <1>1 DEF Snapshot
    <2>2. snap' = [snap EXCEPT !.partial[r] = x] /\ Goto(r, "manifest") /\ hp[r].pc = "dump"
      <3>1. snap' = [snap EXCEPT !.partial[r].db = db, !.partial[r].live = @ \cup Live]
        BY <1>6 DEF dumpPostgres, StepFails
      <3>2. snap' = [snap EXCEPT !.partial[r] = x] BY <1>1, <3>1 DEF SnapshotDirs, Snapshot
      <3> QED BY <1>6, <3>2 DEF dumpPostgres, StepFails, At
    <2>3. hp'[r].pc = "manifest" BY <2>2, GotoMoves DEF Pcs
    <2> HIDE DEF x
    <2>4. Sets(x) BY <1>2, <2>1, <2>2
    <2> QED BY <2>1, <2>2, <2>3, <2>4 DEF Fills
  <1>7. CASE WriteManifest(r) /\ ~Fails(r)
    <2> DEFINE x == [snap.partial[r] EXCEPT !.whole = TRUE]
    <2>1. /\ x \in Snapshot /\ x.there = snap.partial[r].there /\ x.files = snap.partial[r].files
          /\ x.db = snap.partial[r].db /\ x.live = snap.partial[r].live /\ x.whole = TRUE
      BY <1>1 DEF Snapshot
    <2>2. snap' = [snap EXCEPT !.partial[r] = x] /\ Goto(r, "setAside") /\ hp[r].pc = "manifest"
      BY <1>7 DEF WriteManifest, StepFails, At
    <2>3. hp'[r].pc = "setAside" BY <2>2, GotoMoves DEF Pcs
    <2> HIDE DEF x
    <2>4. Sets(x) BY <1>2, <2>1, <2>2
    <2> QED BY <2>1, <2>2, <2>3, <2>4 DEF Fills
  <1> QED BY <1>3, <1>4, <1>5, <1>6, <1>7
\* The renames of finalizeSnapshot.
LEMMA SnapshotRenames ==
  ASSUME snap \in SnapshotDirs, hp \in [Requests -> Helper], NEW r \in Requests,
         SetAside(r) \/ Promote(r) \/ UndoAside(r) \/ DropPrevious(r)
  PROVE  /\ snap' \in SnapshotDirs
         /\ \/ Discards(r) \/ LeavesDirs(r) \/ MovesAside(r) \/ TakesPlace(r) \/ MovesBack(r) \/ Drops(r)
  <1>1. /\ snap.partial \in [Requests -> Snapshot] /\ snap.previous \in [Requests -> Snapshot]
        /\ snap.current \in Snapshot /\ NoSnapshot \in Snapshot
    BY NoSnapshotTyped DEF SnapshotDirs
  <1>2. \A q \in Pcs : Goto(r, q) => hp'[r].pc = q BY GotoMoves
  <1>3. {"promote", "undo", "drop", "fail"} \subseteq Pcs BY DEF Pcs
  <1>4. CASE Fails(r)
    <2>1. hp'[r].pc = "fail" BY <1>2, <1>3, <1>4 DEF Fails
    <2> QED BY <1>4, <2>1, DiscardTyped DEF Fails, Discards, OnlyPartial
  <1>5. CASE SetAside(r) /\ ~Fails(r)
    <2>1. hp[r].pc = "setAside" /\ hp'[r].pc = "promote" BY <1>2, <1>3, <1>5 DEF SetAside, StepFails, At
    <2>2. CASE ~snap.current.there
      <3>1. snap' = snap BY <1>5, <2>2 DEF SetAside, StepFails
      <3> QED BY <2>1, <2>2, <3>1 DEF LeavesDirs
    <2>3. CASE snap.current.there
      <3>1. snap' = [snap EXCEPT !.previous[r] = snap.current, !.current = NoSnapshot]
        BY <1>5, <2>3 DEF SetAside, StepFails
      <3>2. /\ snap' \in SnapshotDirs /\ snap'.current = NoSnapshot /\ snap'.partial = snap.partial
            /\ snap'.previous = [snap.previous EXCEPT ![r] = snap.current]
        BY <1>1, <3>1 DEF SnapshotDirs
      <3> QED BY <2>1, <2>3, <3>2 DEF MovesAside
    <2> QED BY <2>2, <2>3
  <1>6. CASE Promote(r)
    <2>1. hp[r].pc = "promote" BY <1>6 DEF Promote, At
    <2>2. CASE snap' = snap /\ Goto(r, "undo") BY <1>2, <1>3, <2>1, <2>2 DEF LeavesDirs
    <2>3. CASE ~(snap' = snap /\ Goto(r, "undo"))
      <3>1. /\ ~snap.current.there /\ Goto(r, "drop")
            /\ snap' = [snap EXCEPT !.current = snap.partial[r], !.partial[r] = NoSnapshot]
        BY <1>6, <2>3 DEF Promote
      <3>2. /\ snap' \in SnapshotDirs /\ snap'.current = snap.partial[r] /\ snap'.previous = snap.previous
            /\ \A o \in Requests \ {r} : snap'.partial[o] = snap.partial[o]
        BY <1>1, <3>1 DEF SnapshotDirs
      <3> QED BY <1>2, <1>3, <2>1, <3>1, <3>2 DEF TakesPlace
    <2> QED BY <2>2, <2>3
  <1>7. CASE UndoAside(r)
    <2>1. hp[r].pc = "undo" /\ hp'[r].pc = "fail" BY <1>2, <1>3, <1>7 DEF UndoAside, At
    <2>2. CASE Discard(r) BY <2>1, <2>2, DiscardTyped DEF Discards, OnlyPartial
    <2>3. CASE ~Discard(r) /\ snap.previous[r].there /\ ~snap.current.there
      <3>1. snap' = [[snap EXCEPT !.current = snap.previous[r], !.previous[r] = NoSnapshot]
                       EXCEPT !.partial[r] = NoSnapshot]
        BY <1>7, <2>3 DEF UndoAside
      <3>2. /\ snap' \in SnapshotDirs /\ snap'.current = snap.previous[r]
            /\ snap'.previous = [snap.previous EXCEPT ![r] = NoSnapshot]
            /\ \A o \in Requests \ {r} : snap'.partial[o] = snap.partial[o]
        BY <1>1, <3>1 DEF SnapshotDirs
      <3> QED BY <2>1, <2>3, <3>2 DEF MovesBack
    <2>4. CASE ~Discard(r) /\ ~(snap.previous[r].there /\ ~snap.current.there)
      <3>1. snap' = [snap EXCEPT !.partial[r] = NoSnapshot] BY <1>7, <2>4 DEF UndoAside
      <3>2. snap' \in SnapshotDirs /\ OnlyPartial(r) BY <1>1, <3>1 DEF SnapshotDirs, OnlyPartial
      <3> QED BY <2>1, <3>2 DEF Discards
    <2> QED BY <2>2, <2>3, <2>4
  <1>8. CASE DropPrevious(r)
    <2>1. hp[r].pc = "drop" /\ hp'[r].pc = "apply"
      BY <1>8 DEF DropPrevious, At, Helper
    <2>2. CASE snap' = [snap EXCEPT !.previous[r] = NoSnapshot]
      <3>1. /\ snap' \in SnapshotDirs /\ snap'.current = snap.current /\ snap'.partial = snap.partial
            /\ \A o \in Requests \ {r} : snap'.previous[o] = snap.previous[o]
            /\ snap'.previous[r] = NoSnapshot
        BY <1>1, <2>2 DEF SnapshotDirs
      <3> QED BY <2>1, <3>1, NoSnapshotTyped DEF Drops
    <2>3. CASE snap' = [snap EXCEPT !.previous[r].whole = FALSE]
      <3>1. /\ snap' \in SnapshotDirs /\ snap'.current = snap.current /\ snap'.partial = snap.partial
            /\ \A o \in Requests \ {r} : snap'.previous[o] = snap.previous[o]
            /\ snap'.previous[r].whole = FALSE
        BY <1>1, <2>3 DEF SnapshotDirs, Snapshot
      <3> QED BY <2>1, <3>1 DEF Drops
    <2> QED BY <1>8, <2>2, <2>3 DEF DropPrevious
  <1> QED BY <1>4, <1>5, <1>6, <1>7, <1>8

\* Every step of a helper does one of these to the snapshot directories.
DirsMove(r) ==
  \/ LeavesDirs(r) \/ Discards(r) \/ (OnlyPartial(r) /\ Fills(r))
  \/ MovesAside(r) \/ TakesPlace(r) \/ MovesBack(r) \/ Drops(r)

\* The steps that take no snapshot leave the directories alone, or discard a partial one.
LEMMA SnapshotMoves ==
  ASSUME TypeOK, NEW r \in Requests, HelperStep(r)
  PROVE  snap' \in SnapshotDirs /\ DirsMove(r)
  <1>1. hp \in [Requests -> Helper] /\ snap \in SnapshotDirs /\ OthersTyped BY TypeParts
  <1>2. CASE ArchiveConfig(r) \/ archiveVolumes(r) \/ dumpPostgres(r) \/ WriteManifest(r)
    BY <1>1, <1>2, SnapshotFills DEF DirsMove, OthersTyped
  <1>3. CASE SetAside(r) \/ Promote(r) \/ UndoAside(r) \/ DropPrevious(r)
    BY <1>1, <1>3, SnapshotRenames DEF DirsMove
  <1>4. CASE Fails(r)
    <2>1. hp'[r].pc = "fail" BY <1>1, <1>4, GotoMoves DEF Fails, Pcs
    <2> QED BY <1>1, <1>4, <2>1, DiscardTyped DEF Fails, Discards, OnlyPartial, DirsMove
  <1>5. ASSUME snap' = snap, hp[r].pc \notin {"config", "volumes", "dump", "manifest", "undo", "drop", "setAside", "promote"}
        PROVE  snap' \in SnapshotDirs /\ DirsMove(r)
    <2>1. Moves(r) BY HelperMoves
    <2>2. hp'[r].pc \notin {"promote", "drop"} BY <1>5, <2>1 DEF Moves, Edge, RollingBack
    <2> QED BY <1>1, <1>5, <2>2 DEF LeavesDirs, DirsMove
  <1>6. CASE downloadAndVerify(r) \/ extractRelease(r) \/ ListWorkloads(r) \/ stopWorkloads(r) \/ saveImages(r)
    BY <1>4, <1>5, <1>6
       DEF downloadAndVerify, extractRelease, ListWorkloads, stopWorkloads, saveImages, writeStatus, StepFails, At, disk
  <1>7. ASSUME NEW c \in Servers \cup Writers, StopNext(r, c) PROVE snap' \in SnapshotDirs /\ DirsMove(r)
    BY <1>4, <1>5, <1>7 DEF StopNext, StepFails, At, disk
  <1>8. CASE BeginApply(r) \/ CopyFiles(r) \/ ComposeUp(r) \/ VerifyCore(r) \/ startUpdatedWorker(r)
    BY <1>4, <1>5, <1>8
       DEF BeginApply, CopyFiles, ComposeUp, VerifyCore, startUpdatedWorker, writeStatus, At, disk
  <1>9. CASE VerifyAll(r) \/ Succeed(r) \/ HandleFailure(r) \/ stopCurrentPanelWriters(r) \/ loadSnapshotImages(r)
    BY <1>5, <1>9
       DEF VerifyAll, Succeed, HandleFailure, stopCurrentPanelWriters, loadSnapshotImages, At, disk
  <1>10. CASE RestoreConfig(r) \/ restorePostgres(r) \/ RecreatePrior(r) \/ VerifyPrior(r)
    BY <1>5, <1>10 DEF RestoreConfig, restorePostgres, RecreatePrior, VerifyPrior, At, disk
  <1>11. CASE ResumeStopped(r) \/ RecordFailure(r)
    BY <1>5, <1>11 DEF ResumeStopped, RecordFailure, At, disk
  <1> QED BY <1>2, <1>3, <1>6, <1>7, <1>8, <1>9, <1>10, <1>11 DEF HelperStep
\* A helper interrupts requests, and makes none.
LEMMA RequestsEnd ==
  ASSUME TypeOK, NEW r \in Requests, HelperStep(r), NEW o \in Requests
  PROVE  req'[o] = req[o] \/ (req'[o] = "done" /\ req[o] # "idle")
  <1>1. CASE req' = req BY <1>1
  <1>2. ASSUME NEW cs, req' = Interrupted(cs) PROVE req'[o] = req[o] \/ (req'[o] = "done" /\ req[o] # "idle")
    BY <1>2 DEF Interrupted
  <1>3. CASE ComposeUp(r) BY <1>2, <1>3 DEF ComposeUp
  <1>4. CASE RecreatePrior(r) BY <1>2, <1>4 DEF RecreatePrior
  <1>5. CASE \/ downloadAndVerify(r) \/ extractRelease(r) \/ ListWorkloads(r)
             \/ (\E c \in Servers \cup Writers : StopNext(r, c)) \/ stopWorkloads(r)
             \/ ArchiveConfig(r) \/ saveImages(r) \/ archiveVolumes(r) \/ dumpPostgres(r) \/ WriteManifest(r)
             \/ SetAside(r) \/ Promote(r) \/ UndoAside(r) \/ DropPrevious(r)
    BY <1>1, <1>5 DEF downloadAndVerify, extractRelease, ListWorkloads, StopNext, stopWorkloads, ArchiveConfig,
         saveImages, archiveVolumes, dumpPostgres, WriteManifest, SetAside, Promote, UndoAside, DropPrevious
  <1>6. CASE \/ BeginApply(r) \/ CopyFiles(r) \/ VerifyCore(r) \/ startUpdatedWorker(r) \/ VerifyAll(r) \/ Succeed(r)
             \/ HandleFailure(r) \/ stopCurrentPanelWriters(r) \/ loadSnapshotImages(r)
             \/ RestoreConfig(r) \/ restorePostgres(r) \/ VerifyPrior(r) \/ ResumeStopped(r) \/ RecordFailure(r)
    BY <1>1, <1>6 DEF BeginApply, CopyFiles, VerifyCore, startUpdatedWorker, VerifyAll, Succeed, HandleFailure,
         stopCurrentPanelWriters, loadSnapshotImages, RestoreConfig, restorePostgres, VerifyPrior, ResumeStopped,
         RecordFailure
  <1> QED BY <1>3, <1>4, <1>5, <1>6 DEF HelperStep

\* What a helper writes to status.json: the phase it is in, and how it ended.
StatusMove(r) ==
  \/ status' = status /\ ~(hp[r].pc = "finish" /\ hp'[r].pc = "ended")
  \/ status' = [state |-> "running", tells |-> "nothing"] /\ hp[r].pc \notin {"finish", "record"}
  \/ status' = [state |-> "succeeded", tells |-> "nothing"] /\ hp[r].pc = "finish" /\ hp'[r].pc = "ended"
  \/ status' = [state |-> "failed", tells |-> Tells(r)] /\ hp[r].pc = "record" /\ hp'[r].pc = "ended"

\* Every step of a helper leaves the status or writes one of these.
LEMMA StatusMoves ==
  ASSUME TypeOK, NEW r \in Requests, HelperStep(r)
  PROVE  StatusMove(r)
  <1>1. hp \in [Requests -> Helper] BY DEF TypeOK
  <1>2. CASE Succeed(r)
    <2>1. CASE Exit(r, "ended")
      <3>1. hp'[r].pc = "ended" BY <1>1, <2>1, ExitMoves
      <3>2. hp[r].pc = "finish" BY <1>2 DEF Succeed, At
      <3>3. CASE Fault("write") /\ Goto(r, "fail") /\ UNCHANGED status
        BY <1>1, <3>1, <3>3, GotoMoves DEF Pcs
      <3> QED BY <1>2, <3>1, <3>2, <3>3 DEF Succeed, StatusMove
    <2>2. CASE ~Exit(r, "ended")
      <3>1. Goto(r, "fail") /\ status' = status BY <1>2, <2>2 DEF Succeed
      <3>2. hp'[r].pc = "fail" BY <1>1, <3>1, GotoMoves DEF Pcs
      <3> QED BY <3>1, <3>2 DEF StatusMove
    <2> QED BY <2>1, <2>2
  <1>3. CASE RecordFailure(r)
    <2>1. hp'[r].pc = "ended" /\ hp[r].pc = "record" BY <1>1, <1>3, ExitMoves DEF RecordFailure, At
    <2> QED BY <1>3, <2>1 DEF RecordFailure, StatusMove
  <1> DEFINE Plain == \/ status' = status
                      \/ status' = [state |-> "running", tells |-> "nothing"]
  <1>4. ASSUME Plain, hp[r].pc \notin {"finish", "record"} PROVE StatusMove(r) BY <1>4 DEF StatusMove
  <1>5. CASE \/ downloadAndVerify(r) \/ extractRelease(r) \/ ListWorkloads(r)
             \/ (\E c \in Servers \cup Writers : StopNext(r, c)) \/ stopWorkloads(r)
             \/ ArchiveConfig(r) \/ saveImages(r) \/ archiveVolumes(r) \/ dumpPostgres(r) \/ WriteManifest(r)
    <2>1. Plain /\ hp[r].pc \notin {"finish", "record"}
      BY <1>5 DEF downloadAndVerify, extractRelease, ListWorkloads, StopNext, stopWorkloads, ArchiveConfig,
         saveImages, archiveVolumes, dumpPostgres, WriteManifest, writeStatus, StepFails, At
    <2> QED BY <1>4, <2>1
  <1>6. CASE \/ SetAside(r) \/ Promote(r) \/ UndoAside(r) \/ DropPrevious(r) \/ BeginApply(r) \/ CopyFiles(r)
             \/ ComposeUp(r) \/ VerifyCore(r) \/ startUpdatedWorker(r) \/ VerifyAll(r)
    <2>1. Plain /\ hp[r].pc \notin {"finish", "record"}
      BY <1>6 DEF SetAside, Promote, UndoAside, DropPrevious, BeginApply, CopyFiles, ComposeUp, VerifyCore,
         startUpdatedWorker, VerifyAll, writeStatus, StepFails, At
    <2> QED BY <1>4, <2>1
  <1>7. CASE \/ HandleFailure(r) \/ stopCurrentPanelWriters(r) \/ loadSnapshotImages(r)
             \/ RestoreConfig(r) \/ restorePostgres(r) \/ RecreatePrior(r) \/ VerifyPrior(r) \/ ResumeStopped(r)
    <2>1. Plain /\ hp[r].pc \notin {"finish", "record"}
      BY <1>7 DEF HandleFailure, stopCurrentPanelWriters, loadSnapshotImages, RestoreConfig, restorePostgres,
         RecreatePrior, VerifyPrior, ResumeStopped, At
    <2> QED BY <1>4, <2>1
  <1> HIDE DEF Plain
  <1> QED BY <1>2, <1>3, <1>5, <1>6, <1>7 DEF HelperStep

-----------------------------------------------------------------------------
(* The state is well typed.                                                *)

\* The initial state is.
LEMMA TypeInit == Init => TypeOK
  <1> SUFFICES ASSUME Init PROVE TypeOK OBVIOUS
  <1>1. hp \in [Requests -> Helper] BY HelperTyped DEF Init
  <1>2. snap \in SnapshotDirs BY NoSnapshotTyped DEF Init, SnapshotDirs
  <1>3. svc \in Containers BY DEF Init, Containers
  <1>4. status \in Status /\ req \in [Requests -> RequestSteps] /\ files \in Version /\ db \in Version
    BY DEF Init, Status, RequestSteps, Version
  <1>5. faults \in FaultCounts BY PanelUpdateAssumption DEF Init, FaultCounts
  <1>6. srv \in Powers /\ touched \subseteq Servers /\ odd \subseteq {"overlap", "looping", "unrestored"}
    BY DEF Init, Powers
  <1> QED BY <1>1, <1>2, <1>3, <1>4, <1>5, <1>6, TypeParts DEF OthersTyped

\* The requests, the host and the users keep it so.
LEMMA TypeOthers ==
  ASSUME TypeOK,
         \/ \E r \in Requests : ReadStatus(r) \/ RequestStep(r) \/ Crash(r)
         \/ \E c \in Services : Boot(c) \/ Restart(c)
         \/ \E s \in Servers : ServerStep(s)
  PROVE  TypeOK'
  <1>0. OthersTyped /\ hp \in [Requests -> Helper] /\ snap \in SnapshotDirs BY TypeParts
  <1> SUFFICES OthersTyped' /\ hp' \in [Requests -> Helper] /\ snap' \in SnapshotDirs
    BY DEF TypeOK, OthersTyped, SnapshotDirs, RequestSteps, Containers, Powers, FaultCounts
  <1>1. /\ status \in Status /\ req \in [Requests -> RequestSteps] /\ files \in Version /\ db \in Version
        /\ svc \in Containers /\ srv \in Powers /\ touched \subseteq Servers
        /\ odd \subseteq {"overlap", "looping", "unrestored"} /\ faults \in FaultCounts
    BY <1>0 DEF OthersTyped
  <1>2. \A k \in {"step", "write", "start", "crash"} : Fault(k) => faults' \in FaultCounts BY <1>1, FaultTyped
  <1>3. /\ [state |-> "running", tells |-> "nothing"] \in Status
        /\ [state |-> "queued", tells |-> "nothing"] \in Status
        /\ [state |-> "failed", tells |-> "notLaunched"] \in Status
    BY DEF Status
  <1>4. ASSUME NEW r \in Requests, ReadStatus(r) PROVE OthersTyped' /\ hp' \in [Requests -> Helper] /\ snap' \in SnapshotDirs
    BY <1>0, <1>1, <1>4 DEF ReadStatus, OthersTyped, RequestSteps, disk, docker, history
  <1>5. ASSUME NEW r \in Requests, WriteQueued(r) \/ WritePlan(r)
        PROVE  OthersTyped' /\ hp' \in [Requests -> Helper] /\ snap' \in SnapshotDirs
    BY <1>0, <1>1, <1>2, <1>3, <1>5 DEF WriteQueued, WritePlan, OthersTyped, RequestSteps, disk, docker, history
  <1>6. ASSUME NEW r \in Requests, CreateHelper(r)
        PROVE  OthersTyped' /\ hp' \in [Requests -> Helper] /\ snap' \in SnapshotDirs
    BY <1>0, <1>1, <1>2, <1>3, <1>6 DEF CreateHelper, markPanelUpdateLaunchFailed, OthersTyped, RequestSteps, disk,
       docker, history
  <1>7. ASSUME NEW r \in Requests, StartHelper(r)
        PROVE  OthersTyped' /\ hp' \in [Requests -> Helper] /\ snap' \in SnapshotDirs
    <2>1. hp' \in [Requests -> Helper]
      <3>1. CASE hp' = hp BY <1>0, <3>1
      <3>2. CASE Exit(r, "ended") BY <1>0, <3>2, ExitMoves
      <3>3. CASE hp' = [hp EXCEPT ![r].pc = "download"] BY <1>0, <3>3 DEF Helper
      <3> QED BY <1>7, <3>1, <3>2, <3>3 DEF StartHelper
    <2>2. OthersTyped'
      BY <1>0, <1>1, <1>2, <1>3, <1>7 DEF StartHelper, markPanelUpdateLaunchFailed, OthersTyped, RequestSteps, disk,
         docker, history
    <2> QED BY <1>0, <1>7, <2>1, <2>2 DEF StartHelper, disk
  <1>8. ASSUME NEW r \in Requests, Crash(r) PROVE OthersTyped' /\ hp' \in [Requests -> Helper] /\ snap' \in SnapshotDirs
    <2>1. hp' \in [Requests -> Helper] BY <1>0, <1>8, ExitMoves DEF Crash
    <2> QED BY <1>0, <1>1, <1>2, <1>8, <2>1 DEF Crash, OthersTyped, disk, docker, history
  <1>9. ASSUME NEW c \in Services, Boot(c) \/ Restart(c)
        PROVE  OthersTyped' /\ hp' \in [Requests -> Helper] /\ snap' \in SnapshotDirs
    <2>1. svc' \in Containers BY <1>1, <1>9 DEF Boot, Restart, Containers
    <2>2. db' \in Version BY <1>1, <1>9 DEF Boot, Restart, Migrated, Version, disk
    <2>3. faults' \in FaultCounts BY <1>1, <1>2, <1>9 DEF Boot, Restart
    <2> QED BY <1>0, <1>1, <1>9, <2>1, <2>2, <2>3 DEF Boot, Restart, OthersTyped, disk, history
  <1>10. ASSUME NEW s \in Servers, ServerStep(s)
         PROVE  OthersTyped' /\ hp' \in [Requests -> Helper] /\ snap' \in SnapshotDirs
    BY <1>0, <1>1, <1>10, ServerStepKeeps, ServerStepDoes DEF OthersTyped
  <1> QED BY <1>4, <1>5, <1>6, <1>7, <1>8, <1>9, <1>10 DEF RequestStep

\* Every step does.
LEMMA TypeStep == TypeOK /\ [Next]_vars => TypeOK'
  <1> SUFFICES ASSUME TypeOK, [Next]_vars PROVE TypeOK' OBVIOUS
  <1>1. CASE UNCHANGED vars BY <1>1 DEF vars, TypeOK
  <1>2. ASSUME NEW r \in Requests, HelperStep(r) PROVE TypeOK'
    <2>1. OthersTyped /\ snap \in SnapshotDirs BY TypeParts
    <2>2. OthersTyped' BY <1>2, <2>1, HelperOthers
    <2>3. hp' \in [Requests -> Helper] BY <1>2, HelperMoves
    <2>4. snap' \in SnapshotDirs BY <1>2, SnapshotMoves
    <2> QED BY <2>2, <2>3, <2>4 DEF TypeOK, OthersTyped, SnapshotDirs, RequestSteps, Containers, Powers, FaultCounts
  <1> QED BY <1>1, <1>2, TypeOthers DEF Next
-----------------------------------------------------------------------------
(* The snapshot directories.                                               *)

\* The invariant holds initially.
LEMMA SnapshotInit == Init => SnapshotInv
  <1> SUFFICES ASSUME Init PROVE SnapshotInv OBVIOUS
  <1>1. TypeOK BY TypeInit
  <1>2. \A r \in Requests : /\ hp[r] = NoHelper /\ hp[r].pc = "none" /\ hp[r].snapshotReady = FALSE
                            /\ snap.previous[r] = NoSnapshot
    BY HelperTyped DEF Init, Fresh
  <1>3. snap.current.there = snap.current.whole
    <2>1. snap.current \in {NoSnapshot, Earlier} BY DEF Init
    <2> QED BY <2>1, NoSnapshotTyped
  <1>4. status.tells = "nothing" BY DEF Init
  <1> QED BY <1>1, <1>2, <1>3, <1>4, NoSnapshotTyped
          DEF SnapshotInv, NotStarted, CurrentWhole, PartialWhole, AsideWhole, DropSafe, SnapshotKept, At, Filling, Filled

\* Whatever a helper does, a completed snapshot remains.
LEMMA HelperKeeps ==
  ASSUME SnapshotInv, NEW r \in Requests, HelperStep(r), HasSnapshot
  PROVE  HasSnapshot'
  <1>1. DirsMove(r) BY SnapshotMoves DEF SnapshotInv
  <1>2. snap.previous \in [Requests -> Snapshot] /\ snap.current \in Snapshot
    BY TypeParts DEF SnapshotInv, SnapshotDirs
  <1>3. CASE LeavesDirs(r) \/ Discards(r) \/ OnlyPartial(r)
    BY <1>3 DEF HasSnapshot, LeavesDirs, Discards, OnlyPartial
  <1>4. CASE MovesAside(r)
    <2>1. snap'.previous[r].whole BY <1>2, <1>4 DEF MovesAside, SnapshotInv, CurrentWhole
    <2> QED BY <2>1 DEF HasSnapshot
  <1>5. CASE TakesPlace(r)
    <2>1. snap'.current.whole BY <1>5 DEF TakesPlace, SnapshotInv, PartialWhole, Filled
    <2> QED BY <2>1 DEF HasSnapshot
  <1>6. CASE MovesBack(r)
    <2>1. snap'.current.whole BY <1>6 DEF MovesBack, SnapshotInv, AsideWhole, BeforeDrop
    <2> QED BY <2>1 DEF HasSnapshot
  <1>7. CASE Drops(r) BY <1>7 DEF Drops, HasSnapshot, SnapshotInv, DropSafe, At
  <1> QED BY <1>1, <1>3, <1>4, <1>5, <1>6, <1>7 DEF DirsMove

\* The steps of a helper preserve the invariant.
LEMMA SnapshotHelper ==
  ASSUME SnapshotInv, NEW r \in Requests, HelperStep(r)
  PROVE  SnapshotInv'
  <1> USE DEF SnapshotInv
  <1>1. TypeOK' BY TypeStep DEF Next
  <1>2. /\ hp' \in [Requests -> Helper] /\ \A o \in Requests \ {r} : hp'[o] = hp[o]
        /\ Moves(r)
    BY HelperMoves
  <1>3. snap' \in SnapshotDirs /\ DirsMove(r) BY SnapshotMoves
  <1>4. snap \in SnapshotDirs BY TypeParts
  <1>5. /\ snap.previous \in [Requests -> Snapshot] /\ snap.partial \in [Requests -> Snapshot]
        /\ snap.current \in Snapshot
        /\ snap'.previous \in [Requests -> Snapshot] /\ snap'.partial \in [Requests -> Snapshot]
    BY <1>3, <1>4 DEF SnapshotDirs
  <1>6. hp[r].pc \notin {"none", "ended", "killed"} /\ hp'[r].pc # "none"
    BY <1>2 DEF Moves, Edge, RollingBack, Installing
  <1>7. NotStarted'
    <2>1. hp[r] # NoHelper BY <1>6, HelperTyped
    <2>2. \A o \in Requests : req'[o] # "done" => req[o] # "done" BY RequestsEnd
    <2> QED BY <1>2, <2>1, <2>2 DEF NotStarted
  <1>8. CurrentWhole'
    <2>1. CASE LeavesDirs(r) \/ Discards(r) \/ OnlyPartial(r) \/ Drops(r)
      BY <2>1 DEF CurrentWhole, LeavesDirs, Discards, OnlyPartial, Drops
    <2>2. CASE MovesAside(r) BY <2>2, NoSnapshotTyped DEF CurrentWhole, MovesAside
    <2>3. CASE TakesPlace(r) BY <2>3 DEF CurrentWhole, TakesPlace, PartialWhole, Filled, Filling
    <2>4. CASE MovesBack(r) BY <2>4 DEF CurrentWhole, MovesBack, AsideWhole, BeforeDrop
    <2> QED BY <1>3, <2>1, <2>2, <2>3, <2>4 DEF DirsMove
  <1>9. PartialWhole'
    <2>1. \A o \in Requests \ {r} : snap'.partial[o] = snap.partial[o]
      BY <1>3 DEF DirsMove, LeavesDirs, Discards, OnlyPartial, MovesAside, TakesPlace, MovesBack, Drops
    <2>2. /\ hp'[r].pc \in Filling => snap'.partial[r].there = TRUE
          /\ hp'[r].pc \in Filled => snap'.partial[r].whole = TRUE
      <3>1. CASE LeavesDirs(r)
        <4>1. hp'[r].pc \in Filling => hp[r].pc \in Filling BY <1>2, <3>1 DEF LeavesDirs, Moves, Edge, Filling
        <4>2. hp'[r].pc \in Filled => hp[r].pc \in Filled BY <1>2, <3>1 DEF LeavesDirs, Moves, Edge, Filled
        <4> QED BY <3>1, <4>1, <4>2 DEF LeavesDirs, PartialWhole
      <3>2. CASE Discards(r) \/ TakesPlace(r) \/ MovesBack(r) \/ Drops(r)
        BY <3>2 DEF Discards, TakesPlace, MovesBack, Drops, Filling, Filled
      <3>3. CASE Fills(r) BY <3>3 DEF Fills, PartialWhole, Filling, Filled
      <3>4. CASE MovesAside(r) BY <3>4 DEF MovesAside, PartialWhole, Filling, Filled
      <3> QED BY <1>3, <3>1, <3>2, <3>3, <3>4 DEF DirsMove
    <2> QED BY <1>2, <2>1, <2>2 DEF PartialWhole
  <1>10. AsideWhole'
    <2>1. \A o \in Requests \ {r} : snap'.previous[o] = snap.previous[o]
      BY <1>3, <1>5 DEF DirsMove, LeavesDirs, Discards, OnlyPartial, MovesAside, TakesPlace, MovesBack, Drops
    <2>2. hp'[r].pc \in BeforeDrop => snap'.previous[r].there = snap'.previous[r].whole
      <3>1. CASE LeavesDirs(r) \/ OnlyPartial(r)
        <4>1. hp'[r].pc \in BeforeDrop => hp[r].pc \in BeforeDrop BY <1>2 DEF Moves, Edge, BeforeDrop, Filling
        <4> QED BY <3>1, <4>1 DEF LeavesDirs, OnlyPartial, AsideWhole
      <3>2. CASE Discards(r) \/ TakesPlace(r) \/ MovesBack(r) \/ Drops(r)
        BY <3>2 DEF Discards, TakesPlace, MovesBack, Drops, BeforeDrop, Filling
      <3>3. CASE MovesAside(r) BY <1>5, <3>3 DEF MovesAside, CurrentWhole
      <3> QED BY <1>3, <3>1, <3>2, <3>3 DEF DirsMove
    <2> QED BY <1>2, <2>1, <2>2 DEF AsideWhole
  <1>11. DropSafe'
    <2>1. CASE TakesPlace(r) BY <2>1 DEF TakesPlace, PartialWhole, Filled, DropSafe
    <2>2. CASE MovesAside(r)
      <3>1. snap'.previous[r].whole = TRUE /\ hp'[r].pc # "drop"
        BY <1>5, <2>2 DEF MovesAside, CurrentWhole, Snapshot
      <3> QED BY <3>1 DEF DropSafe, At
    <2>3. CASE MovesBack(r)
      <3>1. snap'.current.whole = TRUE BY <1>5, <2>3 DEF MovesBack, AsideWhole, BeforeDrop, Snapshot
      <3> QED BY <3>1 DEF DropSafe
    <2>4. CASE LeavesDirs(r) \/ Discards(r) \/ (OnlyPartial(r) /\ Fills(r))
      <3>1. snap'.current = snap.current /\ snap'.previous = snap.previous
        BY <2>4 DEF LeavesDirs, Discards, OnlyPartial
      <3>2. hp'[r].pc # "drop" BY <2>4 DEF LeavesDirs, Discards, Fills
      <3>3. \A q \in Requests : At(q, "drop")' => At(q, "drop") BY <1>2, <3>2 DEF At
      <3> QED BY <3>1, <3>3 DEF DropSafe
    <2>5. CASE Drops(r)
      <3>1. snap'.current = snap.current /\ \A o \in Requests \ {r} : snap'.previous[o] = snap.previous[o]
        BY <2>5 DEF Drops
      <3>2. \A q \in Requests : At(q, "drop")' => At(q, "drop") BY <1>2, <2>5 DEF At, Drops
      <3>3. At(r, "drop") BY <2>5 DEF Drops, At
      <3> QED BY <3>1, <3>2, <3>3 DEF DropSafe
    <2> QED BY <1>3, <2>1, <2>2, <2>3, <2>4, <2>5 DEF DirsMove
  <1>12. SnapshotKept'
    <2>1. HasSnapshot => HasSnapshot' BY HelperKeeps
    <2>2. CASE Drops(r)
      <3>1. HasSnapshot BY <2>2 DEF Drops, DropSafe, HasSnapshot, At
      <3> QED BY <2>1, <3>1 DEF SnapshotKept
    <2>3. CASE ~Drops(r)
      <3>1. hp[r].pc # "drop" \/ hp'[r].pc # "apply"
        BY <1>3, <2>3 DEF DirsMove, LeavesDirs, Discards, Fills, MovesAside, TakesPlace, MovesBack
      <3>2. \A o \in Requests : hp'[o].snapshotReady => hp[o].snapshotReady
        <4>1. hp'[r].snapshotReady => hp[r].snapshotReady BY <1>2, <3>1 DEF Moves, SameMemory, Fresh
        <4> QED BY <1>2, <4>1
      <3>3. StatusMove(r) BY StatusMoves
      <3>4. status'.tells = "snapshotKept" => status.tells = "snapshotKept" \/ hp[r].snapshotReady
        BY <3>3 DEF StatusMove, Tells
      <3> QED BY <2>1, <3>2, <3>4 DEF SnapshotKept
    <2> QED BY <2>2, <2>3
  <1> QED BY <1>1, <1>7, <1>8, <1>9, <1>10, <1>11, <1>12

\* A helper starts or dies, or a request is handled: the directories stay as they are.
LEMMA SnapshotOthers ==
  ASSUME SnapshotInv,
         \/ \E r \in Requests : ReadStatus(r) \/ RequestStep(r) \/ Crash(r)
         \/ \E c \in Services : Boot(c) \/ Restart(c)
         \/ \E s \in Servers : ServerStep(s)
         \/ UNCHANGED vars
  PROVE  SnapshotInv' /\ snap' = snap
  <1> USE DEF SnapshotInv
  <1>1. TypeOK'
    <2>1. CASE UNCHANGED vars BY <2>1, TypeStep
    <2> QED BY <2>1, TypeOthers
  <1>2. hp \in [Requests -> Helper] /\ req \in [Requests -> RequestSteps] BY TypeParts DEF OthersTyped
  <1>3. snap' = snap
    BY ServerStepKeeps
       DEF ReadStatus, RequestStep, WriteQueued, WritePlan, CreateHelper, StartHelper, Crash, Boot, Restart,
           vars, disk
  <1> DEFINE Begins(r) == hp[r] = NoHelper /\ hp' = [hp EXCEPT ![r] = [NoHelper EXCEPT !.pc = "download"]]
             Stops(r) == \E q \in {"ended", "killed"} : Exit(r, q)
             Effect == /\ hp' = hp \/ \E r \in Requests : (Begins(r) \/ Stops(r)) /\ req'[r] = "done"
                       /\ \A o \in Requests : req[o] = "done" => req'[o] = "done"
                       /\ status'.tells = "snapshotKept" => status.tells = "snapshotKept"
  <1>4. Effect
    <2>1. CASE UNCHANGED vars BY <2>1 DEF vars
    <2>2. ASSUME NEW r \in Requests, ReadStatus(r) PROVE Effect BY <1>2, <2>2 DEF ReadStatus
    <2>3. ASSUME NEW r \in Requests, WriteQueued(r) \/ WritePlan(r) \/ CreateHelper(r) PROVE Effect
      BY <1>2, <2>3 DEF WriteQueued, WritePlan, CreateHelper, markPanelUpdateLaunchFailed
    <2>4. ASSUME NEW r \in Requests, StartHelper(r) PROVE Effect
      <3>1. hp[r] = NoHelper BY <2>4 DEF StartHelper, NotStarted
      <3>2. req' = [req EXCEPT ![r] = "done"] BY <2>4 DEF StartHelper, markPanelUpdateLaunchFailed
      <3>3. \A o \in Requests : req[o] = "done" => req'[o] = "done" BY <1>2, <3>2
      <3>4. req'[r] = "done" BY <1>2, <3>2
      <3>5. hp' = hp \/ Begins(r) \/ Stops(r)
        BY <1>2, <2>4, <3>1 DEF StartHelper
      <3>6. status'.tells = "snapshotKept" => status.tells = "snapshotKept"
        BY <2>4 DEF StartHelper, markPanelUpdateLaunchFailed
      <3> QED BY <3>3, <3>4, <3>5, <3>6
    <2>5. ASSUME NEW r \in Requests, Crash(r) PROVE Effect
      <3>1. req' = req /\ status' = status /\ Exit(r, "killed") BY <2>5 DEF Crash
      <3>2. hp[r] # NoHelper BY <2>5, HelperTyped DEF Crash, Active
      <3>3. req'[r] = "done" BY <3>1, <3>2 DEF NotStarted
      <3> QED BY <3>1, <3>3
    <2>6. ASSUME NEW c \in Services, Boot(c) \/ Restart(c) PROVE Effect BY <2>6 DEF Boot, Restart
    <2>7. ASSUME NEW s \in Servers, ServerStep(s) PROVE Effect BY <2>7, ServerStepKeeps
    <2> QED BY <2>1, <2>2, <2>3, <2>4, <2>5, <2>6, <2>7 DEF RequestStep
  <1>5. CASE hp' = hp
    BY <1>1, <1>3, <1>4, <1>5
       DEF NotStarted, CurrentWhole, PartialWhole, AsideWhole, DropSafe, SnapshotKept, HasSnapshot, At
  <1>6. CASE hp' # hp
    <2>1. PICK r \in Requests : (Begins(r) \/ Stops(r)) /\ req'[r] = "done" BY <1>4, <1>6
    <2>2. /\ hp'[r].pc \in {"download", "ended", "killed"} /\ hp'[r].snapshotReady = FALSE
          /\ hp'[r].pc = "download" => hp[r].pc = "none"
          /\ \A o \in Requests \ {r} : hp'[o] = hp[o]
      <3>1. CASE Begins(r)
        <4> DEFINE h == [NoHelper EXCEPT !.pc = "download"]
        <4>1. h.pc = "download" /\ h.snapshotReady = FALSE BY HelperTyped DEF Fresh
        <4> HIDE DEF h
        <4>2. hp' = [hp EXCEPT ![r] = h] BY <3>1 DEF h
        <4>3. hp[r].pc = "none" BY <3>1, HelperTyped
        <4> QED BY <1>2, <4>1, <4>2, <4>3
      <3>2. CASE Stops(r) BY <1>2, <3>2, ExitMoves DEF Fresh
      <3> QED BY <2>1, <3>1, <3>2
    <2>3. NotStarted' BY <1>4, <2>1, <2>2 DEF NotStarted
    <2>4. CurrentWhole' /\ PartialWhole' /\ AsideWhole'
      BY <1>3, <2>2 DEF CurrentWhole, PartialWhole, AsideWhole, Filling, Filled, BeforeDrop
    <2>5. DropSafe'
      <3>1. \A o \in Requests : At(o, "drop")' => At(o, "drop") BY <2>2 DEF At
      <3> QED BY <1>3, <3>1 DEF DropSafe
    <2>6. SnapshotKept'
      <3>1. \A o \in Requests : hp'[o].snapshotReady => hp[o].snapshotReady BY <2>2
      <3> QED BY <1>3, <1>4, <3>1 DEF SnapshotKept, HasSnapshot
    <2> QED BY <1>1, <1>3, <2>3, <2>4, <2>5, <2>6
  <1> QED BY <1>3, <1>5, <1>6

\* Every step preserves the invariant.
LEMMA SnapshotStep == SnapshotInv /\ [Next]_vars => SnapshotInv'
  BY SnapshotHelper, SnapshotOthers DEF Next

\* No step loses the last snapshot.
LEMMA SnapshotKeptOn == SnapshotInv /\ [Next]_vars /\ HasSnapshot => HasSnapshot'
  <1> SUFFICES ASSUME SnapshotInv, [Next]_vars, HasSnapshot PROVE HasSnapshot' OBVIOUS
  <1>1. ASSUME NEW r \in Requests, HelperStep(r) PROVE HasSnapshot' BY <1>1, HelperKeeps
  <1>2. CASE snap' = snap BY <1>2 DEF HasSnapshot
  <1> QED BY <1>1, <1>2, SnapshotOthers DEF Next

\* The state is always well typed: in particular a helper takes no step it does not have.
THEOREM PanelUpdateTyped == Spec => []TypeOK
  BY TypeInit, TypeStep, PTL DEF Spec

\* From the first completed snapshot on there is one on disk, whichever rename of
\* finalizeSnapshot fails, when a helper is killed between two of them, and even when
\* updates overlap.
THEOREM SnapshotNeverLost == Spec => SnapshotSurvives
  <1>1. SnapshotInv /\ [Next]_vars => [HasSnapshot => HasSnapshot']_vars BY SnapshotKeptOn
  <1> QED BY <1>1, SnapshotInit, SnapshotStep, PTL DEF Spec, SnapshotSurvives
-----------------------------------------------------------------------------
(* What holds also when something odd has happened.                        *)

\* A failure is followed by a rollback only when the installation had begun.
LEMMA FailureHandled ==
  ASSUME TypeOK, NEW r \in Requests, HelperStep(r), hp[r].pc = "fail"
  PROVE  /\ hp'[r].pc = "stopWriters" => hp[r].applyStarted = TRUE
         /\ hp'[r].pc = "resume" => hp[r].applyStarted = FALSE
  <1>0. hp[r] \in Helper BY DEF TypeOK
  <1>1. HandleFailure(r)
    BY DEF HelperStep, At, downloadAndVerify, extractRelease, ListWorkloads, StopNext, stopWorkloads, ArchiveConfig,
           saveImages, archiveVolumes, dumpPostgres, WriteManifest, SetAside, Promote, UndoAside, DropPrevious,
           BeginApply, CopyFiles, ComposeUp, VerifyCore, startUpdatedWorker, VerifyAll, Succeed,
           stopCurrentPanelWriters, loadSnapshotImages, RestoreConfig, restorePostgres, RecreatePrior, VerifyPrior,
           ResumeStopped, RecordFailure
  <1>2. hp[r].applyStarted \in BOOLEAN BY <1>0 DEF Helper
  <1>3. \A q \in Pcs : Goto(r, q) => hp'[r].pc = q BY GotoMoves DEF TypeOK
  <1>4. CASE NeedsRollback(r)
    <2>1. hp'[r].pc = "stopWriters" BY <1>1, <1>3, <1>4 DEF HandleFailure, Pcs
    <2> QED BY <1>2, <1>4, <2>1 DEF NeedsRollback
  <1>5. CASE ~NeedsRollback(r) /\ ~hp[r].applyStarted
    <2>1. hp'[r].pc = "resume" BY <1>1, <1>3, <1>5 DEF HandleFailure, Pcs
    <2> QED BY <1>2, <1>5, <2>1
  <1>6. CASE ~NeedsRollback(r) /\ hp[r].applyStarted
    <2>1. hp'[r].pc = "record" BY <1>1, <1>3, <1>6 DEF HandleFailure, Pcs
    <2> QED BY <2>1
  <1> QED BY <1>4, <1>5, <1>6

\* What a helper remembers agrees with the step it is at.
LEMMA RemembersHelper ==
  ASSUME TypeOK, Remembers, NEW r \in Requests, HelperStep(r)
  PROVE  Remembers'
  <1>1. /\ hp' \in [Requests -> Helper] /\ \A o \in Requests \ {r} : hp'[o] = hp[o]
        /\ Moves(r)
    BY HelperMoves
  <1>2. hp[r].pc = "fail" => /\ hp'[r].pc = "stopWriters" => hp[r].applyStarted = TRUE
                             /\ hp'[r].pc = "resume" => hp[r].applyStarted = FALSE
    BY FailureHandled
  <1>3. hp[r] \in Helper BY DEF TypeOK
  <1>4. hp[r].applyStarted \in BOOLEAN /\ hp[r].snapshotReady \in BOOLEAN /\ hp[r].rolledBack \in BOOLEAN
    BY <1>3 DEF Helper
  <1> DEFINE R(h) == /\ h.pc \in Early => h.snapshotReady = FALSE
                     /\ h.pc = "apply" => h.snapshotReady = TRUE
                     /\ h.applyStarted = TRUE => h.snapshotReady = TRUE
                     /\ h.pc \in Installing \cup RollingBack => h.applyStarted = TRUE
                     /\ h.pc = "apply" => h.applyStarted = FALSE
                     /\ h.rolledBack = TRUE => h.pc \in {"resume", "record"} /\ h.applyStarted = TRUE
                     /\ h.pc = "resume" => h.applyStarted = h.rolledBack
  <1>5. R(hp[r]) BY DEF Remembers
  <1>6. R(hp'[r])
    <2>1. CASE Edge(hp[r].pc, hp'[r].pc) /\ SameMemory(r)
      <3>1. hp'[r].pc \in Early => hp[r].pc \in Early BY <2>1 DEF Edge, Early, Filling, Installing, RollingBack
      <3>2. hp'[r].pc # "apply" BY <2>1 DEF Edge
      <3>3. hp'[r].pc \in Installing \cup RollingBack =>
              \/ hp[r].pc \in Installing \cup RollingBack
              \/ hp[r].pc = "fail" /\ hp'[r].pc = "stopWriters"
        BY <2>1 DEF Edge, Early, Filling, Installing, RollingBack
      <3>4. hp[r].pc \in {"resume", "record"} => hp'[r].pc = "record"
        BY <2>1 DEF Edge, Early, Filling, Installing, RollingBack
      <3>5. hp'[r].pc = "resume" => hp[r].pc = "fail" BY <2>1 DEF Edge
      <3> QED BY <1>2, <1>4, <1>5, <2>1, <3>1, <3>2, <3>3, <3>4, <3>5 DEF SameMemory
    <2>2. CASE hp'[r].pc = "ended" /\ Fresh(hp'[r]) BY <2>2 DEF Fresh, Early, Installing, RollingBack
    <2>3. CASE /\ hp[r].pc = "drop" /\ hp'[r].pc = "apply" /\ hp'[r].snapshotReady = TRUE
               /\ hp'[r].applyStarted = hp[r].applyStarted /\ hp'[r].rolledBack = hp[r].rolledBack
      BY <1>4, <1>5, <2>3 DEF Early, Filling, Installing, RollingBack
    <2>4. CASE /\ hp[r].pc = "apply" /\ hp'[r].pc = "files" /\ hp'[r].applyStarted = TRUE
               /\ hp'[r].snapshotReady = hp[r].snapshotReady /\ hp'[r].rolledBack = hp[r].rolledBack
      BY <1>4, <1>5, <2>4 DEF Early, Filling, Installing, RollingBack
    <2>5. CASE /\ hp[r].pc = "verifyOld" /\ hp'[r].pc = "resume" /\ hp'[r].rolledBack = TRUE
               /\ hp'[r].snapshotReady = hp[r].snapshotReady /\ hp'[r].applyStarted = hp[r].applyStarted
      BY <1>4, <1>5, <2>5 DEF Early, Filling, Installing, RollingBack
    <2> QED BY <1>1, <2>1, <2>2, <2>3, <2>4, <2>5 DEF Moves
  <1> QED BY <1>1, <1>6 DEF Remembers

\* Requests start helpers that remember nothing, and a killed one has forgotten all.
LEMMA RemembersOthers ==
  ASSUME SnapshotInv, Remembers,
         \/ \E r \in Requests : ReadStatus(r) \/ RequestStep(r) \/ Crash(r)
         \/ \E c \in Services : Boot(c) \/ Restart(c)
         \/ \E s \in Servers : ServerStep(s)
         \/ UNCHANGED vars
  PROVE  Remembers'
  <1>1. hp \in [Requests -> Helper] BY DEF SnapshotInv, TypeOK
  <1>2. CASE hp' = hp BY <1>2 DEF Remembers
  <1>3. ASSUME NEW r \in Requests, NEW q \in {"ended", "killed"}, Exit(r, q) PROVE Remembers'
    <2>1. /\ hp' \in [Requests -> Helper] /\ hp'[r].pc = q /\ Fresh(hp'[r])
          /\ \A o \in Requests \ {r} : hp'[o] = hp[o]
      BY <1>1, <1>3, ExitMoves
    <2> QED BY <2>1 DEF Remembers, Fresh, Installing, RollingBack
  <1>4. ASSUME NEW r \in Requests, StartHelper(r), hp' = [hp EXCEPT ![r].pc = "download"] PROVE Remembers'
    <2>1. hp[r] = NoHelper BY <1>4 DEF StartHelper, SnapshotInv, NotStarted
    <2> DEFINE h == [NoHelper EXCEPT !.pc = "download"]
    <2>2. h.pc = "download" /\ Fresh(h) BY HelperTyped
    <2> HIDE DEF h
    <2>3. hp' = [hp EXCEPT ![r] = h] BY <1>1, <1>4, <2>1 DEF h
    <2> QED BY <1>1, <2>2, <2>3 DEF Remembers, Fresh, Installing, RollingBack
  <1> QED BY <1>2, <1>3, <1>4, ServerStepKeeps
          DEF ReadStatus, RequestStep, WriteQueued, WritePlan, CreateHelper, StartHelper, Crash, Boot, Restart, vars
\* Only a service that boots begins to loop.
LEMMA HelperContainers ==
  ASSUME TypeOK, NEW r \in Requests, HelperStep(r), NEW c \in Services, svc'[c].st = "looping"
  PROVE  svc'[c] = svc[c]
  <1>1. svc \in Containers BY TypeParts DEF OthersTyped
  <1>2. CASE svc' = svc BY <1>2
  <1>3. ASSUME NEW cs, NEW v, svc' = Recreated(cs, v) PROVE svc'[c] = svc[c] BY <1>3 DEF Recreated
  <1>4. CASE Resume(r) BY <1>1, <1>4 DEF Resume, Containers
  <1>5. ASSUME NEW d \in Servers \cup Writers, StopNext(r, d) PROVE svc'[c] = svc[c]
    BY <1>1, <1>2, <1>5 DEF StopNext, Stop, Containers, docker
  <1>6. CASE stopCurrentPanelWriters(r) BY <1>1, <1>6 DEF stopCurrentPanelWriters, Containers
  <1>7. CASE ComposeUp(r) \/ startUpdatedWorker(r) \/ RecreatePrior(r)
    BY <1>2, <1>3, <1>7 DEF ComposeUp, startUpdatedWorker, RecreatePrior
  <1>8. CASE VerifyAll(r) \/ ResumeStopped(r) BY <1>2, <1>4, <1>8 DEF VerifyAll, ResumeStopped, docker
  <1>9. CASE \/ downloadAndVerify(r) \/ extractRelease(r) \/ ListWorkloads(r) \/ stopWorkloads(r)
             \/ ArchiveConfig(r) \/ saveImages(r) \/ archiveVolumes(r) \/ dumpPostgres(r) \/ WriteManifest(r)
             \/ SetAside(r) \/ Promote(r) \/ UndoAside(r) \/ DropPrevious(r)
    BY <1>2, <1>9 DEF downloadAndVerify, extractRelease, ListWorkloads, stopWorkloads, ArchiveConfig,
         saveImages, archiveVolumes, dumpPostgres, WriteManifest, SetAside, Promote, UndoAside, DropPrevious, docker
  <1>10. CASE \/ BeginApply(r) \/ CopyFiles(r) \/ VerifyCore(r) \/ Succeed(r) \/ HandleFailure(r)
              \/ loadSnapshotImages(r) \/ RestoreConfig(r) \/ restorePostgres(r) \/ VerifyPrior(r) \/ RecordFailure(r)
    BY <1>2, <1>10 DEF BeginApply, CopyFiles, VerifyCore, Succeed, HandleFailure, loadSnapshotImages, RestoreConfig,
         restorePostgres, VerifyPrior, RecordFailure, docker
  <1> QED BY <1>5, <1>6, <1>7, <1>8, <1>9, <1>10 DEF HelperStep

\* A service of the old release keeps booting.
LEMMA OldBootsStep ==
  ASSUME TypeOK, OldBoots, [Next]_vars
  PROVE  OldBoots'
  <1>1. svc \in Containers BY TypeParts DEF OthersTyped
  <1>2. CASE svc' = svc BY <1>2 DEF OldBoots
  <1>3. ASSUME NEW r \in Requests, HelperStep(r) PROVE OldBoots' BY <1>3, HelperContainers DEF OldBoots
  <1>4. ASSUME NEW c \in Services, Boot(c) PROVE OldBoots'
    BY <1>1, <1>4 DEF Boot, OldBoots, Containers
  <1>5. ASSUME NEW c \in Services, Restart(c) PROVE OldBoots'
    BY <1>1, <1>5 DEF Restart, OldBoots, Containers
  <1> QED BY <1>2, <1>3, <1>4, <1>5, ServerStepKeeps
          DEF Next, vars, docker, ReadStatus, RequestStep, WriteQueued, WritePlan, CreateHelper, StartHelper, Crash

\* Only a failure has something to tell.
LEMMA FailureToldStep ==
  ASSUME TypeOK, FailureTold, [Next]_vars
  PROVE  FailureTold'
  <1>1. CASE status' = status BY <1>1 DEF FailureTold
  <1>2. ASSUME NEW r \in Requests, HelperStep(r) PROVE FailureTold'
    <2>1. StatusMove(r) BY <1>2, StatusMoves
    <2> QED BY <1>1, <2>1 DEF StatusMove, FailureTold
  <1>3. ASSUME NEW r \in Requests, RequestStep(r) PROVE FailureTold'
    BY <1>1, <1>3 DEF FailureTold, RequestStep, WriteQueued, WritePlan, CreateHelper, StartHelper,
       markPanelUpdateLaunchFailed
  <1> QED BY <1>1, <1>2, <1>3, ServerStepKeeps DEF Next, vars, ReadStatus, Crash, Boot, Restart

\* What was odd stays on record.
LEMMA OddStays ==
  ASSUME TypeOK, [Next]_vars
  PROVE  odd \subseteq odd'
  <1>1. CASE odd' = odd BY <1>1
  <1>2. ASSUME NEW r \in Requests, HelperStep(r) PROVE odd \subseteq odd'
    <2>1. CASE stopCurrentPanelWriters(r) BY <2>1 DEF stopCurrentPanelWriters
    <2>2. CASE RecordFailure(r) BY <2>2 DEF RecordFailure
    <2>3. CASE \/ downloadAndVerify(r) \/ extractRelease(r) \/ ListWorkloads(r)
               \/ (\E c \in Servers \cup Writers : StopNext(r, c)) \/ stopWorkloads(r)
               \/ ArchiveConfig(r) \/ saveImages(r) \/ archiveVolumes(r) \/ dumpPostgres(r) \/ WriteManifest(r)
               \/ SetAside(r) \/ Promote(r) \/ UndoAside(r) \/ DropPrevious(r)
      BY <1>1, <2>3 DEF downloadAndVerify, extractRelease, ListWorkloads, StopNext, stopWorkloads, ArchiveConfig,
           saveImages, archiveVolumes, dumpPostgres, WriteManifest, SetAside, Promote, UndoAside, DropPrevious, history
    <2>4. CASE \/ BeginApply(r) \/ CopyFiles(r) \/ ComposeUp(r) \/ VerifyCore(r) \/ startUpdatedWorker(r)
               \/ VerifyAll(r) \/ Succeed(r) \/ HandleFailure(r) \/ loadSnapshotImages(r) \/ RestoreConfig(r)
               \/ restorePostgres(r) \/ RecreatePrior(r) \/ VerifyPrior(r) \/ ResumeStopped(r)
      BY <1>1, <2>4 DEF BeginApply, CopyFiles, ComposeUp, VerifyCore, startUpdatedWorker, VerifyAll, Succeed,
           HandleFailure, loadSnapshotImages, RestoreConfig, restorePostgres, RecreatePrior, VerifyPrior,
           ResumeStopped, history
    <2> QED BY <1>2, <2>1, <2>2, <2>3, <2>4 DEF HelperStep
  <1>3. ASSUME NEW r \in Requests, WriteQueued(r) PROVE odd \subseteq odd' BY <1>3 DEF WriteQueued
  <1> QED BY <1>1, <1>2, <1>3, ServerStepKeeps
          DEF Next, vars, history, ReadStatus, RequestStep, WritePlan, CreateHelper, StartHelper, Crash, Boot, Restart

-----------------------------------------------------------------------------
(* A helper that works alone.                                              *)

\* A helper that is not at work has no part in it.
LEMMA IdleOwns ==
  ASSUME Remembers', NEW o \in Requests, hp'[o].pc \in {"none", "ended", "killed"}
  PROVE  Own(o)'
  BY DEF Remembers, Own, Progress, Restored, Stopping, Snapshots, Early, Filling

\* As long as updates do not overlap, no other helper is at work, and the status tells
\* of the one that is.
LEMMA HelperAlone ==
  ASSUME SnapshotInv, OneBusy, BusyShows, NEW r \in Requests, HelperStep(r)
  PROVE  /\ Busy(r) /\ panelUpdateActive(status.state) /\ req[r] = "done" /\ req'[r] = "done"
         /\ \A o \in Requests \ {r} : hp[o].pc \in {"none", "ended", "killed"} /\ hp'[o] = hp[o] /\ ~Busy(o)'
         /\ OneBusy' /\ BusyShows'
         /\ Busy(r)' <=> hp'[r].pc # "ended"
  <1>1. /\ hp' \in [Requests -> Helper] /\ \A o \in Requests \ {r} : hp'[o] = hp[o]
        /\ Moves(r)
    BY HelperMoves DEF SnapshotInv
  <1>2. hp[r].pc \notin {"none", "ended", "killed"} /\ hp'[r].pc \notin {"none", "killed"}
    BY <1>1 DEF Moves, Edge, RollingBack, Installing, Early, Filling
  <1>3. Busy(r) BY <1>2 DEF Busy, Active
  <1>4. panelUpdateActive(status.state) BY <1>3 DEF BusyShows
  <1>5. \A o \in Requests : req'[o] = req[o] \/ req'[o] = "done" BY RequestsEnd DEF SnapshotInv
  <1>6. \A o \in Requests \ {r} : hp[o].pc \in {"none", "ended", "killed"} /\ ~Busy(o)'
    <2>1. \A o \in Requests \ {r} : ~Busy(o) BY <1>3 DEF OneBusy
    <2> QED BY <1>1, <1>5, <2>1 DEF Busy, Active
  <1>7. req[r] = "done" /\ req'[r] = "done"
    <2>1. hp[r] # NoHelper BY <1>2, HelperTyped
    <2> QED BY <1>5, <2>1 DEF SnapshotInv, NotStarted
  <1>8. Busy(r)' <=> hp'[r].pc # "ended" BY <1>2, <1>7 DEF Busy, Active
  <1>9. OneBusy' BY <1>6 DEF OneBusy
  <1>10. StatusMove(r) BY StatusMoves DEF SnapshotInv
  <1>11. hp'[r].pc # "ended" => panelUpdateActive(status.state)'
    BY <1>4, <1>10 DEF StatusMove, panelUpdateActive
  <1>12. BusyShows' BY <1>6, <1>8, <1>11 DEF BusyShows
  <1> QED BY <1>1, <1>3, <1>4, <1>6, <1>7, <1>8, <1>9, <1>12
\* A helper that has not begun the installation finds the old release installed.
LEMMA BeforeInstalling ==
  ASSUME SnapshotInv, Remembers, Consistent, NEW r \in Requests, HelperStep(r),
         hp[r].pc \in Early \cup {"apply"}
  PROVE  /\ Installed("old") /\ hp[r].applyStarted = FALSE /\ hp[r].rolledBack = FALSE
         /\ hp[r].pc \in Early => hp[r].snapshotReady = FALSE
  <1>1. hp[r] \in Helper BY DEF SnapshotInv, TypeOK
  <1>2. /\ hp[r].applyStarted \in BOOLEAN /\ hp[r].snapshotReady \in BOOLEAN /\ hp[r].rolledBack \in BOOLEAN
    BY <1>1 DEF Helper
  <1>3. hp[r].applyStarted = FALSE BY <1>2 DEF Remembers
  <1>4. hp[r].rolledBack = FALSE BY <1>2, <1>3 DEF Remembers
  <1>5. Busy(r) BY HelperAlone DEF Consistent
  <1> QED BY <1>3, <1>4, <1>5 DEF Consistent, Settled, Remembers

\* A helper sets aside what is in place, once.
LEMMA AsideStep ==
  ASSUME SnapshotInv, NothingAside, [Next]_vars
  PROVE  NothingAside'
  <1>1. hp \in [Requests -> Helper] BY DEF SnapshotInv, TypeOK
  <1>2. ASSUME NEW r \in Requests, HelperStep(r) PROVE NothingAside'
    <2>1. /\ hp' \in [Requests -> Helper] /\ \A o \in Requests \ {r} : hp'[o] = hp[o]
          /\ Moves(r)
      BY <1>2, HelperMoves DEF SnapshotInv
    <2>2. snap' \in SnapshotDirs /\ DirsMove(r) BY <1>2, SnapshotMoves DEF SnapshotInv
    <2>3. snap.previous \in [Requests -> Snapshot] BY TypeParts DEF SnapshotInv, SnapshotDirs
    <2>4. \A o \in Requests \ {r} : snap'.previous[o] = snap.previous[o]
      BY <2>2, <2>3 DEF DirsMove, LeavesDirs, Discards, OnlyPartial, MovesAside, TakesPlace, MovesBack, Drops
    <2>5. hp'[r].pc \in BeforeDrop \ {"promote", "undo"} =>
            hp[r].pc \in BeforeDrop \ {"promote", "undo"} /\ snap'.previous = snap.previous
      <3>1. hp'[r].pc \in BeforeDrop \ {"promote", "undo"} => hp[r].pc \in BeforeDrop \ {"promote", "undo"}
        BY <2>1 DEF Moves, Edge, BeforeDrop, Filling, RollingBack, Installing, Early
      <3>2. CASE LeavesDirs(r) \/ Discards(r) \/ OnlyPartial(r) \/ TakesPlace(r)
        BY <3>1, <3>2 DEF LeavesDirs, Discards, OnlyPartial, TakesPlace
      <3>3. CASE MovesAside(r) \/ MovesBack(r) \/ Drops(r)
        BY <3>3 DEF MovesAside, MovesBack, Drops, BeforeDrop, Filling
      <3> QED BY <2>2, <3>2, <3>3 DEF DirsMove
    <2> QED BY <2>1, <2>4, <2>5 DEF NothingAside
  <1>3. ASSUME \/ \E r \in Requests : ReadStatus(r) \/ RequestStep(r) \/ Crash(r)
               \/ \E c \in Services : Boot(c) \/ Restart(c)
               \/ \E s \in Servers : ServerStep(s)
               \/ UNCHANGED vars
        PROVE  NothingAside'
    <2>1. snap' = snap BY <1>3, SnapshotOthers
    <2>2. CASE hp' = hp BY <2>1, <2>2 DEF NothingAside
    <2>3. ASSUME NEW r \in Requests, NEW q \in {"ended", "killed"}, Exit(r, q) PROVE NothingAside'
      <3>1. /\ hp' \in [Requests -> Helper] /\ hp'[r].pc = q
            /\ \A o \in Requests \ {r} : hp'[o] = hp[o]
        BY <1>1, <2>3, ExitMoves
      <3> QED BY <2>1, <3>1 DEF NothingAside, BeforeDrop, Filling
    <2>4. ASSUME NEW r \in Requests, StartHelper(r), hp' = [hp EXCEPT ![r].pc = "download"] PROVE NothingAside'
      <3>1. hp[r] = NoHelper BY <2>4 DEF StartHelper, SnapshotInv, NotStarted
      <3>2. hp[r].pc = "none" BY <3>1, HelperTyped
      <3>3. \A o \in Requests \ {r} : hp'[o] = hp[o] BY <1>1, <2>4
      <3> QED BY <2>1, <3>2, <3>3 DEF NothingAside, BeforeDrop
    <2> QED BY <1>3, <2>2, <2>3, <2>4, ServerStepKeeps
            DEF ReadStatus, RequestStep, WriteQueued, WritePlan, CreateHelper, StartHelper, Crash, Boot, Restart, vars
  <1> QED BY <1>2, <1>3 DEF Next

\* The snapshots a helper takes and moves have the old release.
LEMMA HelperSnapshots ==
  ASSUME SnapshotInv, Remembers, NothingAside, Consistent, NEW r \in Requests, HelperStep(r)
  PROVE  Good(snap.current)' /\ Snapshots(r)'
  <1>1. Moves(r) BY HelperMoves DEF SnapshotInv
  <1>2. snap' \in SnapshotDirs /\ DirsMove(r) BY SnapshotMoves DEF SnapshotInv
  <1>3. snap \in SnapshotDirs BY TypeParts DEF SnapshotInv
  <1>4. /\ snap.previous \in [Requests -> Snapshot] /\ snap.partial \in [Requests -> Snapshot]
        /\ snap.current \in Snapshot
    BY <1>3 DEF SnapshotDirs
  <1>5. Good(snap.current) /\ Snapshots(r) /\ Stopping(r) BY DEF Consistent, Own
  <1>6. hp[r].pc \in {"config", "volumes", "dump", "manifest", "setAside", "promote", "undo", "drop"} =>
          /\ Release(files) = "old" /\ Release(db) = "old" /\ hp[r].snapshotReady = FALSE
    BY BeforeInstalling DEF Early, Filling, Installed
  <1>7. hp'[r].snapshotReady = TRUE => hp[r].snapshotReady = TRUE \/ (hp[r].pc = "drop" /\ hp'[r].pc = "apply")
    BY <1>1 DEF Moves, SameMemory, Fresh
  <1>8. CASE LeavesDirs(r)
    <2>1. snap' = snap BY <1>8 DEF LeavesDirs
    <2>2. hp'[r].pc \in Filling => hp[r].pc \in Filling BY <1>1, <1>8 DEF LeavesDirs, Moves, Edge, Filling
    <2>3. hp'[r].pc \in {"manifest", "setAside", "promote"} => hp[r].pc \in {"manifest", "setAside", "promote"}
      BY <1>1, <1>8 DEF LeavesDirs, Moves, Edge
    <2>4. hp'[r].pc \in {"promote", "undo"} => Good(snap.previous[r])
      <3>1. hp'[r].pc = "promote" => hp[r].pc = "setAside" BY <1>1 DEF Moves, Edge
      <3>2. hp'[r].pc = "undo" => hp[r].pc = "promote" BY <1>1 DEF Moves, Edge
      <3>3. hp[r].pc = "setAside" => snap.previous[r].there = FALSE BY DEF NothingAside, BeforeDrop, Filling
      <3> QED BY <1>5, <3>1, <3>2, <3>3 DEF Snapshots, Good
    <2>5. hp[r].pc # "drop" /\ hp'[r].pc # "drop" BY <1>8 DEF LeavesDirs
    <2> QED BY <1>5, <1>7, <2>1, <2>2, <2>3, <2>4, <2>5 DEF Snapshots, Good
  <1>9. CASE Discards(r)
    <2>1. hp'[r].pc = "fail" /\ snap'.current = snap.current BY <1>9 DEF Discards, OnlyPartial
    <2> QED BY <1>5, <1>7, <2>1 DEF Snapshots, Good, Filling
  <1>10. CASE OnlyPartial(r) /\ Fills(r)
    <2>1. snap'.current = snap.current /\ snap'.previous = snap.previous BY <1>10 DEF OnlyPartial
    <2>2. /\ hp[r].pc \in {"config", "volumes", "dump", "manifest"} /\ hp'[r].pc \notin {"promote", "undo", "drop", "apply"}
      BY <1>10 DEF Fills
    <2>3. hp[r].pc \in {"config", "volumes", "dump"} => Live = {} BY <1>5 DEF Stopping
    <2>4. hp[r].pc \in {"volumes", "dump", "manifest"} => Release(snap.partial[r].files) = "old" /\ snap.partial[r].live = {}
      BY <1>5 DEF Snapshots, Filling
    <2>5. hp[r].pc = "manifest" => Release(snap.partial[r].db) = "old" BY <1>5 DEF Snapshots
    <2>6. Release(snap'.partial[r].files) = "old" /\ snap'.partial[r].live = {}
      BY <1>6, <1>10, <2>2, <2>3, <2>4 DEF Fills
    <2>7. hp'[r].pc \in {"manifest", "setAside", "promote"} => Release(snap'.partial[r].db) = "old"
      BY <1>6, <1>10, <2>5 DEF Fills
    <2> QED BY <1>5, <1>6, <1>7, <2>1, <2>2, <2>6, <2>7 DEF Snapshots, Good
  <1>11. CASE MovesAside(r)
    <2>1. snap'.previous[r] = snap.current BY <1>4, <1>11 DEF MovesAside
    <2> QED BY <1>5, <1>6, <1>7, <1>11, <2>1, NoSnapshotTyped DEF Snapshots, Good, MovesAside, Filling
  <1>12. CASE TakesPlace(r)
    <2>1. snap.partial[r].there = TRUE BY <1>12 DEF TakesPlace, SnapshotInv, PartialWhole, Filling
    <2> QED BY <1>5, <1>6, <1>12, <2>1 DEF Snapshots, Good, TakesPlace, Filling
  <1>13. CASE MovesBack(r)
    <2>1. hp'[r].snapshotReady # TRUE BY <1>6, <1>7, <1>13 DEF MovesBack
    <2> QED BY <1>5, <1>13, <2>1 DEF Snapshots, Good, MovesBack, Filling
  <1>14. CASE Drops(r)
    <2>1. snap'.current = snap.current /\ hp[r].pc = "drop" /\ hp'[r].pc = "apply" BY <1>14 DEF Drops
    <2> QED BY <1>5, <2>1 DEF Snapshots, Good, Filling
  <1> QED BY <1>2, <1>8, <1>9, <1>10, <1>11, <1>12, <1>13, <1>14 DEF DirsMove

\* Up to the installation the containers are stopped and started, and nothing is replaced.
LEMMA EarlyFrame ==
  ASSUME TypeOK, NEW r \in Requests, HelperStep(r), hp[r].pc \in Early \cup {"apply"}
  PROVE  files' = files /\ db' = db /\ \A c \in Services : svc'[c].ver = svc[c].ver
  <1>1. svc \in Containers BY TypeParts DEF OthersTyped
  <1>2. ASSUME NEW c \in Servers \cup Writers, StopNext(r, c)
        PROVE  files' = files /\ db' = db /\ \A d \in Services : svc'[d].ver = svc[d].ver
    BY <1>1, <1>2 DEF StopNext, Stop, StepFails, Containers, disk, docker
  <1>3. CASE \/ downloadAndVerify(r) \/ extractRelease(r) \/ ListWorkloads(r) \/ stopWorkloads(r)
             \/ ArchiveConfig(r) \/ saveImages(r) \/ archiveVolumes(r) \/ dumpPostgres(r) \/ WriteManifest(r)
             \/ SetAside(r) \/ Promote(r) \/ UndoAside(r) \/ DropPrevious(r) \/ BeginApply(r)
    BY <1>3 DEF downloadAndVerify, extractRelease, ListWorkloads, stopWorkloads, ArchiveConfig, saveImages,
         archiveVolumes, dumpPostgres, WriteManifest, SetAside, Promote, UndoAside, DropPrevious, BeginApply,
         StepFails, disk, docker
  <1>4. CASE \/ CopyFiles(r) \/ ComposeUp(r) \/ VerifyCore(r) \/ startUpdatedWorker(r) \/ VerifyAll(r) \/ Succeed(r)
             \/ HandleFailure(r) \/ stopCurrentPanelWriters(r) \/ loadSnapshotImages(r) \/ RestoreConfig(r)
             \/ restorePostgres(r) \/ RecreatePrior(r) \/ VerifyPrior(r) \/ ResumeStopped(r) \/ RecordFailure(r)
    BY <1>4 DEF CopyFiles, ComposeUp, VerifyCore, startUpdatedWorker, VerifyAll, Succeed, HandleFailure,
         stopCurrentPanelWriters, loadSnapshotImages, RestoreConfig, restorePostgres, RecreatePrior, VerifyPrior,
         ResumeStopped, RecordFailure, At, Early, Filling
  <1> QED BY <1>2, <1>3, <1>4 DEF HelperStep

\* What runs is stopped before the snapshot is taken.
LEMMA StoppingStep ==
  ASSUME TypeOK, OldBoots, NEW r \in Requests, HelperStep(r), Stopping(r),
         hp[r].pc \in Early => \A c \in Services : svc[c].ver = "old"
  PROVE  Stopping(r)'
  <1>0. hp \in [Requests -> Helper] /\ hp[r] \in Helper BY DEF TypeOK
  <1>1. svc \in Containers /\ srv \in Powers BY TypeParts DEF OthersTyped
  <1>2. Moves(r) BY HelperMoves
  <1>3. CASE hp'[r].pc \notin {"stop", "config", "saveImages", "volumes", "dump"} BY <1>3 DEF Stopping
  <1>4. CASE hp'[r].pc \in {"stop", "config", "saveImages", "volumes", "dump"}
    <2>1. hp[r].pc \in {"list", "stop", "config", "saveImages", "volumes"}
      BY <1>2, <1>4 DEF Moves, Edge, RollingBack
    <2>2. \/ ListWorkloads(r) \/ (\E c \in Servers \cup Writers : StopNext(r, c)) \/ stopWorkloads(r)
          \/ ArchiveConfig(r) \/ saveImages(r) \/ archiveVolumes(r)
      BY <2>1 DEF HelperStep, downloadAndVerify, extractRelease, dumpPostgres, WriteManifest, SetAside, Promote,
           UndoAside, DropPrevious, BeginApply, CopyFiles, ComposeUp, VerifyCore, startUpdatedWorker, VerifyAll,
           Succeed, HandleFailure, stopCurrentPanelWriters, loadSnapshotImages, RestoreConfig, restorePostgres,
           RecreatePrior, VerifyPrior, ResumeStopped, RecordFailure, At
    <2>3. ~Fails(r)
      <3>1. Fails(r) => hp'[r].pc = "fail" BY <1>0, GotoMoves DEF Fails, Pcs
      <3> QED BY <1>4, <3>1
    <2>4. CASE ListWorkloads(r)
      <3>1. /\ hp' = [hp EXCEPT ![r] = [@ EXCEPT !.pc = "stop", !.todo = RunningWorkloads]]
            /\ touched' = srv.restarting /\ srv' = srv /\ svc' = svc /\ hp[r].pc = "list"
        BY <2>3, <2>4 DEF ListWorkloads, StepFails, docker, At
      <3>2. hp'[r].pc = "stop" /\ hp'[r].todo = RunningWorkloads BY <1>0, <3>1 DEF Helper
      <3>3. \A c \in Services : svc[c].st # "looping" BY <3>1 DEF OldBoots, Early
      <3>4. \A c \in Services : svc[c].st \in {"stopped", "booting", "up", "looping"} BY <1>1 DEF Containers
      <3>5. Live' \subseteq RunningWorkloads
        BY <3>1, <3>3, <3>4 DEF Live, Awake, RunningWorkloads, Running, Services, Writers
      <3> QED BY <3>2, <3>5 DEF Stopping
    <2>5. ASSUME NEW c \in Servers \cup Writers, StopNext(r, c) PROVE Stopping(r)'
      <3>1. /\ hp' = [hp EXCEPT ![r].todo = @ \ {c}, ![r].stopped = @ \cup {c}]
            /\ srv' = Halted({c}) /\ touched' = touched /\ hp[r].pc = "stop"
            /\ svc' = IF c \in Servers THEN svc ELSE [svc EXCEPT ![c].st = "stopped"]
        BY <2>3, <2>5 DEF StopNext, Stop, StepFails, history, At
      <3>2. hp'[r].pc = "stop" /\ hp'[r].todo = hp[r].todo \ {c} BY <1>0, <3>1 DEF Helper
      <3>3. Live \subseteq hp[r].todo BY <3>1 DEF Stopping
      <3>4. c \in Servers => c \notin Writers BY PanelUpdateAssumption DEF Writers
      <3>5. \A w \in Writers : svc'[w].st # "stopped" => svc[w].st # "stopped" /\ w # c
        BY <1>1, <3>1, <3>4 DEF Containers, Writers, Services
      <3>6. Live' \subseteq Live \ {c}
        <4>1. \A w \in Writers : w \notin Servers BY PanelUpdateAssumption DEF Writers
        <4>2. Awake' = Awake \ {c} BY <1>1, <3>1, PowersTyped
        <4> QED BY <3>1, <3>5, <4>1, <4>2 DEF Live
      <3> QED BY <3>2, <3>3, <3>6 DEF Stopping
    <2>6. CASE stopWorkloads(r)
      <3>1. hp[r].pc = "stop" /\ hp[r].todo = {} /\ srv' = srv /\ svc' = svc /\ touched' = touched
        BY <2>6 DEF stopWorkloads, At, docker, history
      <3>2. Live = {} BY <3>1 DEF Stopping
      <3>3. Live' = Live BY <3>1 DEF Live, Awake
      <3>4. hp'[r].pc # "stop"
        <4>1. Goto(r, "config") BY <2>3, <2>6 DEF stopWorkloads, writeStatus
        <4> QED BY <1>0, <4>1, GotoMoves DEF Pcs
      <3> QED BY <3>2, <3>3, <3>4 DEF Stopping
    <2>7. CASE ArchiveConfig(r) \/ saveImages(r) \/ archiveVolumes(r)
      <3>1. /\ hp[r].pc \in {"config", "saveImages", "volumes"} /\ srv' = srv /\ svc' = svc /\ touched' = touched
        BY <2>7 DEF ArchiveConfig, saveImages, archiveVolumes, At, docker, history
      <3>2. Live' = Live BY <3>1 DEF Live, Awake
      <3>3. hp'[r].pc # "stop" BY <1>2, <3>1 DEF Moves, Edge
      <3> QED BY <3>1, <3>2, <3>3 DEF Stopping
    <2> QED BY <2>2, <2>4, <2>5, <2>6, <2>7
  <1> QED BY <1>3, <1>4

\* What a helper's step makes of the installation, and what it tells of it.
Settles(r) ==
  /\ NewMigrated' /\ Progress(r)' /\ Restored(r)'
  /\ status'.state = "failed" => Installed("old")'
  /\ status'.state = "succeeded" => Installed("new")' /\ \A q \in Requests : req'[q] \in {"idle", "done"}
  /\ hp'[r].pc # "ended" /\ hp'[r].applyStarted = FALSE => Installed("old")'

\* Up to the installation, the old release stays.
LEMMA EarlySettles ==
  ASSUME SnapshotInv, Remembers, Consistent, NEW r \in Requests, HelperStep(r), hp[r].pc \in Early \cup {"apply"}
  PROVE  Settles(r)
  <1>1. Installed("old") /\ hp[r].rolledBack = FALSE BY BeforeInstalling
  <1>2. files' = files /\ db' = db /\ \A c \in Services : svc'[c].ver = svc[c].ver
    BY EarlyFrame DEF SnapshotInv
  <1>3. Installed("old")' BY <1>1, <1>2 DEF Installed
  <1>4. Moves(r) /\ StatusMove(r) BY HelperMoves, StatusMoves DEF SnapshotInv
  <1>5. hp'[r].rolledBack = FALSE /\ hp'[r].pc \in (Early \cup {"apply", "files", "fail"}) \ {"ended"}
    BY <1>1, <1>4 DEF Moves, Edge, SameMemory, Fresh, Early, Filling, RollingBack, Installing
  <1>6. panelUpdateActive(status.state) BY HelperAlone DEF Consistent
  <1>7. panelUpdateActive(status'.state)
    BY <1>4, <1>5, <1>6 DEF StatusMove, panelUpdateActive, Early, Filling
  <1>8. NewMigrated' BY <1>3 DEF NewMigrated, Installed, Writers, Services
  <1>9. Progress(r)' BY <1>3, <1>5 DEF Progress, Early, Filling
  <1>10. Restored(r)' BY <1>5 DEF Restored, Early, Filling
  <1> QED BY <1>3, <1>7, <1>8, <1>9, <1>10 DEF Settles, panelUpdateActive

\* While the new release is installed, each step finds what the one before it left.
LEMMA InstallingSettles ==
  ASSUME SnapshotInv, Remembers, Consistent, NEW r \in Requests, HelperStep(r), hp[r].pc \in Installing
  PROVE  Settles(r)
  <1>0. hp \in [Requests -> Helper] /\ svc \in Containers /\ req \in [Requests -> RequestSteps]
    BY TypeParts DEF SnapshotInv, OthersTyped
  <1>1. Moves(r) /\ StatusMove(r) BY HelperMoves, StatusMoves DEF SnapshotInv
  <1>2. hp[r].applyStarted = TRUE /\ hp[r].rolledBack # TRUE
    BY DEF Remembers, Installing
  <1>3. hp'[r].pc # "ended" => hp'[r].applyStarted = TRUE /\ hp'[r].rolledBack # TRUE
    BY <1>1, <1>2 DEF Moves, SameMemory, Installing
  <1>4. panelUpdateActive(status.state) BY HelperAlone DEF Consistent
  <1>5. Progress(r) /\ NewMigrated BY DEF Consistent, Own
  <1>6. ASSUME hp'[r].pc # "ended", NewMigrated', Progress(r)' PROVE Settles(r)
    <2>1. hp'[r].pc \notin {"images", "restoreConfig", "restoreDb", "recreate", "verifyOld"}
      BY <1>1 DEF Moves, Edge, Installing
    <2>2. Restored(r)' BY <1>3, <1>6, <2>1 DEF Restored
    <2>3. panelUpdateActive(status'.state) BY <1>1, <1>4, <1>6 DEF StatusMove, panelUpdateActive
    <2> QED BY <1>3, <1>6, <2>2, <2>3 DEF Settles, panelUpdateActive
  <1>7. \A q \in Pcs : Goto(r, q) => hp'[r].pc = q BY <1>0, GotoMoves
  <1>8. Fails(r) => hp'[r].pc = "fail" BY <1>7 DEF Fails, Pcs
  <1>9. hp'[r].pc = "fail" => Progress(r)' BY DEF Progress
  <1>10. CASE CopyFiles(r)
    <2>1. hp[r].pc = "files" /\ db' = db /\ svc' = svc BY <1>10 DEF CopyFiles, At, docker
    <2>2. Installed("old") BY <1>5, <2>1 DEF Progress
    <2>3. NewMigrated' BY <2>1, <2>2 DEF NewMigrated, Installed, Writers, Services
    <2>4. hp'[r].pc = "fail" \/ (hp'[r].pc = "compose" /\ files' = "new") BY <1>7, <1>10 DEF CopyFiles, Pcs
    <2>5. Progress(r)' BY <1>9, <2>1, <2>2, <2>4 DEF Progress, Installed
    <2> QED BY <1>6, <2>3, <2>4, <2>5
  <1>11. CASE ComposeUp(r)
    <2>1. hp[r].pc = "compose" /\ files' = files /\ db' = db BY <1>11 DEF ComposeUp, At
    <2>2. files = "new" /\ \A c \in Services : svc[c].ver = "old" BY <1>5, <2>1 DEF Progress
    <2>3. \A cs : svc' = Recreated(cs, "new") => NewMigrated'
      BY <2>2 DEF Recreated, NewMigrated, Writers, Services
    <2>4. NewMigrated' BY <1>11, <2>3 DEF ComposeUp
    <2>5. CASE hp'[r].pc = "fail" BY <1>6, <1>9, <2>4, <2>5
    <2>6. CASE hp'[r].pc # "fail"
      <3>1. /\ svc' = Recreated({"app", "engine"}, "new") /\ req' = Interrupted({"engine"}) /\ hp'[r].pc = "verify"
        BY <1>7, <1>8, <1>11, <2>6 DEF ComposeUp, writeStatus, Pcs
      <3>2. svc'["app"].ver = "new" /\ svc'["engine"].ver = "new" BY <3>1 DEF Recreated, Services
      <3>3. \A q \in Requests : req'[q] \in {"idle", "done"} BY <3>1 DEF Interrupted
      <3>4. Progress(r)' BY <2>1, <2>2, <3>1, <3>2, <3>3 DEF Progress
      <3> QED BY <1>6, <2>4, <3>1, <3>4
    <2> QED BY <2>5, <2>6
  <1>12. CASE VerifyCore(r)
    <2>1. hp[r].pc = "verify" /\ files' = files /\ db' = db /\ svc' = svc /\ req' = req
      BY <1>12 DEF VerifyCore, At, docker
    <2>2. NewMigrated' BY <1>5, <2>1 DEF NewMigrated
    <2>3. CASE hp'[r].pc = "fail" BY <1>6, <1>9, <2>2, <2>3
    <2>4. CASE hp'[r].pc # "fail"
      <3>1. Ready(FALSE) /\ hp'[r].pc = "worker" BY <1>7, <1>8, <1>12, <2>4 DEF VerifyCore, writeStatus, Pcs
      <3>2. db = "new" BY <1>5, <2>1, <3>1 DEF Ready, Healthy, NewMigrated, Progress, Writers
      <3>3. Progress(r)' BY <1>5, <2>1, <3>1, <3>2 DEF Progress
      <3> QED BY <1>6, <2>2, <3>1, <3>3
    <2> QED BY <2>3, <2>4
  <1>13. CASE startUpdatedWorker(r)
    <2>1. hp[r].pc = "worker" /\ files' = files /\ db' = db /\ req' = req BY <1>13 DEF startUpdatedWorker, At, disk
    <2>2. db = "new" /\ files = "new" /\ svc["app"].ver = "new" /\ svc["engine"].ver = "new"
      BY <1>5, <2>1 DEF Progress
    <2>3. NewMigrated' BY <2>1, <2>2 DEF NewMigrated
    <2>4. CASE hp'[r].pc = "fail" BY <1>6, <1>9, <2>3, <2>4
    <2>5. CASE hp'[r].pc # "fail"
      <3>1. svc' = Recreated({"worker"}, "new") /\ hp'[r].pc = "verifyAll"
        BY <1>7, <1>13, <2>5 DEF startUpdatedWorker, Pcs
      <3>2. svc'["app"].ver = "new" /\ svc'["engine"].ver = "new" /\ svc'["worker"].ver = "new"
        BY <2>2, <3>1 DEF Recreated, Services
      <3>3. Progress(r)' BY <1>5, <2>1, <2>2, <3>1, <3>2 DEF Progress
      <3> QED BY <1>6, <2>3, <3>1, <3>3
    <2> QED BY <2>4, <2>5
  <1>14. CASE VerifyAll(r)
    <2>1. hp[r].pc = "verifyAll" /\ files' = files /\ db' = db /\ req' = req BY <1>14 DEF VerifyAll, At, disk
    <2>2. db = "new" /\ hp'[r].pc \in {"fail", "finish"} BY <1>5, <1>7, <1>14, <2>1 DEF Progress, VerifyAll, Pcs
    <2>3. NewMigrated' BY <2>1, <2>2 DEF NewMigrated
    <2>4. \A c \in Services : svc'[c].ver = svc[c].ver
      <3>1. CASE svc' = svc BY <3>1
      <3>2. CASE Resume(r) BY <1>0, <3>1, <3>2 DEF Resume, Containers
      <3> QED BY <1>14, <3>1, <3>2 DEF VerifyAll, docker
    <2>5. Progress(r)' BY <1>5, <2>1, <2>2, <2>4 DEF Progress, Services
    <2> QED BY <1>6, <2>2, <2>3, <2>5
  <1>15. CASE Succeed(r)
    <2>1. hp[r].pc = "finish" /\ files' = files /\ db' = db /\ svc' = svc /\ req' = req
      BY <1>15 DEF Succeed, At, disk, docker
    <2>2. NewMigrated' BY <1>5, <2>1 DEF NewMigrated
    <2>3. CASE hp'[r].pc = "fail" BY <1>6, <1>9, <2>2, <2>3
    <2>4. CASE hp'[r].pc # "fail"
      <3>1. status' = [state |-> "succeeded", tells |-> "nothing"] /\ Exit(r, "ended")
        BY <1>7, <1>15, <2>4 DEF Succeed, Pcs
      <3>2. hp'[r].pc = "ended" /\ Fresh(hp'[r]) BY <1>0, <3>1, ExitMoves
      <3>3. Installed("new")' /\ \A q \in Requests : req'[q] \in {"idle", "done"}
        BY <1>5, <2>1 DEF Progress, Installed, Services, Release
      <3> QED BY <2>2, <3>1, <3>2, <3>3 DEF Settles, Progress, Restored, Fresh
    <2> QED BY <2>3, <2>4
  <1> QED
    BY <1>10, <1>11, <1>12, <1>13, <1>14, <1>15
    DEF HelperStep, downloadAndVerify, extractRelease, ListWorkloads, StopNext, stopWorkloads, ArchiveConfig,
        saveImages, archiveVolumes, dumpPostgres, WriteManifest, SetAside, Promote, UndoAside, DropPrevious,
        BeginApply, HandleFailure, stopCurrentPanelWriters, loadSnapshotImages, RestoreConfig, restorePostgres,
        RecreatePrior, VerifyPrior, ResumeStopped, RecordFailure, At, Installing

\* A rollback that misses no writer restores the old release, and a failure is recorded as
\* what it was.
LEMMA FailureSettles ==
  ASSUME SnapshotInv, Remembers, Consistent, NEW r \in Requests, HelperStep(r), odd' = {},
         hp[r].pc \in RollingBack \cup {"fail", "resume", "record"}
  PROVE  Settles(r)
  <1>0. hp \in [Requests -> Helper] /\ hp[r] \in Helper /\ svc \in Containers
    BY TypeParts DEF SnapshotInv, OthersTyped
  <1>1. /\ hp[r].applyStarted \in BOOLEAN /\ hp[r].rolledBack \in BOOLEAN /\ hp[r].snapshotReady \in BOOLEAN
    BY <1>0 DEF Helper
  <1>2. Moves(r) /\ StatusMove(r) BY HelperMoves, StatusMoves DEF SnapshotInv
  <1>3. /\ hp[r].pc \in RollingBack => hp[r].applyStarted = TRUE /\ hp[r].snapshotReady = TRUE
        /\ hp[r].rolledBack = TRUE => hp[r].pc \in {"resume", "record"} /\ hp[r].applyStarted = TRUE
        /\ hp[r].pc = "resume" => hp[r].applyStarted = hp[r].rolledBack
    BY DEF Remembers
  <1>4. panelUpdateActive(status.state) /\ Busy(r) BY HelperAlone DEF Consistent
  <1>5. NewMigrated /\ Restored(r) /\ Good(snap.current) /\ Snapshots(r) BY DEF Consistent, Own
  <1>6. hp[r].applyStarted = FALSE \/ hp[r].rolledBack = TRUE => Installed("old")
    BY <1>4, <1>5 DEF Consistent, Settled, Restored
  <1>7. ASSUME hp'[r].pc # "ended", hp[r].pc # "record", NewMigrated', Restored(r)',
               hp'[r].applyStarted = FALSE => Installed("old")'
        PROVE  Settles(r)
    <2>1. hp'[r].pc \notin {"files", "compose", "verify", "worker", "verifyAll", "finish"}
      BY <1>2 DEF Moves, Edge, RollingBack
    <2>2. Progress(r)' BY <2>1 DEF Progress
    <2>3. panelUpdateActive(status'.state) BY <1>2, <1>4, <1>7 DEF StatusMove, panelUpdateActive
    <2> QED BY <1>7, <2>2, <2>3 DEF Settles, panelUpdateActive
  <1>8. \A q \in Pcs : Goto(r, q) => hp'[r].pc = q /\ SameMemory(r) BY <1>0, GotoMoves
  <1>9. hp[r].pc \in RollingBack \ {"verifyOld"} => hp'[r].applyStarted = TRUE /\ hp'[r].rolledBack = FALSE
    BY <1>1, <1>2, <1>3 DEF Moves, SameMemory, RollingBack
  <1>10. ASSUME hp'[r].pc = "record", hp[r].pc \in RollingBack, NewMigrated' PROVE Settles(r)
    <2>1. hp'[r].applyStarted = TRUE /\ hp'[r].rolledBack = FALSE
      BY <1>1, <1>2, <1>3, <1>10 DEF Moves, SameMemory, RollingBack
    <2>2. Restored(r)' BY <1>10, <2>1 DEF Restored
    <2>3. hp'[r].pc # "ended" /\ hp[r].pc # "record" BY <1>10 DEF RollingBack
    <2> QED BY <1>7, <1>10, <2>1, <2>2, <2>3
  <1>11. RollbackFails(r) => hp'[r].pc = "record" BY <1>8 DEF RollbackFails, Pcs
  <1>12. CASE HandleFailure(r)
    <2>1. hp[r].pc = "fail" /\ files' = files /\ db' = db /\ svc' = svc BY <1>12 DEF HandleFailure, At, disk, docker
    <2>2. hp'[r].pc \in {"stopWriters", "resume", "record"} /\ SameMemory(r)
      <3>1. CASE NeedsRollback(r) BY <1>8, <1>12, <3>1 DEF HandleFailure, Pcs
      <3>2. CASE ~NeedsRollback(r) /\ ~hp[r].applyStarted BY <1>8, <1>12, <3>2 DEF HandleFailure, Pcs
      <3>3. CASE ~NeedsRollback(r) /\ hp[r].applyStarted BY <1>8, <1>12, <3>3 DEF HandleFailure, Pcs
      <3> QED BY <3>1, <3>2, <3>3
    <2>3. NewMigrated' BY <1>5, <2>1 DEF NewMigrated
    <2>4. hp'[r].rolledBack = FALSE BY <1>1, <1>3, <2>1, <2>2 DEF SameMemory
    <2>5. Restored(r)' BY <2>2, <2>4 DEF Restored
    <2>6. hp'[r].applyStarted = FALSE => Installed("old")' BY <1>6, <2>1, <2>2 DEF SameMemory, Installed
    <2> QED BY <1>7, <2>1, <2>2, <2>3, <2>5, <2>6
  <1>13. CASE stopCurrentPanelWriters(r)
    <2>1. hp[r].pc = "stopWriters" /\ files' = files /\ db' = db BY <1>13 DEF stopCurrentPanelWriters, At, disk
    <2>2. CASE RollbackFails(r)
      <3>1. \A c \in Writers : svc'[c] = svc[c] \/ svc'[c].st = "stopped"
        <4>1. \A c \in Writers : c \in Services BY DEF Writers, Services
        <4> QED BY <1>0, <1>13, <4>1 DEF stopCurrentPanelWriters, Containers
      <3>2. NewMigrated' BY <1>5, <2>1, <3>1 DEF NewMigrated
      <3> QED BY <1>10, <1>11, <2>1, <2>2, <3>2 DEF RollingBack
    <2>3. CASE ~RollbackFails(r)
      <3>1. /\ svc' = [c \in Services |-> IF c \in Writers /\ Running(c)
                                          THEN [svc[c] EXCEPT !.st = "stopped"] ELSE svc[c]]
            /\ odd' = IF \E c \in Writers : svc[c].st = "looping" THEN odd \cup {"looping"} ELSE odd
            /\ Goto(r, "images")
        BY <1>13, <2>3 DEF stopCurrentPanelWriters
      <3>2. \A c \in Writers : svc[c].st # "looping" BY <3>1
      <3>3. \A c \in Writers : svc'[c].st = "stopped"
        BY <1>0, <3>1, <3>2 DEF Containers, Writers, Services, Running
      <3>4. NewMigrated' BY <3>3 DEF NewMigrated
      <3>5. hp'[r].pc = "images" BY <1>8, <3>1 DEF Pcs
      <3>6. hp'[r].applyStarted = TRUE /\ hp'[r].rolledBack = FALSE BY <1>9, <2>1 DEF RollingBack
      <3>7. Restored(r)' BY <3>3, <3>5, <3>6 DEF Restored
      <3> QED BY <1>7, <2>1, <3>4, <3>5, <3>6, <3>7
    <2> QED BY <2>2, <2>3
  <1>14. CASE loadSnapshotImages(r)
    <2>1. hp[r].pc = "images" /\ files' = files /\ db' = db /\ svc' = svc
      BY <1>14 DEF loadSnapshotImages, At, disk, docker
    <2>2. NewMigrated' BY <1>5, <2>1 DEF NewMigrated
    <2>3. CASE RollbackFails(r) BY <1>10, <1>11, <2>1, <2>2, <2>3 DEF RollingBack
    <2>4. CASE Goto(r, "restoreConfig")
      <3>1. hp'[r].pc = "restoreConfig" /\ hp'[r].applyStarted = TRUE /\ hp'[r].rolledBack = FALSE
        BY <1>8, <1>9, <2>1, <2>4 DEF Pcs, RollingBack
      <3>2. Restored(r)' BY <1>5, <2>1, <3>1 DEF Restored
      <3> QED BY <1>7, <2>1, <2>2, <3>1, <3>2
    <2> QED BY <1>14, <2>3, <2>4 DEF loadSnapshotImages
  <1>15. CASE RestoreConfig(r)
    <2>1. hp[r].pc = "restoreConfig" /\ db' = db /\ svc' = svc BY <1>15 DEF RestoreConfig, At, docker
    <2>2. NewMigrated' BY <1>5, <2>1 DEF NewMigrated
    <2>3. CASE RollbackFails(r) BY <1>10, <1>11, <2>1, <2>2, <2>3 DEF RollingBack
    <2>4. CASE Goto(r, "restoreDb") /\ files' \in Beside(snap.current.files, files)
      <3>1. hp'[r].pc = "restoreDb" /\ hp'[r].applyStarted = TRUE /\ hp'[r].rolledBack = FALSE
        BY <1>8, <1>9, <2>1, <2>4 DEF Pcs, RollingBack
      <3>2. Release(files') = "old"
        BY <1>3, <1>5, <2>1, <2>4 DEF Snapshots, Good, RollingBack, Beside, Release
      <3>3. Restored(r)' BY <1>5, <2>1, <3>1, <3>2 DEF Restored
      <3> QED BY <1>7, <2>1, <2>2, <3>1, <3>3
    <2> QED BY <1>15, <2>3, <2>4 DEF RestoreConfig
  <1>16. CASE restorePostgres(r)
    <2>1. hp[r].pc = "restoreDb" /\ files' = files /\ svc' = svc BY <1>16 DEF restorePostgres, At, docker
    <2>2. \A c \in Writers : svc'[c].st = "stopped" BY <1>5, <2>1 DEF Restored
    <2>3. NewMigrated' BY <2>2 DEF NewMigrated
    <2>4. CASE RollbackFails(r) BY <1>10, <1>11, <2>1, <2>3, <2>4 DEF RollingBack
    <2>5. CASE Goto(r, "recreate") /\ db' \in Beside(snap.current.db, db)
      <3>1. hp'[r].pc = "recreate" /\ hp'[r].applyStarted = TRUE /\ hp'[r].rolledBack = FALSE
        BY <1>8, <1>9, <2>1, <2>5 DEF Pcs, RollingBack
      <3>2. Release(db') = "old"
        BY <1>3, <1>5, <2>1, <2>5 DEF Snapshots, Good, RollingBack, Beside, Release
      <3>3. Restored(r)' BY <1>5, <2>1, <2>2, <3>1, <3>2 DEF Restored
      <3> QED BY <1>7, <2>1, <2>3, <3>1, <3>3
    <2>6. CASE Goto(r, "record")
      <3>1. hp'[r].pc = "record" BY <1>8, <2>6 DEF Pcs
      <3> QED BY <1>10, <2>1, <2>3, <3>1 DEF RollingBack
    <2> QED BY <1>16, <2>4, <2>5, <2>6 DEF restorePostgres
  <1>17. CASE RecreatePrior(r)
    <2>1. hp[r].pc = "recreate" /\ files' = files /\ db' = db BY <1>17 DEF RecreatePrior, At, disk
    <2>2. Release(files) = "old" /\ Release(db) = "old" /\ \A c \in Writers : svc[c].st = "stopped" BY <1>5, <2>1 DEF Restored
    <2>3. \A cs, v : svc' = Recreated(cs, v) => NewMigrated'
      BY <2>2 DEF Recreated, NewMigrated, Writers, Services
    <2>4. NewMigrated' BY <1>17, <2>3 DEF RecreatePrior
    <2>5. CASE RollbackFails(r) BY <1>10, <1>11, <2>1, <2>4, <2>5 DEF RollingBack
    <2>6. CASE svc' = Recreated(Services, EnvironmentVersion) /\ Goto(r, "verifyOld")
      <3>1. hp'[r].pc = "verifyOld" /\ hp'[r].applyStarted = TRUE /\ hp'[r].rolledBack = FALSE
        BY <1>8, <1>9, <2>1, <2>6 DEF Pcs, RollingBack
      <3>2. files # "new" BY <2>2 DEF Release
      <3>3. Installed("old")' BY <2>1, <2>2, <2>6, <3>2 DEF Recreated, EnvironmentVersion, Installed
      <3>4. Restored(r)' BY <3>1, <3>3 DEF Restored
      <3> QED BY <1>7, <2>1, <2>4, <3>1, <3>4
    <2> QED BY <1>17, <2>5, <2>6 DEF RecreatePrior
  <1>18. CASE VerifyPrior(r)
    <2>1. hp[r].pc = "verifyOld" /\ files' = files /\ db' = db /\ svc' = svc BY <1>18 DEF VerifyPrior, At, disk, docker
    <2>2. Installed("old")' BY <1>5, <2>1 DEF Restored, Installed
    <2>3. NewMigrated' BY <1>5, <2>1 DEF NewMigrated
    <2>4. hp'[r].pc \in {"resume", "record"} BY <1>2, <2>1 DEF Moves, Edge, Early, Filling, Installing
    <2>5. Restored(r)' BY <2>2, <2>4 DEF Restored
    <2> QED BY <1>7, <2>1, <2>2, <2>3, <2>4, <2>5
  <1>19. CASE ResumeStopped(r)
    <2>1. /\ hp[r].pc = "resume" /\ files' = files /\ db' = db /\ hp'[r].pc = "record" /\ Resume(r)
      BY <1>8, <1>19 DEF ResumeStopped, At, disk, Pcs
    <2>2. Installed("old") BY <1>1, <1>3, <1>6, <2>1
    <2>3. \A c \in Services : svc'[c].ver = svc[c].ver BY <1>0, <2>1 DEF Resume, Containers
    <2>4. Installed("old")' BY <2>1, <2>2, <2>3 DEF Installed
    <2>5. NewMigrated' BY <2>4 DEF NewMigrated, Installed, Writers, Services
    <2>6. Restored(r)' BY <2>1, <2>4 DEF Restored
    <2> QED BY <1>7, <2>1, <2>4, <2>5, <2>6
  <1>20. CASE RecordFailure(r)
    <2>1. /\ hp[r].pc = "record" /\ files' = files /\ db' = db /\ svc' = svc /\ Exit(r, "ended")
          /\ odd' = IF hp[r].applyStarted /\ ~hp[r].rolledBack THEN odd \cup {"unrestored"} ELSE odd
          /\ status' = status \/ status' = [state |-> "failed", tells |-> Tells(r)]
      BY <1>20 DEF RecordFailure, At, disk, docker
    <2>2. Installed("old") BY <1>1, <1>6, <2>1
    <2>3. Installed("old")' BY <2>1, <2>2 DEF Installed
    <2>4. NewMigrated' BY <1>5, <2>1 DEF NewMigrated
    <2>5. hp'[r].pc = "ended" /\ Fresh(hp'[r]) BY <1>0, <2>1, ExitMoves
    <2>6. Progress(r)' /\ Restored(r)' BY <2>5 DEF Progress, Restored, Fresh
    <2>7. status'.state # "succeeded" BY <1>4, <2>1 DEF panelUpdateActive
    <2> QED BY <2>3, <2>4, <2>5, <2>6, <2>7 DEF Settles
  <1> QED
    BY <1>12, <1>13, <1>14, <1>15, <1>16, <1>17, <1>18, <1>19, <1>20
    DEF HelperStep, downloadAndVerify, extractRelease, ListWorkloads, StopNext, stopWorkloads, ArchiveConfig,
        saveImages, archiveVolumes, dumpPostgres, WriteManifest, SetAside, Promote, UndoAside, DropPrevious,
        BeginApply, CopyFiles, ComposeUp, VerifyCore, startUpdatedWorker, VerifyAll, Succeed, At, RollingBack

\* Whatever a helper does, the installation stays consistent.
LEMMA HelperConsistent ==
  ASSUME UpdateInv, odd = {}, NEW r \in Requests, HelperStep(r), odd' = {}
  PROVE  Consistent'
  <1>1. SnapshotInv /\ Remembers /\ NothingAside /\ OldBoots /\ Consistent BY DEF UpdateInv
  <1>2. Moves(r) /\ hp' \in [Requests -> Helper] BY <1>1, HelperMoves DEF SnapshotInv
  <1>3. Settles(r)
    <2>1. hp[r].pc \in Early \cup {"apply"} \cup Installing \cup RollingBack \cup {"fail", "resume", "record"}
      BY <1>2 DEF Moves, Edge, Early, Filling, Installing, RollingBack
    <2> QED BY <1>1, <2>1, EarlySettles, InstallingSettles, FailureSettles
  <1>4. /\ panelUpdateActive(status.state)
        /\ \A o \in Requests \ {r} : hp[o].pc \in {"none", "ended", "killed"} /\ hp'[o] = hp[o] /\ ~Busy(o)'
        /\ OneBusy' /\ BusyShows'
        /\ Busy(r)' <=> hp'[r].pc # "ended"
    BY <1>1, HelperAlone DEF Consistent
  <1>5. Good(snap.current)' /\ Snapshots(r)' BY <1>1, HelperSnapshots
  <1>6. Stopping(r)'
    <2>1. hp[r].pc \in Early => \A c \in Services : svc[c].ver = "old" BY <1>1, BeforeInstalling DEF Installed
    <2>2. Stopping(r) BY <1>1 DEF Consistent, Own
    <2> QED BY <1>1, <2>1, <2>2, StoppingStep DEF SnapshotInv
  <1>7. Remembers' BY <1>1, RemembersHelper DEF SnapshotInv
  <1>8. \A o \in Requests : Own(o)'
    <2>1. Own(r)' BY <1>3, <1>5, <1>6 DEF Own, Settles
    <2>2. \A o \in Requests \ {r} : Own(o)' BY <1>4, <1>7, IdleOwns
    <2> QED BY <2>1, <2>2
  <1>9. Settled'
    <2>1. status'.state # "idle"
      <3>1. StatusMove(r) BY <1>1, StatusMoves DEF SnapshotInv
      <3> QED BY <1>4, <3>1 DEF StatusMove, panelUpdateActive
    <2>2. hp'[r].applyStarted \in BOOLEAN BY <1>2 DEF Helper
    <2>3. \A o \in Requests : Busy(o)' /\ ~hp'[o].applyStarted => Installed("old")'
      BY <1>3, <1>4, <2>2 DEF Settles
    <2> QED BY <1>3, <2>1, <2>3 DEF Settles, Settled
  <1> QED BY <1>3, <1>4, <1>5, <1>8, <1>9 DEF Consistent, Settles

\* A request that waits for its helper is the only one, and no helper is at work.
LEMMA RequestAlone ==
  ASSUME SnapshotInv, Remembers, Consistent, NEW r \in Requests, req[r] \in {"queued", "planned", "created"}
  PROVE  /\ Installed("old") /\ panelUpdateActive(status.state)
         /\ \A o \in Requests : hp[o].pc \in {"none", "ended", "killed"}
         /\ \A o \in Requests \ {r} : ~Busy(o)
  <1>1. Busy(r) BY DEF Busy
  <1>2. hp[r] = NoHelper BY DEF SnapshotInv, NotStarted
  <1>3. hp[r].pc = "none" /\ hp[r].applyStarted = FALSE BY <1>2, HelperTyped DEF Fresh
  <1>4. \A o \in Requests \ {r} : ~Busy(o) BY <1>1 DEF Consistent, OneBusy
  <1> QED BY <1>1, <1>3, <1>4 DEF Consistent, Settled, BusyShows, Busy, Active

\* The steps of a request keep the installation consistent.
LEMMA RequestConsistent ==
  ASSUME UpdateInv, odd = {}, odd' = {}, NEW r \in Requests, ReadStatus(r) \/ RequestStep(r)
  PROVE  Consistent'
  <1>1. SnapshotInv /\ Remembers /\ Consistent BY DEF UpdateInv
  <1>2. Remembers' BY <1>1, RemembersOthers
  <1>3. hp \in [Requests -> Helper] /\ req \in [Requests -> RequestSteps]
    BY <1>1, TypeParts DEF SnapshotInv, OthersTyped
  <1>4. snap' = snap /\ files' = files /\ db' = db /\ svc' = svc /\ srv' = srv /\ touched' = touched
    BY DEF ReadStatus, RequestStep, WriteQueued, WritePlan, CreateHelper, StartHelper, disk, docker, history
  <1>5. \A v : Installed(v)' <=> Installed(v) BY <1>4 DEF Installed
  <1>6. NewMigrated' /\ Good(snap.current)' BY <1>1, <1>4 DEF Consistent, NewMigrated, Good
  <1>7. \A o \in Requests \ {r} : req'[o] = req[o]
    BY <1>3 DEF ReadStatus, RequestStep, WriteQueued, WritePlan, CreateHelper, StartHelper, markPanelUpdateLaunchFailed
  <1>8. ASSUME hp' = hp, status' = status, req[r] \in {"idle", "checked"}, req'[r] \in {"checked", "done"},
               req'[r] = "checked" => UpdateAvailable
        PROVE  Consistent'
    <2>1. \A o \in Requests : Busy(o)' <=> Busy(o) BY <1>7, <1>8 DEF Busy, Active
    <2>2. OneBusy' /\ BusyShows' BY <1>1, <1>8, <2>1 DEF Consistent, OneBusy, BusyShows
    <2>3. Settled'
      <3>1. status.state = "succeeded" => req'[r] # "checked"
        BY <1>1, <1>8 DEF Consistent, Settled, Installed, UpdateAvailable, Services
      <3> QED BY <1>1, <1>5, <1>7, <1>8, <2>1, <3>1 DEF Consistent, Settled
    <2>4. \A o \in Requests : Own(o)'
      <3> SUFFICES ASSUME NEW o \in Requests PROVE Own(o)' OBVIOUS
      <3>1. Own(o) BY <1>1 DEF Consistent
      <3>2. Progress(o)'
        <4>1. hp[o].pc \in {"verify", "worker", "verifyAll", "finish"} => req'[r] # "checked"
          BY <1>8, <3>1 DEF Own, Progress, UpdateAvailable
        <4> QED BY <1>4, <1>5, <1>7, <1>8, <3>1, <4>1 DEF Own, Progress
      <3>3. Restored(o)' BY <1>4, <1>5, <1>8, <3>1 DEF Own, Restored
      <3>4. Stopping(o)' BY <1>4, <1>8, <3>1 DEF Own, Stopping, Live, Awake
      <3>5. Snapshots(o)' BY <1>4, <1>8, <3>1 DEF Own, Snapshots, Good
      <3> QED BY <3>2, <3>3, <3>4, <3>5 DEF Own
    <2> QED BY <1>6, <2>2, <2>3, <2>4 DEF Consistent
  <1>9. ASSUME Installed("old"), \A o \in Requests \ {r} : ~Busy(o),
               \A o \in Requests \ {r} : hp'[o] = hp[o], status'.state # "succeeded",
               Busy(r)' => panelUpdateActive(status'.state), \A o \in Requests : Own(o)'
        PROVE  Consistent'
    <2>1. \A o \in Requests \ {r} : ~Busy(o)' BY <1>7, <1>9 DEF Busy, Active
    <2>2. OneBusy' /\ BusyShows' BY <1>9, <2>1 DEF OneBusy, BusyShows
    <2>3. Settled' BY <1>5, <1>9 DEF Settled
    <2> QED BY <1>6, <1>9, <2>2, <2>3 DEF Consistent
  <1>10. CASE ReadStatus(r) BY <1>3, <1>8, <1>10 DEF ReadStatus
  <1>11. CASE WriteQueued(r)
    <2>1. CASE status' = status /\ req' = [req EXCEPT ![r] = "done"]
      <3>1. req[r] = "checked" /\ req'[r] = "done" /\ hp' = hp BY <1>3, <1>11, <2>1 DEF WriteQueued
      <3> QED BY <1>8, <2>1, <3>1
    <2>2. CASE ~(status' = status /\ req' = [req EXCEPT ![r] = "done"])
      <3>1. /\ req[r] = "checked" /\ hp' = hp /\ status' = [state |-> "queued", tells |-> "nothing"]
            /\ odd' = IF panelUpdateActive(status.state) THEN odd \cup {"overlap"} ELSE odd
        BY <1>11, <2>2 DEF WriteQueued
      <3>2. ~panelUpdateActive(status.state) BY <3>1
      <3>3. \A o \in Requests : ~Busy(o) BY <1>1, <3>2 DEF Consistent, BusyShows
      <3>4. status.state \in {"idle", "failed", "succeeded"}
        <4>1. status \in Status BY <1>1 DEF SnapshotInv, TypeOK
        <4> QED BY <3>2, <4>1 DEF Status, panelUpdateActive
      <3>5. Installed("old") BY <1>1, <3>1, <3>4 DEF Consistent, Settled
      <3>6. \A o \in Requests : hp'[o].pc \in {"none", "ended", "killed"} BY <3>1, <3>3 DEF Busy, Active
      <3>7. \A o \in Requests : Own(o)' BY <1>2, <3>6, IdleOwns
      <3> QED BY <1>9, <3>1, <3>3, <3>5, <3>7 DEF panelUpdateActive
    <2> QED BY <2>1, <2>2
  <1>12. CASE WritePlan(r) \/ CreateHelper(r) \/ (StartHelper(r) /\ hp' = hp)
    <2>1. req[r] \in {"queued", "planned", "created"} /\ hp' = hp
      BY <1>12 DEF WritePlan, CreateHelper, StartHelper
    <2>2. /\ Installed("old") /\ panelUpdateActive(status.state)
          /\ \A o \in Requests : hp[o].pc \in {"none", "ended", "killed"}
          /\ \A o \in Requests \ {r} : ~Busy(o)
      BY <1>1, <2>1, RequestAlone
    <2>3. \A o \in Requests : Own(o)' BY <1>2, <2>1, <2>2, IdleOwns
    <2>4. status'.state # "succeeded"
      BY <1>12, <2>2 DEF WritePlan, CreateHelper, StartHelper, markPanelUpdateLaunchFailed, panelUpdateActive
    <2>5. Busy(r)' => panelUpdateActive(status'.state)
      <3>1. Busy(r)' => req'[r] # "done" BY <2>1, <2>2 DEF Busy, Active
      <3>2. req'[r] = "done" \/ status' = status \/ panelUpdateActive(status'.state)
        BY <1>3, <1>12 DEF WritePlan, CreateHelper, StartHelper, markPanelUpdateLaunchFailed, panelUpdateActive
      <3> QED BY <2>2, <3>1, <3>2
    <2> QED BY <1>9, <2>1, <2>2, <2>3, <2>4, <2>5
  <1>13. CASE StartHelper(r) /\ hp' # hp
    <2>1. req[r] = "created" /\ req'[r] = "done" BY <1>3, <1>13 DEF StartHelper, markPanelUpdateLaunchFailed
    <2>2. /\ Installed("old") /\ panelUpdateActive(status.state)
          /\ \A o \in Requests : hp[o].pc \in {"none", "ended", "killed"}
          /\ \A o \in Requests \ {r} : ~Busy(o)
      BY <1>1, <2>1, RequestAlone
    <2>3. panelUpdateActive(status'.state)
      BY <1>13, <2>2 DEF StartHelper, markPanelUpdateLaunchFailed, panelUpdateActive
    <2>4. hp'[r].pc \in {"download", "ended"} /\ Fresh(hp'[r]) /\ \A o \in Requests \ {r} : hp'[o] = hp[o]
      <3>1. CASE Exit(r, "ended") BY <1>3, <3>1, ExitMoves
      <3>2. CASE hp' = [hp EXCEPT ![r].pc = "download"]
        <4>1. hp[r] = NoHelper BY <1>1, <2>1 DEF SnapshotInv, NotStarted
        <4> DEFINE h == [NoHelper EXCEPT !.pc = "download"]
        <4>2. h.pc = "download" /\ Fresh(h) BY HelperTyped
        <4> HIDE DEF h
        <4>3. hp' = [hp EXCEPT ![r] = h] BY <1>3, <3>2, <4>1 DEF h
        <4> QED BY <1>3, <4>2, <4>3
      <3> QED BY <1>13, <3>1, <3>2 DEF StartHelper
    <2>5. Own(r)' BY <2>4 DEF Own, Progress, Restored, Stopping, Snapshots, Fresh, Filling
    <2>6. \A o \in Requests \ {r} : Own(o)' BY <1>2, <2>2, <2>4, IdleOwns
    <2> QED BY <1>9, <2>2, <2>3, <2>4, <2>5, <2>6 DEF panelUpdateActive
  <1> QED BY <1>10, <1>11, <1>12, <1>13 DEF RequestStep

\* A helper that is killed leaves the status "running" behind, and no one at work.
LEMMA CrashConsistent ==
  ASSUME UpdateInv, odd = {}, NEW r \in Requests, Crash(r)
  PROVE  Consistent'
  <1>1. SnapshotInv /\ Remembers /\ Consistent BY DEF UpdateInv
  <1>2. Remembers' BY <1>1, RemembersOthers
  <1>3. hp \in [Requests -> Helper] BY <1>1 DEF SnapshotInv, TypeOK
  <1>4. /\ snap' = snap /\ files' = files /\ db' = db /\ svc' = svc /\ req' = req /\ status' = status
        /\ Active(r) /\ Exit(r, "killed")
    BY DEF Crash, disk, docker
  <1>5. hp'[r].pc = "killed" /\ \A o \in Requests \ {r} : hp'[o] = hp[o] BY <1>3, <1>4, ExitMoves
  <1>6. Busy(r) /\ panelUpdateActive(status.state) BY <1>1, <1>4 DEF Busy, Consistent, BusyShows
  <1>7. \A o \in Requests \ {r} : ~Busy(o) BY <1>1, <1>6 DEF Consistent, OneBusy
  <1>8. req[r] = "done"
    <2>1. hp[r] # NoHelper BY <1>4, HelperTyped DEF Active
    <2> QED BY <1>1, <2>1 DEF SnapshotInv, NotStarted
  <1>9. \A o \in Requests : ~Busy(o)' BY <1>4, <1>5, <1>7, <1>8 DEF Busy, Active
  <1>10. \A o \in Requests : hp'[o].pc \in {"none", "ended", "killed"} BY <1>9 DEF Busy, Active
  <1>11. \A o \in Requests : Own(o)' BY <1>2, <1>10, IdleOwns
  <1>12. Settled' BY <1>4, <1>6, <1>9 DEF Settled, panelUpdateActive
  <1> QED BY <1>1, <1>4, <1>9, <1>11, <1>12 DEF Consistent, OneBusy, BusyShows, NewMigrated, Good

\* The services boot and are restarted: the database moves to the new release when a service
\* of the new release is there.
LEMMA ServiceConsistent ==
  ASSUME UpdateInv, odd = {}, NEW c \in Services, Boot(c) \/ Restart(c)
  PROVE  Consistent'
  <1>1. SnapshotInv /\ Remembers /\ Consistent BY DEF UpdateInv
  <1>2. svc \in Containers BY <1>1, TypeParts DEF SnapshotInv, OthersTyped
  <1>3. /\ snap' = snap /\ files' = files /\ req' = req /\ status' = status /\ hp' = hp /\ srv' = srv
        /\ touched' = touched /\ svc[c].st \in {"booting", "looping"}
        /\ db' \in {db, Migrated(c)}
    BY DEF Boot, Restart, disk, history
  <1>4. /\ \A d \in Services : svc'[d].ver = svc[d].ver
        /\ \A d \in Services \ {c} : svc'[d] = svc[d]
        /\ svc'[c].st # "stopped"
        /\ svc'[c].st = "up" => db' = Migrated(c)
    BY <1>2 DEF Boot, Restart, Containers
  <1>5. \A d \in Services : svc'[d].st = "stopped" <=> svc[d].st = "stopped" BY <1>3, <1>4
  <1>6. /\ db = "new" => db' = "new"
        /\ (\A d \in Services : svc[d].ver = "old") => db' = db
        /\ (\A d \in Writers : svc[d].st = "stopped") => db' = db
    BY <1>3 DEF Migrated
  <1>7. NewMigrated'
    <2> SUFFICES ASSUME NEW d \in Writers, svc'[d].ver = "new", svc'[d].st = "up" PROVE db' = "new"
      BY DEF NewMigrated
    <2>1. d \in Services BY DEF Services, Writers
    <2>2. CASE d = c BY <1>4, <2>1, <2>2 DEF Migrated
    <2>3. CASE d # c BY <1>1, <1>4, <1>6, <2>1, <2>3 DEF Consistent, NewMigrated
    <2> QED BY <2>2, <2>3
  <1>8. Installed("old") => Installed("old")' BY <1>3, <1>4, <1>6 DEF Installed
  <1>9. Installed("new") => Installed("new")' BY <1>3, <1>4, <1>6 DEF Installed, Release
  <1>10. OneBusy' /\ BusyShows' BY <1>1, <1>3 DEF Consistent, OneBusy, BusyShows, Busy, Active
  <1>11. Settled' BY <1>1, <1>3, <1>8, <1>9 DEF Consistent, Settled, Busy, Active
  <1>12. \A o \in Requests : Own(o)'
    <2> SUFFICES ASSUME NEW o \in Requests PROVE Own(o)' OBVIOUS
    <2>1. Own(o) BY <1>1 DEF Consistent
    <2>2. Progress(o)' BY <1>3, <1>4, <1>6, <1>8, <2>1 DEF Own, Progress, Services
    <2>3. Restored(o)'
      <3>1. \A d \in Writers : d \in Services BY DEF Writers, Services
      <3> QED BY <1>3, <1>5, <1>6, <1>8, <2>1, <3>1 DEF Own, Restored
    <2>4. Live' = Live BY <1>3, <1>5 DEF Live, Awake, Writers, Services
    <2>5. Stopping(o)' BY <1>3, <2>1, <2>4 DEF Own, Stopping
    <2>6. Snapshots(o)' BY <1>3, <2>1 DEF Own, Snapshots, Good
    <2> QED BY <2>2, <2>3, <2>5, <2>6 DEF Own
  <1> QED BY <1>1, <1>3, <1>7, <1>10, <1>11, <1>12 DEF Consistent, Good

\* Game servers are started and stopped, and restarted, while an update runs.
LEMMA ServerConsistent ==
  ASSUME UpdateInv, odd = {}, NEW s \in Servers, ServerStep(s)
  PROVE  Consistent'
  <1>1. Consistent BY DEF UpdateInv
  <1>2. snap' = snap /\ files' = files /\ db' = db /\ svc' = svc /\ req' = req /\ status' = status /\ hp' = hp
    BY ServerStepKeeps
  <1>3. \A v : Installed(v)' <=> Installed(v) BY <1>2 DEF Installed
  <1>4. \A o \in Requests : Own(o)'
    <2> SUFFICES ASSUME NEW o \in Requests PROVE Own(o)' OBVIOUS
    <2>1. Own(o) BY <1>1 DEF Consistent
    <2>2. Active(o) => Live' \subseteq Live
      <3>1. srv \in Powers /\ touched \subseteq Servers BY TypeParts DEF UpdateInv, SnapshotInv, OthersTyped
      <3>2. Active(o) => touched \subseteq touched' /\ Awake' \subseteq Awake \cup touched' BY <3>1, ServerStepDoes
      <3> QED BY <1>2, <3>2 DEF Live
    <2>3. Stopping(o)' BY <1>2, <2>1, <2>2 DEF Own, Stopping, Active
    <2>4. Progress(o)' /\ Restored(o)' BY <1>2, <1>3, <2>1 DEF Own, Progress, Restored
    <2>5. Snapshots(o)' BY <1>2, <2>1 DEF Own, Snapshots, Good
    <2> QED BY <2>3, <2>4, <2>5 DEF Own
  <1>5. OneBusy' /\ BusyShows' BY <1>1, <1>2 DEF Consistent, OneBusy, BusyShows, Busy, Active
  <1>6. Settled' BY <1>1, <1>2, <1>3 DEF Consistent, Settled, Busy, Active
  <1> QED BY <1>1, <1>2, <1>4, <1>5, <1>6 DEF Consistent, NewMigrated, Good

-----------------------------------------------------------------------------
(* The truth about an update.                                              *)

\* The invariant holds initially.
LEMMA UpdateInit == Init => UpdateInv
  <1> SUFFICES ASSUME Init PROVE UpdateInv OBVIOUS
  <1>1. SnapshotInv BY SnapshotInit
  <1>2. \A r \in Requests : hp[r].pc = "none" /\ Fresh(hp[r]) /\ req[r] = "idle" /\ snap.previous[r] = NoSnapshot
    BY HelperTyped DEF Init
  <1>3. /\ status.state = "idle" /\ status.tells = "nothing" /\ files = "old" /\ db = "old"
        /\ \A c \in Services : svc[c].ver = "old" /\ svc[c].st = "up"
    BY DEF Init
  <1>4. Remembers BY <1>2 DEF Remembers, Fresh, Installing, RollingBack
  <1>5. NothingAside BY <1>2, NoSnapshotTyped DEF NothingAside
  <1>6. OldBoots /\ FailureTold BY <1>3 DEF OldBoots, FailureTold
  <1>7. Installed("old") BY <1>3 DEF Installed, Release
  <1>8. Good(snap.current)
    <2>1. snap.current \in {NoSnapshot, Earlier} BY DEF Init
    <2> QED BY <2>1, NoSnapshotTyped DEF Good, Earlier, Release
  <1>9. \A r \in Requests : Own(r)
    BY <1>2 DEF Own, Progress, Restored, Stopping, Snapshots, Fresh, Filling
  <1>10. OneBusy /\ BusyShows BY <1>2 DEF OneBusy, BusyShows, Busy, Active
  <1>11. NewMigrated BY <1>3 DEF NewMigrated, Writers, Services
  <1>12. Settled BY <1>3, <1>7 DEF Settled
  <1> QED BY <1>1, <1>4, <1>5, <1>6, <1>8, <1>9, <1>10, <1>11, <1>12 DEF UpdateInv, Consistent

\* Every step preserves it.
LEMMA UpdateStep == UpdateInv /\ [Next]_vars => UpdateInv'
  <1> SUFFICES ASSUME UpdateInv, [Next]_vars PROVE UpdateInv' OBVIOUS
  <1>1. SnapshotInv /\ TypeOK /\ Remembers /\ NothingAside /\ OldBoots /\ FailureTold BY DEF UpdateInv, SnapshotInv
  <1>2. SnapshotInv' BY <1>1, SnapshotStep
  <1>3. Remembers' BY <1>1, RemembersHelper, RemembersOthers DEF Next
  <1>4. NothingAside' /\ OldBoots' /\ FailureTold' BY <1>1, AsideStep, OldBootsStep, FailureToldStep
  <1>5. ASSUME odd' = {} PROVE Consistent'
    <2>1. odd = {} BY <1>1, <1>5, OddStays
    <2>2. CASE UNCHANGED vars
      <3>1. Consistent BY <2>1 DEF UpdateInv
      <3> QED BY <2>2, <3>1
              DEF vars, Consistent, OneBusy, BusyShows, Busy, Active, NewMigrated, Settled, Installed, Good, Own, Progress,
                  Restored, Stopping, Live, Awake, Snapshots
    <2> QED BY <1>5, <2>1, <2>2, HelperConsistent, RequestConsistent, CrashConsistent, ServiceConsistent, ServerConsistent
            DEF Next
  <1> QED BY <1>2, <1>3, <1>4, <1>5 DEF UpdateInv

\* What Panel Settings shows of an update that is over is true, whatever step failed and
\* whenever the helper was killed, for any number of updates, servers and faults; what a
\* rolled back release may leave beside the old one is not counted.
THEOREM StatusTellsTruth == Spec => []TruthfulStatus
  <1>1. UpdateInv => TruthfulStatus
    <2> SUFFICES ASSUME UpdateInv PROVE TruthfulStatus OBVIOUS
    <2>1. status.state = "succeeded" /\ odd = {} => Installed("new") BY DEF UpdateInv, Consistent, Settled
    <2>2. status.tells \in {"notLaunched", "notReplaced", "restored"} /\ odd = {} => Installed("old")
      BY DEF UpdateInv, FailureTold, Consistent, Settled
    <2>3. status.tells = "snapshotKept" => HasSnapshot BY DEF UpdateInv, SnapshotInv, SnapshotKept
    <2> QED BY <2>1, <2>2, <2>3 DEF TruthfulStatus
  <1> QED BY <1>1, UpdateInit, UpdateStep, PTL DEF Spec

\* The snapshot in place can be restored: it is whole, and as long as updates did not overlap
\* and no rollback went wrong it is of the old release, also after one that was rolled back,
\* and was taken while neither app nor worker ran, nor a game server but those that were
\* restarting when the helper listed them or that something else has started since.
THEOREM SnapshotRestorable == Spec => []RecoverySnapshot
  <1>1. UpdateInv => RecoverySnapshot
    BY DEF UpdateInv, SnapshotInv, CurrentWhole, Consistent, Good, RecoverySnapshot
  <1> QED BY <1>1, UpdateInit, UpdateStep, PTL DEF Spec
-----------------------------------------------------------------------------
(* The game servers an update had stopped.                                 *)

\* The helper has nothing more to do but to record its outcome, and no rollback failed.
Ending(r) ==
  hp[r].pc = "finish" \/ (hp[r].pc = "record" /\ (hp[r].applyStarted = TRUE => hp[r].rolledBack = TRUE))

\* What it had stopped runs again, unless something else has stopped it since.
Back(r) == hp[r].stopped \cap Servers \subseteq Awake \cup touched

AllBack == odd = {} /\ faults.start = 0 => \A r \in Requests : Ending(r) => Back(r)

\* A failed start stays on record.
LEMMA StartsCount ==
  ASSUME TypeOK, [Next]_vars, faults'.start = 0
  PROVE  faults.start = 0
  <1>1. faults \in FaultCounts BY DEF TypeOK, FaultCounts
  <1>2. faults.start \in Nat BY <1>1 DEF FaultCounts
  <1>3. ASSUME NEW k, Fault(k) PROVE faults.start = 0
    <2>1. faults'.start = faults.start \/ faults'.start = faults.start + 1 BY <1>1, <1>3 DEF Fault, FaultCounts
    <2> QED BY <1>2, <2>1
  <1>4. CASE faults' = faults BY <1>4
  <1>5. ASSUME NEW r \in Requests, HelperStep(r) PROVE faults.start = 0
    <2>1. CASE \/ downloadAndVerify(r) \/ extractRelease(r) \/ ListWorkloads(r)
               \/ (\E c \in Servers \cup Writers : StopNext(r, c)) \/ stopWorkloads(r)
               \/ ArchiveConfig(r) \/ saveImages(r) \/ archiveVolumes(r) \/ dumpPostgres(r) \/ WriteManifest(r)
               \/ SetAside(r) \/ Promote(r) \/ UndoAside(r) \/ DropPrevious(r)
      BY <1>3, <1>4, <2>1 DEF downloadAndVerify, extractRelease, ListWorkloads, StopNext, stopWorkloads, ArchiveConfig,
           saveImages, archiveVolumes, dumpPostgres, WriteManifest, SetAside, Promote, UndoAside, DropPrevious,
           writeStatus, StepFails
    <2>2. CASE \/ BeginApply(r) \/ CopyFiles(r) \/ ComposeUp(r) \/ VerifyCore(r) \/ startUpdatedWorker(r)
               \/ VerifyAll(r) \/ Succeed(r) \/ HandleFailure(r) \/ stopCurrentPanelWriters(r)
               \/ loadSnapshotImages(r) \/ RestoreConfig(r)
               \/ restorePostgres(r) \/ RecreatePrior(r) \/ VerifyPrior(r) \/ ResumeStopped(r) \/ RecordFailure(r)
      BY <1>3, <1>4, <2>2 DEF BeginApply, CopyFiles, ComposeUp, VerifyCore, startUpdatedWorker, VerifyAll, Succeed,
           HandleFailure, stopCurrentPanelWriters, loadSnapshotImages, RestoreConfig, restorePostgres, RecreatePrior,
           VerifyPrior, ResumeStopped, RecordFailure, RollbackFails, Resume, writeStatus
    <2> QED BY <1>5, <2>1, <2>2 DEF HelperStep
  <1>6. ASSUME NEW r \in Requests, RequestStep(r) PROVE faults.start = 0
    BY <1>3, <1>4, <1>6 DEF RequestStep, WriteQueued, WritePlan, CreateHelper, StartHelper, markPanelUpdateLaunchFailed
  <1> QED BY <1>3, <1>4, <1>5, <1>6, ServerStepKeeps DEF Next, vars, ReadStatus, Crash, Boot, Restart

\* A helper comes to its end by starting what it had stopped.
LEMMA EndingResumes ==
  ASSUME TypeOK, Remembers, NEW r \in Requests, HelperStep(r), Ending(r)', faults'.start = 0, faults.start = 0
  PROVE  Back(r)'
  <1>1. hp \in [Requests -> Helper] BY DEF TypeOK
  <1>2. hp[r] \in Helper BY <1>1
  <1>3. hp[r].applyStarted \in BOOLEAN /\ hp[r].snapshotReady \in BOOLEAN /\ hp[r].rolledBack \in BOOLEAN
    BY <1>2 DEF Helper
  <1>4. Moves(r) BY HelperMoves
  <1>5. CASE hp[r].pc \in {"verifyAll", "resume"}
    <2>1. VerifyAll(r) \/ ResumeStopped(r)
      BY <1>5 DEF HelperStep, At, downloadAndVerify, extractRelease, ListWorkloads, StopNext, stopWorkloads, ArchiveConfig,
           saveImages, archiveVolumes, dumpPostgres, WriteManifest, SetAside, Promote, UndoAside, DropPrevious,
           BeginApply, CopyFiles, ComposeUp, VerifyCore, startUpdatedWorker, Succeed, HandleFailure,
           stopCurrentPanelWriters, loadSnapshotImages, RestoreConfig, restorePostgres, RecreatePrior, VerifyPrior,
           RecordFailure
    <2>2. ASSUME NEW q \in Pcs, Goto(r, q) PROVE hp'[r].pc = q /\ hp'[r].stopped = hp[r].stopped
      BY <1>1, <2>2, GotoMoves
    <2>3. /\ Resume(r) /\ touched' = touched /\ hp'[r].stopped = hp[r].stopped
      BY <2>1, <2>2 DEF VerifyAll, ResumeStopped, Ending, Pcs, history
    <2>4. ~Fault("start")
      <3>1. faults \in FaultCounts BY DEF TypeOK, FaultCounts
      <3>2. Fault("start") => faults'.start = faults.start + 1 BY <3>1 DEF Fault, FaultCounts
      <3> QED BY <3>2
    <2>5. \E lost : srv' = Started((Servers \cap hp[r].stopped) \ lost) /\ (lost = {} \/ Fault("start"))
      BY <2>3 DEF Resume
    <2>6. srv' = Started(Servers \cap hp[r].stopped) BY <2>4, <2>5
    <2>7. srv \in Powers BY TypeParts DEF OthersTyped
    <2>8. Awake' = Awake \cup (Servers \cap hp[r].stopped) BY <2>6, <2>7, PowersTyped
    <2> QED BY <2>3, <2>8 DEF Back
  <1>6. CASE hp[r].pc \notin {"verifyAll", "resume"}
    <2>1. Edge(hp[r].pc, hp'[r].pc) /\ SameMemory(r) /\ hp'[r].pc = "record" /\ hp[r].pc \in RollingBack \cup {"fail"}
      BY <1>4, <1>6 DEF Moves, Edge, Ending
    <2>2. hp[r].rolledBack = FALSE BY <1>3, <2>1 DEF Remembers, RollingBack
    <2>3. hp[r].applyStarted = FALSE BY <1>3, <2>1, <2>2 DEF Ending, SameMemory
    <2>4. hp[r].pc = "fail" BY <2>1, <2>3 DEF Remembers
    <2>5. HandleFailure(r)
      BY <2>4 DEF HelperStep, At, downloadAndVerify, extractRelease, ListWorkloads, StopNext, stopWorkloads,
           ArchiveConfig, saveImages, archiveVolumes, dumpPostgres, WriteManifest, SetAside, Promote, UndoAside,
           DropPrevious, BeginApply, CopyFiles, ComposeUp, VerifyCore, startUpdatedWorker, VerifyAll, Succeed,
           stopCurrentPanelWriters, loadSnapshotImages, RestoreConfig, restorePostgres, RecreatePrior, VerifyPrior,
           ResumeStopped, RecordFailure
    <2>6. ~NeedsRollback(r) /\ ~hp[r].applyStarted BY <2>3 DEF NeedsRollback
    <2>7. Goto(r, "resume") BY <2>5, <2>6 DEF HandleFailure
    <2>8. hp'[r].pc = "resume" BY <1>1, <2>7, GotoMoves DEF Pcs
    <2> QED BY <2>1, <2>8
  <1> QED BY <1>5, <1>6

\* Every step preserves it; that updates do not overlap is what UpdateInv says.
LEMMA AllBackStep ==
  ASSUME UpdateInv, AllBack, [Next]_vars
  PROVE  AllBack'
  <1> SUFFICES ASSUME odd' = {}, faults'.start = 0, NEW o \in Requests, Ending(o)' PROVE Back(o)' BY DEF AllBack
  <1>1. TypeOK /\ SnapshotInv /\ Remembers BY DEF UpdateInv, SnapshotInv
  <1>2. odd = {} /\ faults.start = 0 BY <1>1, OddStays, StartsCount
  <1>3. OneBusy /\ BusyShows BY <1>2 DEF UpdateInv, Consistent
  <1>4. Ending(o) => Back(o) BY <1>2 DEF AllBack
  <1>5. CASE hp' = hp /\ srv' = srv /\ touched' = touched BY <1>4, <1>5 DEF Ending, Back, Awake
  <1>6. ASSUME NEW r \in Requests, HelperStep(r) PROVE Back(o)'
    <2>1. CASE o = r BY <1>1, <1>2, <1>6, <2>1, EndingResumes
    <2>2. CASE o # r
      <3>1. hp[o].pc \in {"none", "ended", "killed"} /\ hp'[o] = hp[o] BY <1>1, <1>3, <1>6, <2>2, HelperAlone
      <3> QED BY <3>1 DEF Ending
    <2> QED BY <2>1, <2>2
  <1>7. ASSUME NEW s \in Servers, ServerStep(s) PROVE Back(o)'
    <2>1. hp' = hp BY <1>7, ServerStepKeeps
    <2>2. Ending(o) /\ Active(o) BY <2>1 DEF Ending, Active
    <2>3. srv \in Powers /\ touched \subseteq Servers BY <1>1, TypeParts DEF OthersTyped
    <2>4. touched \subseteq touched' /\ Awake \subseteq Awake' \cup touched' BY <1>7, <2>2, <2>3, ServerStepDoes
    <2> QED BY <1>4, <2>1, <2>2, <2>4 DEF Back
  <1>8. ASSUME NEW r \in Requests, NEW q \in {"ended", "killed"}, Exit(r, q), srv' = srv, touched' = touched PROVE Back(o)'
    <2>1. hp'[r].pc = q /\ \A p \in Requests \ {r} : hp'[p] = hp[p] BY <1>1, <1>8, ExitMoves DEF TypeOK
    <2>2. o # r BY <2>1 DEF Ending
    <2> QED BY <1>4, <1>8, <2>1, <2>2 DEF Ending, Back, Awake
  <1>9. ASSUME NEW r \in Requests, hp' = [hp EXCEPT ![r].pc = "download"], srv' = srv, touched' = touched PROVE Back(o)'
    <2>1. Goto(r, "download") BY <1>9 DEF Goto
    <2>2. hp'[r].pc = "download" /\ \A p \in Requests \ {r} : hp'[p] = hp[p]
      BY <1>1, <2>1, GotoMoves DEF TypeOK, Pcs
    <2>3. o # r BY <2>2 DEF Ending
    <2> QED BY <1>4, <1>9, <2>2, <2>3 DEF Ending, Back, Awake
  <1> QED BY <1>5, <1>6, <1>7, <1>8, <1>9
          DEF Next, vars, docker, history, ReadStatus, RequestStep, WriteQueued, WritePlan, CreateHelper, StartHelper,
              Crash, Boot, Restart

\* A helper that ends, however its update went, has started again every game server it had
\* stopped, unless something else stopped the server meanwhile, a start failed or the
\* rollback did.
THEOREM ServersResumed == Spec => Resumed
  <1> DEFINE Step == \A r \in Requests :
               hp[r].pc \in {"finish", "record"} /\ hp'[r].pc = "ended" /\ odd = {}
                 /\ faults.start = 0 /\ (hp[r].applyStarted => hp[r].rolledBack \/ hp[r].pc = "finish")
               => hp[r].stopped \cap Servers \subseteq Awake' \cup touched
  <1>1. Init => AllBack
    <2> SUFFICES ASSUME Init PROVE AllBack OBVIOUS
    <2>1. \A r \in Requests : hp[r].pc = "none" BY HelperTyped DEF Init
    <2> QED BY <2>1 DEF AllBack, Ending
  <1>2. UpdateInv /\ AllBack /\ [Next]_vars => [Step]_vars
    <2> SUFFICES ASSUME UpdateInv, AllBack, [Next]_vars, NEW r \in Requests, hp[r].pc \in {"finish", "record"},
                        hp'[r].pc = "ended", odd = {}, faults.start = 0,
                        hp[r].applyStarted => hp[r].rolledBack \/ hp[r].pc = "finish"
                 PROVE  hp[r].stopped \cap Servers \subseteq Awake' \cup touched
      OBVIOUS
    <2>1. TypeOK /\ SnapshotInv /\ OneBusy /\ BusyShows BY DEF UpdateInv, SnapshotInv, Consistent
    <2>2. hp[r].applyStarted \in BOOLEAN /\ hp[r].rolledBack \in BOOLEAN /\ hp \in [Requests -> Helper]
      BY <2>1 DEF TypeOK, Helper
    <2>3. Back(r) BY <2>2 DEF AllBack, Ending
    <2>4. CASE srv' = srv BY <2>3, <2>4 DEF Back, Awake
    <2>5. CASE hp'[r] = hp[r] BY <2>5
    <2>6. ASSUME NEW q \in Requests, HelperStep(q) PROVE srv' = srv
      <3>1. q = r
        <4>1. q # r => hp'[r] = hp[r] BY <2>1, <2>6, HelperMoves
        <4> QED BY <4>1
      <3>2. Succeed(r) \/ RecordFailure(r)
        BY <2>6, <3>1 DEF HelperStep, At, downloadAndVerify, extractRelease, ListWorkloads, StopNext, stopWorkloads,
           ArchiveConfig, saveImages, archiveVolumes, dumpPostgres, WriteManifest, SetAside, Promote, UndoAside,
           DropPrevious, BeginApply, CopyFiles, ComposeUp, VerifyCore, startUpdatedWorker, VerifyAll, HandleFailure,
           stopCurrentPanelWriters, loadSnapshotImages, RestoreConfig, restorePostgres, RecreatePrior, VerifyPrior,
           ResumeStopped
      <3> QED BY <3>2 DEF Succeed, RecordFailure, docker
    <2> QED BY <2>4, <2>5, <2>6, ServerStepKeeps
            DEF Next, vars, docker, ReadStatus, RequestStep, WriteQueued, WritePlan, CreateHelper, StartHelper, Crash, Boot,
                Restart
  <1>3. UpdateInv /\ AllBack /\ [Next]_vars => AllBack' BY AllBackStep
  <1> QED BY <1>1, <1>2, <1>3, UpdateInit, UpdateStep, PTL DEF Spec, Resumed
-----------------------------------------------------------------------------
(* The abstract specification.                                             *)

\* The old release is given up only when there is a snapshot.
Guarded == Installed("old") \/ HasSnapshot

SameServices == \A c \in Services : svc'[c].ver = svc[c].ver
SameRelease == files' = files /\ db' = db /\ SameServices

\* A release is replaced by the steps of installation and rollback, and files and schema
\* are not by the same step.
LEMMA HelperReplaces ==
  ASSUME TypeOK, NEW r \in Requests, HelperStep(r)
  PROVE  /\ files' = files \/ db' = db
         /\ hp[r].pc \in Installing \cup RollingBack \/ SameRelease
  <1>1. svc \in Containers BY TypeParts DEF OthersTyped
  <1>2. svc' = svc => SameServices BY DEF SameServices
  <1>3. Resume(r) => SameServices BY <1>1, <1>2 DEF Resume, SameServices, Containers
  <1>4. ASSUME NEW c \in Servers \cup Writers, StopNext(r, c) PROVE SameRelease
    <2>1. SameServices BY <1>1, <1>2, <1>4 DEF StopNext, Stop, SameServices, Containers, docker
    <2> QED BY <1>4, <2>1 DEF StopNext, StepFails, SameRelease, disk
  <1>5. CASE \/ downloadAndVerify(r) \/ extractRelease(r) \/ ListWorkloads(r) \/ stopWorkloads(r)
             \/ ArchiveConfig(r) \/ saveImages(r) \/ archiveVolumes(r) \/ dumpPostgres(r) \/ WriteManifest(r)
             \/ SetAside(r) \/ Promote(r) \/ UndoAside(r) \/ DropPrevious(r) \/ BeginApply(r)
    <2>1. svc' = svc /\ files' = files /\ db' = db
      BY <1>5 DEF downloadAndVerify, extractRelease, ListWorkloads, stopWorkloads, ArchiveConfig, saveImages,
           archiveVolumes, dumpPostgres, WriteManifest, SetAside, Promote, UndoAside, DropPrevious, BeginApply,
           StepFails, docker, disk
    <2> QED BY <1>2, <2>1 DEF SameRelease
  <1>6. CASE HandleFailure(r) \/ RecordFailure(r)
    <2>1. svc' = svc /\ files' = files /\ db' = db BY <1>6 DEF HandleFailure, RecordFailure, docker, disk
    <2> QED BY <1>2, <2>1 DEF SameRelease
  <1>7. CASE ResumeStopped(r) BY <1>3, <1>7 DEF ResumeStopped, SameRelease, disk
  <1>8. CASE \/ CopyFiles(r) \/ ComposeUp(r) \/ VerifyCore(r) \/ startUpdatedWorker(r) \/ VerifyAll(r) \/ Succeed(r)
             \/ stopCurrentPanelWriters(r) \/ loadSnapshotImages(r) \/ RestoreConfig(r) \/ restorePostgres(r)
             \/ RecreatePrior(r) \/ VerifyPrior(r)
    <2>1. hp[r].pc \in Installing \cup RollingBack
      BY <1>8 DEF CopyFiles, ComposeUp, VerifyCore, startUpdatedWorker, VerifyAll, Succeed, stopCurrentPanelWriters,
           loadSnapshotImages, RestoreConfig, restorePostgres, RecreatePrior, VerifyPrior, At, Installing, RollingBack
    <2>2. files' = files \/ db' = db
      BY <1>8 DEF CopyFiles, ComposeUp, VerifyCore, startUpdatedWorker, VerifyAll, Succeed, stopCurrentPanelWriters,
           loadSnapshotImages, RestoreConfig, restorePostgres, RecreatePrior, VerifyPrior, disk
    <2> QED BY <2>1, <2>2
  <1> QED BY <1>4, <1>5, <1>6, <1>7, <1>8 DEF HelperStep, SameRelease

\* A step that replaces something is taken when there is a snapshot: a helper has remembered
\* its own, and the schema is migrated only by services of the new release.
LEMMA ReplacesGuarded ==
  ASSUME UpdateInv, Guarded, [Next]_vars
  PROVE  /\ files' = files \/ db' = db
         /\ HasSnapshot \/ SameRelease
  <1>1. TypeOK /\ SnapshotInv /\ Remembers BY DEF UpdateInv, SnapshotInv
  <1>2. svc \in Containers BY <1>1, TypeParts DEF OthersTyped
  <1>3. ASSUME NEW r \in Requests, HelperStep(r)
        PROVE  (files' = files \/ db' = db) /\ (HasSnapshot \/ SameRelease)
    <2>1. hp[r].pc \in Installing \cup RollingBack => hp[r].snapshotReady = TRUE BY <1>1 DEF Remembers
    <2>2. hp[r].pc \in Installing \cup RollingBack => HasSnapshot BY <1>1, <2>1 DEF SnapshotInv, SnapshotKept
    <2> QED BY <1>1, <1>3, <2>2, HelperReplaces
  <1>4. ASSUME NEW c \in Services, Boot(c)
        PROVE  files' = files /\ (HasSnapshot \/ SameRelease)
    <2>1. SameServices BY <1>2, <1>4 DEF Boot, SameServices, Containers
    <2>2. Installed("old") => db' = db BY <1>4 DEF Boot, Migrated, Installed
    <2> QED BY <1>4, <2>1, <2>2 DEF Boot, Guarded, SameRelease
  <1>5. ASSUME NEW c \in Services, Restart(c) PROVE SameRelease
    <2>1. SameServices BY <1>2, <1>5 DEF Restart, SameServices, Containers
    <2> QED BY <1>5, <2>1 DEF Restart, SameRelease, disk
  <1>6. ASSUME \/ \E r \in Requests : ReadStatus(r) \/ RequestStep(r) \/ Crash(r)
               \/ \E s \in Servers : ServerStep(s)
               \/ UNCHANGED vars
        PROVE  SameRelease
    <2>1. svc' = svc /\ files' = files /\ db' = db
      BY <1>6, ServerStepKeeps
         DEF ReadStatus, RequestStep, WriteQueued, WritePlan, CreateHelper, StartHelper, Crash, vars, docker, disk
    <2> QED BY <2>1 DEF SameRelease, SameServices
  <1> QED BY <1>3, <1>4, <1>5, <1>6 DEF Next, SameRelease

\* What is installed, as the owner sees it.
LEMMA HeldCases ==
  /\ Installed("old") => Held = "old"
  /\ Installed("new") => Held = "new"
  /\ ~Installed("old") /\ ~Installed("new") => Held = "between"
  /\ ~(Installed("old") /\ Installed("new"))
  <1>1. ~(Installed("old") /\ Installed("new")) BY DEF Installed
  <1> HIDE DEF Installed
  <1> QED BY <1>1 DEF Held

\* The update implements SafeReplacement, also when updates overlap: a snapshot is there
\* before the first part of the old release is replaced and from then on, whatever fails
\* and whoever is killed, and a rollback starts from something.
THEOREM ReplacesSafely == Spec => ReplacementSpec
  <1>1. Init => Guarded /\ Replacement!Init
    <2> SUFFICES ASSUME Init PROVE Guarded /\ Replacement!Init OBVIOUS
    <2>1. Installed("old") BY DEF Init, Installed, Release
    <2>2. HasSnapshot \in BOOLEAN BY DEF HasSnapshot
    <2> QED BY <2>1, <2>2, HeldCases DEF Guarded, Replacement!Init
  <1>2. UpdateInv /\ Guarded /\ [Next]_vars =>
          Guarded' /\ [Replacement!Next]_<<Held, HasSnapshot>>
    <2> SUFFICES ASSUME UpdateInv, Guarded, [Next]_vars
                 PROVE  Guarded' /\ [Replacement!Next]_<<Held, HasSnapshot>>
      OBVIOUS
    <2>1. (files' = files \/ db' = db) /\ (HasSnapshot \/ SameRelease) BY ReplacesGuarded
    <2>2. HasSnapshot => HasSnapshot' BY SnapshotKeptOn DEF UpdateInv
    <2>3. SameRelease => (Installed("old")' <=> Installed("old")) /\ (Installed("new")' <=> Installed("new"))
      BY DEF SameRelease, SameServices, Installed
    <2>4. /\ ~(Installed("old") /\ Installed("new")') /\ ~(Installed("new") /\ Installed("old")')
      BY <2>1 DEF Installed
    <2>5. /\ Installed("old")' => Held' = "old"
          /\ Installed("new")' => Held' = "new"
          /\ ~Installed("old")' /\ ~Installed("new")' => Held' = "between"
          /\ ~(Installed("old")' /\ Installed("new")')
      <3>1. ~(Installed("old")' /\ Installed("new")') BY DEF Installed
      <3> HIDE DEF Installed
      <3> QED BY <3>1 DEF Held
    <2>6. HasSnapshot \in BOOLEAN /\ HasSnapshot' \in BOOLEAN BY DEF HasSnapshot
    <2>7. Guarded' BY <2>1, <2>2, <2>3 DEF Guarded
    <2>8. SameRelease => Held' = Held BY <2>3, <2>5, HeldCases
    <2>9. CASE Held' = Held
      BY <2>2, <2>6, <2>7, <2>9 DEF Replacement!Next, Replacement!Secure
    <2>10. CASE Held' # Held
      <3>1. HasSnapshot /\ HasSnapshot' /\ HasSnapshot' = HasSnapshot BY <2>1, <2>2, <2>6, <2>8, <2>10
      <3>2. \/ Held = "old" /\ Held' = "between"
            \/ Held = "between" /\ Held' \in {"old", "new"}
            \/ Held = "new" /\ Held' = "between"
        BY <2>4, <2>5, <2>10, HeldCases
      <3> QED BY <2>7, <3>1, <3>2 DEF Replacement!Next, Replacement!Begin, Replacement!Complete, Replacement!TakeBack
    <2> QED BY <2>9, <2>10
  <1> QED BY <1>1, <1>2, UpdateInit, UpdateStep, PTL DEF Spec, ReplacementSpec, Replacement!Spec
=============================================================================
