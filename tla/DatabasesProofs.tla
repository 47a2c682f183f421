---------------------------- MODULE DatabasesProofs ----------------------------
(***************************************************************************)
(* Proofs about Databases, for any number of requests and faults: its      *)
(* state is well typed, a deleted server has no database host, a ready     *)
(* database works with its password, the host comes and goes with the rows.*)
(***************************************************************************)
EXTENDS Databases, TLAPS

-----------------------------------------------------------------------------
(* Type correctness.                                                       *)

\* A handler under way has its database, a creation the one of its own name.
Subjects ==
  \A r \in Requests :
    /\ InFlight(r) => req[r].db \in Requests
    /\ Creating(r) \/ req[r].pc \in {"complete", "fail"} => req[r].db = r

TypeInv == TypeOK /\ Subjects

\* A handler of a deletion.
DeleteStage(r) == req[r].pc \in {"plan", "drop", "removeHost", "removeVolume", "forget"}

\* The initial state is well typed.
LEMMA InitTyped == Init => TypeInv
  <1> SUFFICES ASSUME Init PROVE TypeOK /\ Subjects BY DEF TypeInv
  <1>1. Subjects BY DEF Init, Idle, Subjects, InFlight, Creating
  <1>2. None \in Maybe BY DEF Maybe
  <1>3. NoRow \in Row /\ NoHost \in Host /\ Idle \in Request
    BY <1>2 DEF NoRow, NoHost, NoVolume, Idle, Row, Host, Volume, Request
  <1>4. Empty \in [roles : [Requests -> Maybe], databases : SUBSET Requests] BY <1>2 DEF Empty
  <1>5. rows \in [Requests -> Row] /\ host \in Host /\ req \in [Requests -> Request] BY <1>3 DEF Init
  <1>6. faults \in 0 .. MaxFaults BY DatabasesAssumption DEF Init
  <1> QED BY <1>1, <1>4, <1>5, <1>6 DEF Init, TypeOK

\* Moving on and ending leave a well typed handler, and leave the others alone.
LEMMA Moves ==
  ASSUME req \in [Requests -> Request], NEW r \in Requests
  PROVE  /\ \A pc : Goto(r, pc) =>
              /\ req'[r].pc = pc /\ req'[r].db = req[r].db /\ req'[r].host = req[r].host
              /\ req'[r].last = req[r].last
              /\ \A q \in Requests \ {r} : req'[q] = req[q]
         /\ Finish(r) => /\ req'[r].pc = "done" /\ req'[r].db = None
                         /\ \A q \in Requests \ {r} : req'[q] = req[q]
         /\ \A pc \in {"init", "create", "wait", "role", "database", "complete", "fail", "removeHost",
                       "removeVolume", "forget", "store"} :
              Goto(r, pc) => req' \in [Requests -> Request]
         /\ Finish(r) => req' \in [Requests -> Request]
  <1>1. [Idle EXCEPT !.pc = "done"] \in Request /\ [Idle EXCEPT !.pc = "done"].pc = "done"
        /\ [Idle EXCEPT !.pc = "done"].db = None
    BY DEF Idle, Request, Maybe
  <1>2. \A pc : Goto(r, pc) =>
              /\ req'[r].pc = pc /\ req'[r].db = req[r].db /\ req'[r].host = req[r].host
              /\ req'[r].last = req[r].last
              /\ \A q \in Requests \ {r} : req'[q] = req[q]
    BY DEF Goto, Request
  <1>3. Finish(r) => /\ req'[r] = [Idle EXCEPT !.pc = "done"]
                     /\ \A q \in Requests \ {r} : req'[q] = req[q]
    BY DEF Finish
  <1>4. \A pc \in {"init", "create", "wait", "role", "database", "complete", "fail", "removeHost",
                   "removeVolume", "forget", "store"} :
          Goto(r, pc) => req' \in [Requests -> Request]
    BY DEF Goto, Request
  <1>5. Finish(r) => req' \in [Requests -> Request] BY <1>1 DEF Finish
  <1> QED BY <1>1, <1>2, <1>3, <1>4, <1>5

\* What is withdrawn leaves a well typed host.
LEMMA WithdrawnTyped ==
  ASSUME TypeOK, NEW r \in Requests
  PROVE  /\ Withdrawn(r) \in Host /\ Leftovers(r) \subseteq Host /\ NoVolume \in Volume
         /\ \A h : Kept(h) \in [roles : [Requests -> Maybe], databases : SUBSET Requests]
  <1>1. host \in Host /\ host.by \in Maybe /\ host.running \in BOOLEAN /\ host.ready \in BOOLEAN
       /\ host.volume \in Volume
    BY DEF TypeOK, Host
  <1>2. NoVolume \in Volume BY DEF NoVolume, Volume
  <1>3. None \in Maybe BY DEF Maybe
  <1>4. Withdrawn(r) \in Host BY <1>1, <1>2, <1>3 DEF Withdrawn, Host
  <1>5. [Withdrawn(r) EXCEPT !.volume = host.volume] \in Host BY <1>1, <1>4 DEF Host
  <1>6. Leftovers(r) \subseteq Host BY <1>1, <1>5 DEF Leftovers
  <1> QED BY <1>2, <1>4, <1>6 DEF Kept, Empty, TypeOK, Maybe

\* A creation keeps the state well typed.
LEMMA CreateTyped ==
  ASSUME TypeInv, NEW r \in Requests,
         \/ PrepareDatabase(r) \/ FindHost(r) \/ CreateHostVolume(r) \/ initializeDatabaseVolume(r) \/ CreateHost(r)
         \/ StartHost(r) \/ waitForPostgres(r) \/ CreateRole(r) \/ CreatePostgresDatabase(r)
         \/ CompleteDatabaseProvision(r) \/ FailDatabaseProvision(r) \/ CreateRefused(r)
         \/ CreateFault(r) \/ CreateLeft(r) \/ CreateAborted(r)
  PROVE  TypeOK'
  <1>0. /\ rows \in [Requests -> Row] /\ hostRow \in BOOLEAN /\ host \in Host
        /\ pg \in [roles : [Requests -> Maybe], databases : SUBSET Requests]
        /\ srv \in {"up", "host", "container", "network", "final", "gone", "kept"}
        /\ req \in [Requests -> Request]
        /\ odd \subseteq Odd /\ faults \in 0 .. MaxFaults
    BY DEF TypeInv, TypeOK
  <1>1. r \in Maybe /\ req[r].db \in Maybe BY <1>0 DEF Maybe, Request
  <1>2. CASE PrepareDatabase(r)
    <2>1. [status |-> "provisioning", password |-> r] \in Row BY <1>1 DEF Row
    <2>2. [req[r] EXCEPT !.pc = "find", !.db = r] \in Request BY <1>0, <1>1 DEF Request
    <2> QED BY <1>0, <1>2, <2>1, <2>2 DEF PrepareDatabase, Note, postgres, TypeOK, Odd
  <1>3. CASE FindHost(r)
    <2>1. host.by \in Maybe BY <1>0 DEF Host
    <2>2. /\ \A h \in Maybe : \A pc \in {"start", "wait"} : [req[r] EXCEPT !.pc = pc, !.host = h] \in Request
          /\ [req[r] EXCEPT !.pc = "volume"] \in Request
      BY <1>0 DEF Request
    <2> QED BY <1>0, <1>3, <2>1, <2>2 DEF FindHost, panel, postgres, TypeOK
  <1>4. \A v \in Volume : /\ [host EXCEPT !.volume = v] \in Host
                          /\ [host EXCEPT !.by = r, !.volume = v] \in Host
                          /\ Mounted(v) \in Volume /\ [Mounted(v) EXCEPT !.owned = TRUE] \in Volume
    BY <1>0, <1>1 DEF Host, Volume, Mounted, NoVolume
  <1>5. host.volume \in Volume BY <1>0 DEF Host
  <1>6. CASE CreateHostVolume(r)
    <2>1. [there |-> TRUE, labelled |-> TRUE, owned |-> FALSE] \in Volume BY DEF Volume
    <2> QED BY <1>0, <1>4, <1>6, <2>1, Moves DEF CreateHostVolume, panel, TypeOK
  <1>7. CASE initializeDatabaseVolume(r)
    <2>1. host' = [host EXCEPT !.volume = [Mounted(host.volume) EXCEPT !.owned = TRUE]]
      BY <1>0, <1>7 DEF initializeDatabaseVolume
    <2>2. host' \in Host BY <1>4, <1>5, <2>1
    <2> QED BY <1>0, <1>7, <2>2, Moves DEF initializeDatabaseVolume, panel, TypeOK
  <1>8. CASE CreateHost(r)
    <2>1. host' = [host EXCEPT !.by = r, !.volume = Mounted(host.volume)] BY <1>0, <1>8 DEF CreateHost
    <2>2. host' \in Host BY <1>4, <1>5, <2>1
    <2>3. [req[r] EXCEPT !.pc = "start", !.host = r] \in Request BY <1>0, <1>1 DEF Request
    <2> QED BY <1>0, <1>8, <2>2, <2>3 DEF CreateHost, panel, TypeOK
  <1>9. CASE waitForPostgres(r) BY <1>0, <1>9, Moves DEF waitForPostgres, panel, postgres, TypeOK
  <1>s. CASE StartHost(r)
    <2>1. [host EXCEPT !.running = TRUE] \in Host BY <1>0 DEF Host
    <2> QED BY <1>0, <1>s, <2>1, Moves DEF StartHost, panel, TypeOK
  <1>10. CASE CreateRole(r)
    <2>1. \A d : [pg EXCEPT !.roles[d] = r] \in [roles : [Requests -> Maybe], databases : SUBSET Requests]
      BY <1>0, <1>1
    <2>2. pg' \in [roles : [Requests -> Maybe], databases : SUBSET Requests] BY <1>10, <2>1 DEF CreateRole, SetRole
    <2> QED BY <1>0, <1>10, <2>2, Moves DEF CreateRole, panel, TypeOK
  <1>d. InFlight(r) => req[r].db \in Requests BY DEF TypeInv, Subjects
  <1>11. CASE CreatePostgresDatabase(r)
    <2>1. req[r].db \in Requests BY <1>d, <1>11 DEF CreatePostgresDatabase, At, InFlight
    <2>2. [pg EXCEPT !.databases = @ \cup {req[r].db}] \in [roles : [Requests -> Maybe], databases : SUBSET Requests]
      BY <1>0, <2>1
    <2> QED BY <1>0, <1>11, <2>2, Moves DEF CreatePostgresDatabase, panel, TypeOK
  <1>12. \A st \in {"ready", "failed"} : \A d \in Requests : Recorded(d, st) \in [Requests -> Row]
    <2>1. \A st \in {"ready", "failed"} : \A d \in Requests : [rows[d] EXCEPT !.status = st] \in Row BY <1>0 DEF Row
    <2>2. ASSUME NEW st \in {"ready", "failed"}, NEW d \in Requests PROVE Recorded(d, st) \in [Requests -> Row]
      <3>1. [rows EXCEPT ![d].status = st] \in [Requests -> Row] BY <1>0, <2>1
      <3> QED BY <1>0, <3>1 DEF Recorded, Present
    <2> QED BY <2>2
  <1>13. CASE CompleteDatabaseProvision(r) \/ FailDatabaseProvision(r)
    <2>1. req[r].db \in Requests
      BY <1>13, <1>d DEF CompleteDatabaseProvision, FailDatabaseProvision, At, InFlight
    <2>2. rows' \in [Requests -> Row] BY <1>12, <1>13, <2>1 DEF CompleteDatabaseProvision, FailDatabaseProvision
    <2>3. req' \in [Requests -> Request] BY <1>0, <1>13, Moves DEF CompleteDatabaseProvision, FailDatabaseProvision
    <2> QED BY <1>0, <1>13, <2>2, <2>3 DEF CompleteDatabaseProvision, FailDatabaseProvision, postgres, TypeOK
  <1>14. ASSUME NEW what \in SUBSET {"aborted"}, FailCreate(r, what), Goto(r, "fail") \/ Finish(r), faults' \in 0 .. MaxFaults
         PROVE  TypeOK'
    <2>1. TypeOK BY DEF TypeInv
    <2>2. host' \in Host /\ pg' \in [roles : [Requests -> Maybe], databases : SUBSET Requests]
      BY <1>14, <2>1, WithdrawnTyped DEF FailCreate
    <2>3. odd' \subseteq Odd BY <1>0, <1>14 DEF FailCreate, Odd
    <2>4. req' \in [Requests -> Request] BY <1>0, <1>14, Moves
    <2> QED BY <1>0, <1>14, <2>2, <2>3, <2>4 DEF FailCreate, panel, TypeOK
  <1>15. Fault => faults' \in 0 .. MaxFaults BY <1>0, DatabasesAssumption DEF Fault
  <1>16. CASE CreateRefused(r) \/ CreateFault(r) \/ CreateAborted(r)
    BY <1>0, <1>14, <1>15, <1>16 DEF CreateRefused, CreateFault, CreateAborted
  <1>17. CASE CreateLeft(r)
    <2>1. TypeOK BY DEF TypeInv
    <2>2. host' \in Host /\ pg' \in [roles : [Requests -> Maybe], databases : SUBSET Requests]
      BY <1>17, <2>1, WithdrawnTyped DEF CreateLeft
    <2>3. odd' \subseteq Odd /\ req' \in [Requests -> Request] BY <1>0, <1>17, Moves DEF CreateLeft, Odd
    <2> QED BY <1>0, <1>15, <1>17, <2>2, <2>3 DEF CreateLeft, panel, TypeOK
  <1> QED BY <1>2, <1>3, <1>6, <1>7, <1>8, <1>9, <1>s, <1>10, <1>11, <1>13, <1>16, <1>17

\* Deletions and rotations keep the state well typed.
LEMMA OthersTyped ==
  ASSUME TypeInv, NEW r \in Requests,
         \/ \E d \in Requests : BeginDelete(r, d) \/ BeginRotate(r, d)
         \/ DatabaseRemovalPlan(r) \/ dropPostgresDatabase(r) \/ DropWithoutHost(r)
         \/ removeDatabaseHost(r) \/ removeHostVolume(r) \/ CompleteDatabaseDeletion(r)
         \/ rotateDatabasePassword(r) \/ RotateDatabasePassword(r)
         \/ DropFault(r) \/ DeleteFault(r) \/ RotateFault(r)
  PROVE  TypeOK'
  <1>0. /\ rows \in [Requests -> Row] /\ hostRow \in BOOLEAN /\ host \in Host
        /\ pg \in [roles : [Requests -> Maybe], databases : SUBSET Requests]
        /\ srv \in {"up", "host", "container", "network", "final", "gone", "kept"}
        /\ req \in [Requests -> Request]
        /\ odd \subseteq Odd /\ faults \in 0 .. MaxFaults
    BY DEF TypeInv, TypeOK
  <1>1. r \in Maybe /\ None \in Maybe /\ Requests \subseteq Maybe BY DEF Maybe
  <1>2. ASSUME NEW d \in Requests, BeginDelete(r, d) \/ BeginRotate(r, d) PROVE TypeOK'
    <2>1. d \in Maybe BY <1>1
    <2>2. req' \in [Requests -> Request]
      <3>1. [req[r] EXCEPT !.pc = "plan", !.db = d] \in Request BY <1>0, <2>1 DEF Request
      <3>2. [req[r] EXCEPT !.pc = "alter", !.db = d] \in Request BY <1>0, <2>1 DEF Request
      <3> QED BY <1>0, <1>2, <3>1, <3>2 DEF BeginDelete, BeginRotate
    <2>3. odd' \subseteq Odd BY <1>0, <1>2 DEF BeginDelete, BeginRotate, Note, Odd
    <2> QED BY <1>0, <1>2, <2>2, <2>3 DEF BeginDelete, BeginRotate, panel, postgres, TypeOK
  <1>3. CASE DatabaseRemovalPlan(r)
    <2>1. \A b \in BOOLEAN : [req[r] EXCEPT !.pc = "drop", !.last = b] \in Request BY <1>0 DEF Request
    <2>2. RemovalPlan(req[r].db) \in BOOLEAN BY DEF RemovalPlan
    <2> QED BY <1>0, <1>3, <2>1, <2>2, Moves DEF DatabaseRemovalPlan, panel, postgres, TypeOK
  <1>4. /\ \A d : [roles |-> [pg.roles EXCEPT ![d] = None], databases |-> pg.databases \ {d}]
                     \in [roles : [Requests -> Maybe], databases : SUBSET Requests]
        /\ \A d : [pg EXCEPT !.databases = @ \ {d}] \in [roles : [Requests -> Maybe], databases : SUBSET Requests]
        /\ \A d : [pg EXCEPT !.roles[d] = r] \in [roles : [Requests -> Maybe], databases : SUBSET Requests]
    BY <1>0, <1>1
  <1>5. CASE dropPostgresDatabase(r)
    <2>1. pg' \in [roles : [Requests -> Maybe], databases : SUBSET Requests] BY <1>4, <1>5 DEF dropPostgresDatabase
    <2>2. req' \in [Requests -> Request] BY <1>0, <1>5, Moves DEF dropPostgresDatabase
    <2> QED BY <1>0, <1>5, <2>1, <2>2 DEF dropPostgresDatabase, panel, TypeOK
  <1>6. CASE DropWithoutHost(r) BY <1>0, <1>6, Moves DEF DropWithoutHost, panel, postgres, TypeOK
  <1>7. HostRemoved \in Host /\ VolumeRemoved \in Host
    BY <1>0, <1>1 DEF HostRemoved, VolumeRemoved, NoVolume, Host, Volume
  <1>8. CASE removeDatabaseHost(r) BY <1>0, <1>7, <1>8, Moves DEF removeDatabaseHost, panel, TypeOK
  <1>9. CASE removeHostVolume(r)
    <2>1. TypeOK BY DEF TypeInv
    <2> QED BY <1>0, <1>7, <1>9, <2>1, Moves, WithdrawnTyped DEF removeHostVolume, panel, postgres, TypeOK
  <1>10. CASE CompleteDatabaseDeletion(r)
    <2>1. NoRow \in Row BY <1>1 DEF NoRow, Row
    <2>2. (hostRow /\ ~req[r].last) \in BOOLEAN OBVIOUS
    <2>3. rows' \in [Requests -> Row] BY <1>0, <1>10, <2>1 DEF CompleteDatabaseDeletion
    <2> QED BY <1>0, <1>10, <2>2, <2>3, Moves DEF CompleteDatabaseDeletion, postgres, TypeOK
  <1>11. CASE rotateDatabasePassword(r)
    <2>1. pg' \in [roles : [Requests -> Maybe], databases : SUBSET Requests] BY <1>0, <1>4, <1>11 DEF rotateDatabasePassword, SetRole
    <2>2. req' \in [Requests -> Request] BY <1>0, <1>11, Moves DEF rotateDatabasePassword
    <2> QED BY <1>0, <1>11, <2>1, <2>2 DEF rotateDatabasePassword, panel, TypeOK
  <1>12. CASE RotateDatabasePassword(r)
    <2>1. \A d : [rows EXCEPT ![d].password = r] \in [Requests -> Row] BY <1>0, <1>1 DEF Row
    <2>2. rows' \in [Requests -> Row] BY <1>0, <1>12, <2>1 DEF RotateDatabasePassword
    <2> QED BY <1>0, <1>12, <2>2, Moves DEF RotateDatabasePassword, postgres, TypeOK
  <1>13. Fault => faults' \in 0 .. MaxFaults BY <1>0, DatabasesAssumption DEF Fault
  <1>14. CASE DropFault(r)
    <2>1. pg' \in [roles : [Requests -> Maybe], databases : SUBSET Requests] BY <1>4, <1>14 DEF DropFault
    <2> QED BY <1>0, <1>13, <1>14, <2>1, Moves DEF DropFault, panel, TypeOK, Odd
  <1>15. CASE DeleteFault(r) BY <1>0, <1>13, <1>15, Moves DEF DeleteFault, panel, postgres, TypeOK, Odd
  <1>16. CASE RotateFault(r) BY <1>0, <1>13, <1>16, Moves DEF RotateFault, panel, postgres, TypeOK, Odd
  <1> QED BY <1>2, <1>3, <1>5, <1>6, <1>8, <1>9, <1>10, <1>11, <1>12, <1>14, <1>15, <1>16

\* So do PostgreSQL, the deletion of the server and a crash of the engine.
LEMMA RestTyped ==
  ASSUME TypeInv, PostgresReady \/ ServerDeletion \/ EngineCrash
  PROVE  TypeOK'
  <1>0. /\ rows \in [Requests -> Row] /\ hostRow \in BOOLEAN /\ host \in Host
        /\ pg \in [roles : [Requests -> Maybe], databases : SUBSET Requests]
        /\ srv \in {"up", "host", "container", "network", "final", "gone", "kept"}
        /\ req \in [Requests -> Request]
        /\ odd \subseteq Odd /\ faults \in 0 .. MaxFaults
    BY DEF TypeInv, TypeOK
  <1>1. None \in Maybe BY DEF Maybe
  <1>2. CASE PostgresReady
    <2>1. [host EXCEPT !.ready = TRUE] \in Host BY <1>0 DEF Host
    <2> QED BY <1>0, <1>2, <2>1 DEF PostgresReady, panel, TypeOK
  <1>3. CASE DeleteHost
    <2>1. HostRemoved \in Host /\ [HostRemoved EXCEPT !.volume = NoVolume] \in Host
      BY <1>0, <1>1 DEF HostRemoved, NoVolume, Host, Volume
    <2>2. host' \in Host BY <1>3, <2>1 DEF DeleteHost
    <2>3. pg' \in [roles : [Requests -> Maybe], databases : SUBSET Requests]
      BY <1>0, <1>1, <1>3 DEF DeleteHost, Kept, Empty
    <2> QED BY <1>0, <1>3, <2>2, <2>3 DEF DeleteHost, ServerStep, panel, TypeOK, Odd
  <1>4. CASE DeleteServer \/ DeleteServerContainer \/ DeleteServerNetwork \/ FinalizeServerDeletion
    BY <1>0, <1>4 DEF DeleteServer, DeleteServerContainer, DeleteServerNetwork, FinalizeServerDeletion,
       ServerStep, panel, postgres, TypeOK
  <1>5. CASE EngineCrash
    <2>1. [Idle EXCEPT !.pc = "done"] \in Request BY <1>1 DEF Idle, Request
    <2>2. \A r \in Requests : [req[r] EXCEPT !.pc = "fail"] \in Request BY <1>0 DEF Request
    <2>3. req' \in [Requests -> Request] BY <1>0, <1>5, <2>1, <2>2 DEF EngineCrash
    <2>4. faults' \in 0 .. MaxFaults BY <1>0, <1>5, DatabasesAssumption DEF EngineCrash, Fault
    <2> QED BY <1>0, <1>5, <2>3, <2>4 DEF EngineCrash, panel, postgres, TypeOK, Odd
  <1> QED BY <1>2, <1>3, <1>4, <1>5 DEF ServerDeletion

\* The steps of one handler.
Step(r) == Begin(r) \/ Handle(r) \/ Disturb(r)

\* Where a handler goes: to its end, or on with its database; it begins with the
\* database of its own name or, to delete or to rotate, with one that has a row.
Goes(r) ==
  \/ req'[r].pc = "done"
  \/ /\ InFlight(r) /\ InFlight(r)' /\ req'[r].db = req[r].db
     /\ Creating(r)' \/ req'[r].pc \in {"complete", "fail"} => Creating(r) \/ req[r].pc \in {"complete", "fail"}
     /\ DeleteStage(r)' <=> DeleteStage(r)
  \/ PrepareDatabase(r) /\ req'[r].pc = "find" /\ req'[r].db = r
  \/ \E d \in Requests :
       \/ BeginDelete(r, d) /\ req'[r].pc = "plan" /\ req'[r].db = d
       \/ BeginRotate(r, d) /\ req'[r].pc = "alter" /\ req'[r].db = d

\* A step of one handler leaves the others, and takes its own where it may go.
LEMMA StepGoes ==
  ASSUME TypeOK, NEW r \in Requests, Step(r)
  PROVE  /\ \A q \in Requests \ {r} : req'[q] = req[q]
         /\ Goes(r)
  <1>0. req \in [Requests -> Request] BY DEF TypeOK
  <1> DEFINE Same == \A q \in Requests \ {r} : req'[q] = req[q]
  <1>1. ASSUME NEW pc, Goto(r, pc), InFlight(r), pc \notin {"idle", "done"},
               \/ pc \notin {"find", "volume", "init", "create", "start", "wait", "role", "database", "complete", "fail"}
               \/ Creating(r) \/ req[r].pc \in {"complete", "fail"},
               pc \in {"plan", "drop", "removeHost", "removeVolume", "forget"} <=> DeleteStage(r)
        PROVE  Same /\ Goes(r)
    BY <1>0, <1>1, Moves DEF Goes, InFlight, Creating, DeleteStage
  <1>2. Finish(r) => Same /\ Goes(r) BY <1>0, Moves DEF Goes
  <1>3. CASE PrepareDatabase(r)
    <2>1. req'[r] = [req[r] EXCEPT !.pc = "find", !.db = r] /\ Same BY <1>0, <1>3 DEF PrepareDatabase
    <2>2. req'[r].pc = "find" /\ req'[r].db = r BY <1>0, <2>1 DEF Request
    <2> QED BY <1>3, <2>1, <2>2 DEF Goes
  <1>4. ASSUME NEW d \in Requests, BeginDelete(r, d) PROVE Same /\ Goes(r)
    <2>1. req'[r] = [req[r] EXCEPT !.pc = "plan", !.db = d] /\ Same BY <1>0, <1>4 DEF BeginDelete
    <2>2. req'[r].pc = "plan" /\ req'[r].db = d BY <1>0, <2>1 DEF Request
    <2> QED BY <1>4, <2>1, <2>2 DEF Goes
  <1>5. ASSUME NEW d \in Requests, BeginRotate(r, d) PROVE Same /\ Goes(r)
    <2>1. req'[r] = [req[r] EXCEPT !.pc = "alter", !.db = d] /\ Same BY <1>0, <1>5 DEF BeginRotate
    <2>2. req'[r].pc = "alter" /\ req'[r].db = d BY <1>0, <2>1 DEF Request
    <2> QED BY <1>5, <2>1, <2>2 DEF Goes
  <1>6. CASE FindHost(r)
    <2>1. req' = [req EXCEPT ![r] = req'[r]] /\ Same BY <1>0, <1>6 DEF FindHost
    <2>2. \/ \E pc \in {"start", "wait"} : req'[r] = [req[r] EXCEPT !.pc = pc, !.host = host.by]
          \/ req'[r] = [req[r] EXCEPT !.pc = "volume"]
      BY <1>0, <1>6 DEF FindHost
    <2>3. req'[r].pc \in {"start", "wait", "volume"} /\ req'[r].db = req[r].db BY <1>0, <2>2 DEF Request
    <2> QED BY <1>6, <2>1, <2>3 DEF FindHost, At, Goes, InFlight, Creating, DeleteStage
  <1>7. CASE CreateHost(r)
    <2>1. req'[r] = [req[r] EXCEPT !.pc = "start", !.host = r] /\ Same BY <1>0, <1>7 DEF CreateHost
    <2>2. req'[r].pc = "start" /\ req'[r].db = req[r].db BY <1>0, <2>1 DEF Request
    <2> QED BY <1>7, <2>1, <2>2 DEF CreateHost, At, Goes, InFlight, Creating, DeleteStage
  <1>8. CASE DatabaseRemovalPlan(r)
    <2>1. CASE Present(req[r].db)
      <3> DEFINE b == RemovalPlan(req[r].db)
      <3>1. req' = [req EXCEPT ![r] = [@ EXCEPT !.pc = "drop", !.last = b]] BY <1>8, <2>1 DEF DatabaseRemovalPlan
      <3> HIDE DEF b
      <3>2. req'[r] = [req[r] EXCEPT !.pc = "drop", !.last = b] /\ Same BY <1>0, <3>1
      <3>3. req'[r].pc = "drop" /\ req'[r].db = req[r].db BY <1>0, <3>2 DEF Request
      <3> QED BY <1>8, <3>2, <3>3 DEF DatabaseRemovalPlan, At, Goes, InFlight, Creating, DeleteStage
    <2>2. CASE ~Present(req[r].db) BY <1>2, <1>8, <2>2 DEF DatabaseRemovalPlan
    <2> QED BY <2>1, <2>2
  <1>9. CASE \/ CreateHostVolume(r) \/ initializeDatabaseVolume(r) \/ StartHost(r) \/ waitForPostgres(r)
             \/ CreateRole(r) \/ CreatePostgresDatabase(r) \/ CreateRefused(r) \/ CreateFault(r) \/ CreateLeft(r)
    BY <1>1, <1>9 DEF CreateHostVolume, initializeDatabaseVolume, StartHost, waitForPostgres, CreateRole,
       CreatePostgresDatabase, CreateRefused, CreateFault, CreateLeft, At, InFlight, Creating, DeleteStage
  <1>10. CASE \/ dropPostgresDatabase(r) \/ DropWithoutHost(r) \/ removeDatabaseHost(r) \/ removeHostVolume(r)
              \/ rotateDatabasePassword(r)
    BY <1>1, <1>2, <1>10 DEF dropPostgresDatabase, DropWithoutHost, removeDatabaseHost, removeHostVolume,
       rotateDatabasePassword, At, InFlight, Creating, DeleteStage
  <1>11. CASE \/ CompleteDatabaseProvision(r) \/ FailDatabaseProvision(r) \/ CreateAborted(r)
              \/ CompleteDatabaseDeletion(r) \/ RotateDatabasePassword(r)
              \/ DropFault(r) \/ DeleteFault(r) \/ RotateFault(r)
    BY <1>2, <1>11 DEF CompleteDatabaseProvision, FailDatabaseProvision, CreateAborted, CompleteDatabaseDeletion,
       RotateDatabasePassword, DropFault, DeleteFault, RotateFault
  <1> QED BY <1>3, <1>4, <1>5, <1>6, <1>7, <1>8, <1>9, <1>10, <1>11 DEF Step, Begin, Handle, Disturb

\* Every step keeps the state well typed and the handlers with their databases.
LEMMA NextTyped == TypeInv /\ [Next]_vars => TypeInv'
  <1> SUFFICES ASSUME TypeInv, [Next]_vars PROVE TypeInv' OBVIOUS
  <1>0. TypeOK /\ Subjects BY DEF TypeInv
  <1>1. CASE UNCHANGED vars BY <1>0, <1>1 DEF vars, TypeInv, TypeOK, Subjects, InFlight, Creating
  <1>2. ASSUME NEW r \in Requests, Step(r) PROVE TypeInv'
    <2>1. TypeOK' BY <1>2, CreateTyped, OthersTyped DEF Step, Begin, Handle, Disturb
    <2>2. (\A q \in Requests \ {r} : req'[q] = req[q]) /\ Goes(r) BY <1>0, <1>2, StepGoes
    <2>3. Subjects'
      <3> SUFFICES ASSUME NEW q \in Requests
                   PROVE  /\ InFlight(q)' => req'[q].db \in Requests
                          /\ Creating(q)' \/ req'[q].pc \in {"complete", "fail"} => req'[q].db = q
        BY DEF Subjects
      <3>1. CASE q # r BY <1>0, <2>2, <3>1 DEF Subjects, InFlight, Creating
      <3>2. CASE q = r BY <1>0, <2>2, <3>2 DEF Subjects, Goes, InFlight, Creating
      <3> QED BY <3>1, <3>2
    <2> QED BY <2>1, <2>3 DEF TypeInv
  <1>3. CASE PostgresReady \/ ServerDeletion
    <2>1. TypeOK' BY <1>3, RestTyped
    <2>2. req' = req
      BY <1>3 DEF PostgresReady, ServerDeletion, DeleteServer, DeleteHost, DeleteServerContainer,
         DeleteServerNetwork, FinalizeServerDeletion, ServerStep
    <2> QED BY <1>0, <2>1, <2>2 DEF TypeInv, Subjects, InFlight, Creating
  <1>4. CASE EngineCrash
    <2>1. TypeOK' BY <1>4, RestTyped
    <2>2. \A q \in Requests :
            \/ req'[q] = req[q]
            \/ req'[q].pc = "fail" /\ req'[q].db = req[q].db /\ Creating(q)
            \/ req'[q].pc = "done"
      <3>1. [Idle EXCEPT !.pc = "done"].pc = "done" BY DEF Idle
      <3>2. \A q \in Requests : [req[q] EXCEPT !.pc = "fail"].pc = "fail" /\ [req[q] EXCEPT !.pc = "fail"].db = req[q].db
        BY <1>0 DEF TypeOK, Request
      <3> QED BY <1>4, <3>1, <3>2 DEF EngineCrash
    <2>3. ASSUME NEW q \in Requests
          PROVE  /\ InFlight(q)' => req'[q].db \in Requests
                 /\ Creating(q)' \/ req'[q].pc \in {"complete", "fail"} => req'[q].db = q
      BY <1>0, <2>2 DEF Subjects, InFlight, Creating
    <2> QED BY <2>1, <2>3 DEF TypeInv, Subjects
  <1> QED BY <1>1, <1>2, <1>3, <1>4 DEF Next, Step

\* The state is always well typed: rows, host, roles and handlers.
THEOREM DatabasesTyped == Spec => []TypeOK
  <1>1. TypeInv => TypeOK BY DEF TypeInv
  <1> QED BY <1>1, InitTyped, NextTyped, PTL DEF Spec

-----------------------------------------------------------------------------
(* The host and the server.                                                *)

\* A host that is there has its volume, one that is not does not run, one that does not
\* run does not answer, and once the server's network is gone none runs.
HostSane ==
  /\ host.by = None => host.running = FALSE
  /\ host.running = FALSE => host.ready = FALSE
  /\ host.by # None => host.volume.there
  /\ srv \in {"final", "gone"} => host.running = FALSE

\* What the steps of a handler make of the host.
LEMMA HostFields ==
  ASSUME TypeOK, NEW r \in Requests
  PROVE  /\ CreateHostVolume(r) =>
              /\ host'.by = host.by /\ host'.running = host.running /\ host'.ready = host.ready /\ host'.volume.there
              /\ host'.volume.labelled = (host.volume.there => host.volume.labelled)
         /\ initializeDatabaseVolume(r) =>
              /\ host'.by = host.by /\ host'.running = host.running /\ host'.ready = host.ready /\ host'.volume.there
              /\ host.volume.there => host'.volume.labelled = host.volume.labelled
         /\ CreateHost(r) =>
              /\ host.by = None /\ host'.by = r /\ host'.running = host.running /\ host'.ready = host.ready /\ host'.volume.there
              /\ host.volume.there => host'.volume.labelled = host.volume.labelled
         /\ StartHost(r) =>
              /\ host'.by = host.by /\ host'.running /\ host'.ready = host.ready /\ host'.volume = host.volume
         /\ removeDatabaseHost(r) => host'.by = None /\ host'.running = FALSE /\ host'.ready = FALSE /\ host'.volume = host.volume
         /\ host' = VolumeRemoved => host'.by = host.by /\ host'.running = host.running /\ host'.ready = host.ready /\ host'.volume = NoVolume
  <1>0. host \in Host /\ host.volume \in Volume BY DEF TypeOK, Host
  <1>1. ASSUME CreateHostVolume(r)
        PROVE  /\ host'.by = host.by /\ host'.running = host.running /\ host'.ready = host.ready /\ host'.volume.there
               /\ host'.volume.labelled = (host.volume.there => host.volume.labelled)
    <2>1. CASE host.volume.there BY <1>0, <1>1, <2>1 DEF CreateHostVolume, Volume
    <2>2. CASE ~host.volume.there BY <1>0, <1>1, <2>2 DEF CreateHostVolume, Host
    <2> QED BY <2>1, <2>2
  <1>2. /\ Mounted(host.volume).there
        /\ host.volume.there => Mounted(host.volume) = host.volume
        /\ Mounted(host.volume) \in Volume
    BY <1>0 DEF Mounted, NoVolume, Volume
  <1>3. ASSUME initializeDatabaseVolume(r)
        PROVE  /\ host'.by = host.by /\ host'.running = host.running /\ host'.ready = host.ready /\ host'.volume.there
               /\ host.volume.there => host'.volume.labelled = host.volume.labelled
    <2> DEFINE v == [Mounted(host.volume) EXCEPT !.owned = TRUE]
    <2>1. host' = [host EXCEPT !.volume = v] BY <1>0, <1>3 DEF initializeDatabaseVolume
    <2>2. v.there = Mounted(host.volume).there /\ v.labelled = Mounted(host.volume).labelled BY <1>2 DEF Volume
    <2> HIDE DEF v
    <2>3. host'.by = host.by /\ host'.running = host.running /\ host'.ready = host.ready /\ host'.volume = v BY <1>0, <2>1 DEF Host
    <2> QED BY <1>2, <2>2, <2>3
  <1>4. ASSUME CreateHost(r)
        PROVE  /\ host.by = None /\ host'.by = r /\ host'.running = host.running /\ host'.ready = host.ready /\ host'.volume.there
               /\ host.volume.there => host'.volume.labelled = host.volume.labelled
    <2> DEFINE v == Mounted(host.volume)
    <2>1. host.by = None /\ host' = [host EXCEPT !.by = r, !.volume = v] BY <1>0, <1>4 DEF CreateHost
    <2> HIDE DEF v
    <2>2. host'.by = r /\ host'.running = host.running /\ host'.ready = host.ready /\ host'.volume = v BY <1>0, <2>1 DEF Host
    <2> QED BY <1>2, <2>1, <2>2 DEF v
  <1>5. removeDatabaseHost(r) => host'.by = None /\ host'.running = FALSE /\ host'.ready = FALSE /\ host'.volume = host.volume
    BY <1>0 DEF removeDatabaseHost, HostRemoved, Host
  <1>6. host' = VolumeRemoved => host'.by = host.by /\ host'.running = host.running /\ host'.ready = host.ready /\ host'.volume = NoVolume
    BY <1>0 DEF VolumeRemoved, Host
  <1>7. StartHost(r) =>
          /\ host'.by = host.by /\ host'.running /\ host'.ready = host.ready /\ host'.volume = host.volume
    BY <1>0 DEF StartHost, Host
  <1> QED BY <1>1, <1>3, <1>4, <1>5, <1>6, <1>7

\* A withdrawal leaves the host as it was, or takes the container the handler had
\* created, and takes the volume only if there is no container.
LEMMA WithdrawnFields ==
  ASSUME TypeOK, HostSane, NEW r \in Requests, NEW h, h = Withdrawn(r)
  PROVE  \/ h = host
         \/ /\ h.by = None /\ h.running = FALSE /\ h.ready = FALSE /\ h.volume = NoVolume
            /\ \/ host.by = r /\ req[r].pc \in {"start", "wait"} /\ req[r].host = r
               \/ host.by = None /\ req[r].pc \in {"start", "wait", "init", "create"}
  <1>0. /\ host = [by |-> host.by, running |-> host.running, ready |-> host.ready, volume |-> host.volume]
        /\ host.running \in BOOLEAN /\ host.ready \in BOOLEAN
    BY DEF TypeOK, Host
  <1> DEFINE mine == req[r].host = r /\ req[r].pc \in {"start", "wait"}
             left == IF mine /\ host.by = r THEN None ELSE host.by
             volume == IF left = None /\ (mine \/ req[r].pc \in {"init", "create"}) THEN NoVolume ELSE host.volume
  <1>1. h = [by |-> left, running |-> host.running /\ left # None,
             ready |-> host.ready /\ left # None, volume |-> volume]
    BY DEF Withdrawn
  <1>2. /\ h.by = left /\ h.running = (host.running /\ left # None) /\ h.ready = (host.ready /\ left # None)
        /\ h.volume = volume
    BY <1>1
  <1>3. CASE left # None
    <2>1. left = host.by /\ volume = host.volume BY <1>3
    <2>2. (host.running /\ left # None) = host.running /\ (host.ready /\ left # None) = host.ready BY <1>0, <1>3
    <2> QED BY <1>0, <1>1, <2>1, <2>2
  <1>4. CASE left = None /\ (mine \/ req[r].pc \in {"init", "create"})
    <2>1. h.by = None /\ h.volume = NoVolume /\ h.running = FALSE /\ h.ready = FALSE BY <1>2, <1>4
    <2>2. host.by = None \/ (mine /\ host.by = r) BY <1>4
    <2> QED BY <1>4, <2>1, <2>2
  <1>5. CASE left = None /\ ~mine /\ req[r].pc \notin {"init", "create"}
    <2>1. host.by = None /\ volume = host.volume BY <1>5
    <2>2. host.running = FALSE /\ host.ready = FALSE BY <2>1 DEF HostSane
    <2>3. (host.running /\ left # None) = host.running /\ (host.ready /\ left # None) = host.ready BY <1>5, <2>2
    <2> QED BY <1>0, <1>1, <1>5, <2>1, <2>3
  <1> QED BY <1>3, <1>4, <1>5

\* What a failed cleanup leaves: the host as it was, or its volume alone.
LEMMA LeftoverFields ==
  ASSUME TypeOK, HostSane, NEW r \in Requests, host' \in Leftovers(r)
  PROVE  host' = host \/ (host'.by = None /\ host'.running = FALSE /\ host'.ready = FALSE)
  <1>1. Withdrawn(r) \in Host /\ Leftovers(r) \subseteq Host BY WithdrawnTyped
  <1>2. CASE host' = host BY <1>2
  <1>3. CASE host' = [Withdrawn(r) EXCEPT !.volume = host.volume]
    <2>1. PICK h : h = Withdrawn(r) OBVIOUS
    <2>2. host' = [h EXCEPT !.volume = host.volume] /\ h \in Host BY <1>1, <1>3, <2>1
    <2>3. host'.by = h.by /\ host'.running = h.running /\ host'.ready = h.ready /\ host'.volume = host.volume
      BY <2>2 DEF Host
    <2>4. CASE h = host
      <3>1. host' \in Host /\ host \in Host BY <1>1 DEF TypeOK
      <3>2. host' = host BY <2>3, <2>4, <3>1 DEF Host
      <3> QED BY <3>2
    <2>5. CASE h # host
      <3>1. h.by = None /\ h.running = FALSE /\ h.ready = FALSE BY <2>1, <2>5, WithdrawnFields
      <3> QED BY <2>3, <3>1
    <2> QED BY <2>4, <2>5
  <1> QED BY <1>2, <1>3 DEF Leftovers

\* Every step keeps the host sound.
LEMMA HostStep ==
  ASSUME TypeInv, HostSane, [Next]_vars
  PROVE  HostSane'
  <1>0. TypeOK /\ None \notin Requests BY DatabasesAssumption DEF TypeInv
  <1>1. ASSUME host' = host, srv' = srv PROVE HostSane' BY <1>1 DEF HostSane
  <1>2. ASSUME NEW r \in Requests, Step(r) PROVE HostSane'
    <2>1. CASE \/ PrepareDatabase(r) \/ (\E d \in Requests : BeginDelete(r, d) \/ BeginRotate(r, d)) \/ FindHost(r)
               \/ waitForPostgres(r) \/ CreateRole(r) \/ CreatePostgresDatabase(r)
               \/ CompleteDatabaseProvision(r) \/ FailDatabaseProvision(r)
               \/ DatabaseRemovalPlan(r) \/ dropPostgresDatabase(r) \/ DropWithoutHost(r)
               \/ CompleteDatabaseDeletion(r) \/ rotateDatabasePassword(r) \/ RotateDatabasePassword(r)
               \/ DropFault(r) \/ DeleteFault(r) \/ RotateFault(r)
      BY <1>1, <2>1 DEF PrepareDatabase, BeginDelete, BeginRotate, FindHost, waitForPostgres, CreateRole,
         CreatePostgresDatabase, CompleteDatabaseProvision, FailDatabaseProvision, DatabaseRemovalPlan,
         dropPostgresDatabase, DropWithoutHost, CompleteDatabaseDeletion, rotateDatabasePassword,
         RotateDatabasePassword, DropFault, DeleteFault, RotateFault, postgres
    <2>2. CASE CreateHostVolume(r) \/ initializeDatabaseVolume(r)
      BY <1>0, <2>2, HostFields DEF HostSane, CreateHostVolume, initializeDatabaseVolume
    <2>3. CASE CreateHost(r) BY <1>0, <2>3, HostFields DEF HostSane, CreateHost
    <2>s. CASE StartHost(r)
      <3>1. host.by # None /\ srv \notin {"final", "gone"} /\ srv' = srv
        BY <2>s DEF StartHost, There, ServerNetwork
      <3> QED BY <1>0, <2>s, <3>1, HostFields DEF HostSane
    <2>4. CASE removeDatabaseHost(r) BY <1>0, <2>4, HostFields DEF HostSane, removeDatabaseHost
    <2>5. CASE removeHostVolume(r)
      <3>1. CASE VolumeRemovable
        <4>1. host.by = None
          BY <3>1 DEF VolumeRemovable, HostSane
        <4> QED BY <1>0, <2>5, <3>1, <4>1, HostFields DEF HostSane, removeHostVolume
      <3>2. CASE ~VolumeRemovable BY <1>1, <2>5, <3>2 DEF removeHostVolume, postgres
      <3> QED BY <3>1, <3>2
    <2>6. CASE CreateRefused(r) \/ CreateFault(r) \/ CreateAborted(r)
      <3>1. host' = Withdrawn(r) /\ srv' = srv
        BY <2>6 DEF CreateRefused, CreateFault, CreateAborted, FailCreate
      <3>2. \/ host' = host
            \/ host'.by = None /\ host'.running = FALSE /\ host'.ready = FALSE
        BY <1>0, <3>1, WithdrawnFields
      <3> QED BY <1>1, <3>1, <3>2 DEF HostSane
    <2>7. CASE CreateLeft(r)
      <3>1. srv' = srv /\ (host' = host \/ (host'.by = None /\ host'.running = FALSE /\ host'.ready = FALSE))
        BY <1>0, <2>7, LeftoverFields DEF CreateLeft
      <3> QED BY <1>1, <3>1 DEF HostSane
    <2> QED BY <1>2, <2>1, <2>2, <2>3, <2>s, <2>7, <2>4, <2>5, <2>6 DEF Step, Begin, Handle, Disturb
  <1>3. CASE PostgresReady
    <2>1. host.running /\ host' = [host EXCEPT !.ready = TRUE] /\ srv' = srv BY <1>3 DEF PostgresReady
    <2>2. host'.by = host.by /\ host'.running = host.running /\ host'.volume = host.volume BY <1>0, <2>1 DEF TypeOK, Host
    <2> QED BY <2>1, <2>2 DEF HostSane
  <1>4. CASE DeleteHost
    <2>1. HostRemoved.by = None /\ HostRemoved.running = FALSE /\ HostRemoved.ready = FALSE /\ HostRemoved \in Host
      BY <1>0 DEF HostRemoved, TypeOK, Host, Maybe
    <2>2. /\ [HostRemoved EXCEPT !.volume = NoVolume].by = None
          /\ [HostRemoved EXCEPT !.volume = NoVolume].running = FALSE
          /\ [HostRemoved EXCEPT !.volume = NoVolume].ready = FALSE
      BY <2>1 DEF Host
    <2>3. host'.by = None /\ host'.running = FALSE /\ host'.ready = FALSE BY <1>4, <2>1, <2>2 DEF DeleteHost
    <2> QED BY <2>3 DEF HostSane
  <1>5. CASE DeleteServer \/ DeleteServerContainer \/ DeleteServerNetwork \/ FinalizeServerDeletion
    BY <1>5 DEF DeleteServer, DeleteServerContainer, DeleteServerNetwork, FinalizeServerDeletion,
       ServerStep, NetworkFree, postgres, HostSane
  <1>6. CASE EngineCrash \/ UNCHANGED vars BY <1>1, <1>6 DEF EngineCrash, postgres, vars
  <1> QED BY <1>2, <1>3, <1>4, <1>5, <1>6 DEF Next, Step, ServerDeletion

\* The host of the initial state is sound.
LEMMA HostInit == Init => HostSane
  BY DEF Init, HostSane, NoHost

\* A container that is there and does not run is about to be started by the creation
\* that created it, unless the engine crashed or a cleanup failed.
Lingers == {"left", "crash"} \cap odd # {}
Tended(r) == At(r, "start") /\ req[r].host = r
HostTended == host.by # None /\ host.running = FALSE => Lingers \/ Tended(host.by)

\* The history forgets nothing.
LEMMA OddGrows ==
  ASSUME [Next]_vars PROVE odd \subseteq odd'
  <1>1. ASSUME NEW r \in Requests, Begin(r) PROVE odd \subseteq odd'
    <2>1. \A d, b : Note(d, b) => odd \subseteq odd' BY DEF Note
    <2>2. \E d, b : Note(d, b) BY <1>1, Zenon DEF Begin, PrepareDatabase, BeginDelete, BeginRotate
    <2> QED BY <2>1, <2>2
  <1>2. ASSUME NEW r \in Requests, CreateRefused(r) \/ Disturb(r) PROVE odd \subseteq odd'
    BY <1>2 DEF CreateRefused, Disturb, CreateFault, CreateLeft, CreateAborted, FailCreate, DropFault, DeleteFault, RotateFault
  <1>3. ASSUME NEW r \in Requests, Handle(r), ~CreateRefused(r) PROVE odd' = odd
    BY <1>3 DEF Handle, FindHost, CreateHostVolume, initializeDatabaseVolume, CreateHost, StartHost, waitForPostgres,
       CreateRole, CreatePostgresDatabase, CompleteDatabaseProvision, FailDatabaseProvision,
       DatabaseRemovalPlan, dropPostgresDatabase, DropWithoutHost, removeDatabaseHost, removeHostVolume,
       CompleteDatabaseDeletion, rotateDatabasePassword, RotateDatabasePassword
  <1>4. CASE PostgresReady \/ ServerDeletion \/ EngineCrash \/ UNCHANGED vars
    BY <1>4 DEF PostgresReady, ServerDeletion, DeleteServer, DeleteHost, DeleteServerContainer, DeleteServerNetwork,
       FinalizeServerDeletion, EngineCrash, vars
  <1> QED BY <1>1, <1>2, <1>3, <1>4 DEF Next

\* Every step keeps the host that does not run tended to.
LEMMA TendedStep ==
  ASSUME TypeInv, HostSane, HostTended, [Next]_vars
  PROVE  HostTended'
  <1>0. /\ TypeOK /\ None \notin Requests /\ req \in [Requests -> Request] /\ (host.by \in Requests \/ host.by = None)
    BY DatabasesAssumption DEF TypeInv, TypeOK, Host, Maybe
  <1>1. Lingers => Lingers' BY OddGrows DEF Lingers
  <1>2. ASSUME host'.by = host.by, host'.running = host.running, Lingers' \/ \A q \in Requests : Tended(q) => Tended(q)'
        PROVE  HostTended'
    BY <1>0, <1>1, <1>2 DEF HostTended
  <1>3. ASSUME host'.by = None PROVE HostTended' BY <1>3 DEF HostTended
  <1>4. ASSUME NEW r \in Requests, Step(r) PROVE HostTended'
    <2>0. \A q \in Requests \ {r} : Tended(q) => Tended(q)' BY <1>0, <1>4, StepGoes DEF Tended, At
    <2>1. ASSUME host'.by = host.by, host'.running = host.running, ~At(r, "start") PROVE HostTended'
      BY <1>2, <2>0, <2>1 DEF Tended
    <2>2. CASE PrepareDatabase(r) BY <2>1, <2>2 DEF PrepareDatabase, postgres, At
    <2>3. ASSUME NEW d \in Requests, BeginDelete(r, d) \/ BeginRotate(r, d) PROVE HostTended'
      BY <2>1, <2>3 DEF BeginDelete, BeginRotate, postgres, At
    <2>4. CASE \/ FindHost(r) \/ waitForPostgres(r) \/ CreateRole(r) \/ CreatePostgresDatabase(r)
               \/ CompleteDatabaseProvision(r) \/ FailDatabaseProvision(r)
      BY <2>1, <2>4 DEF FindHost, waitForPostgres, CreateRole, CreatePostgresDatabase,
         CompleteDatabaseProvision, FailDatabaseProvision, postgres, At
    <2>5. CASE \/ DatabaseRemovalPlan(r) \/ dropPostgresDatabase(r) \/ DropWithoutHost(r)
               \/ CompleteDatabaseDeletion(r) \/ rotateDatabasePassword(r) \/ RotateDatabasePassword(r)
               \/ DropFault(r) \/ DeleteFault(r) \/ RotateFault(r)
      BY <2>1, <2>5 DEF DatabaseRemovalPlan, dropPostgresDatabase, DropWithoutHost, CompleteDatabaseDeletion,
         rotateDatabasePassword, RotateDatabasePassword, DropFault, DeleteFault, RotateFault, postgres, At
    <2>6. CASE CreateHostVolume(r) \/ initializeDatabaseVolume(r)
      BY <1>0, <2>1, <2>6, HostFields DEF CreateHostVolume, initializeDatabaseVolume, At
    <2>7. CASE CreateHost(r)
      <3>1. host'.by = r BY <1>0, <2>7, HostFields
      <3>2. req'[r] = [req[r] EXCEPT !.pc = "start", !.host = r] BY <1>0, <2>7 DEF CreateHost
      <3>3. Tended(r)' BY <1>0, <3>2 DEF Request, Tended, At
      <3> QED BY <3>1, <3>3 DEF HostTended
    <2>8. CASE StartHost(r) BY <1>0, <2>8, HostFields DEF HostTended
    <2>9. CASE removeDatabaseHost(r) BY <1>0, <1>3, <2>9, HostFields
    <2>10. CASE removeHostVolume(r)
      BY <1>0, <2>1, <2>10, HostFields DEF removeHostVolume, postgres, At
    <2>11. CASE CreateRefused(r) \/ CreateFault(r) \/ CreateAborted(r)
      <3>1. host' = Withdrawn(r)
        BY <2>11 DEF CreateRefused, CreateFault, CreateAborted, FailCreate
      <3>2. CASE Tended(r) /\ host.by = r
        <4>1. host'.by = None BY <3>1, <3>2 DEF Withdrawn, Tended, At
        <4> QED BY <1>3, <4>1
      <3>3. CASE ~(Tended(r) /\ host.by = r)
        <4>1. \/ host' = host
              \/ host'.by = None
          BY <1>0, <3>1, WithdrawnFields
        <4> QED BY <1>0, <1>1, <1>3, <2>0, <3>3, <4>1 DEF HostTended
      <3> QED BY <3>2, <3>3
    <2>12. CASE CreateLeft(r)
      <3>1. Lingers' BY <2>12 DEF CreateLeft, Lingers
      <3> QED BY <3>1 DEF HostTended
    <2> QED BY <1>4, <2>2, <2>3, <2>4, <2>5, <2>6, <2>7, <2>8, <2>9, <2>10, <2>11, <2>12
        DEF Step, Begin, Handle, Disturb
  <1>5. CASE PostgresReady
    <2>1. host' = [host EXCEPT !.ready = TRUE] /\ req' = req BY <1>5 DEF PostgresReady
    <2>2. host'.by = host.by /\ host'.running = host.running BY <1>0, <2>1 DEF TypeOK, Host
    <2> QED BY <1>2, <2>1, <2>2 DEF Tended, At
  <1>6. CASE DeleteHost
    <2>1. HostRemoved.by = None /\ HostRemoved \in Host BY <1>0 DEF HostRemoved, TypeOK, Host, Maybe
    <2>2. host'.by = None BY <1>6, <2>1 DEF DeleteHost, Host
    <2> QED BY <1>3, <2>2
  <1>7. CASE DeleteServer \/ DeleteServerContainer \/ DeleteServerNetwork \/ FinalizeServerDeletion \/ UNCHANGED vars
    BY <1>2, <1>7 DEF DeleteServer, DeleteServerContainer, DeleteServerNetwork, FinalizeServerDeletion,
       ServerStep, postgres, vars, Tended, At
  <1>8. CASE EngineCrash
    <2>1. Lingers' /\ host' = host BY <1>8 DEF EngineCrash, Lingers, postgres
    <2> QED BY <1>2, <2>1
  <1> QED BY <1>4, <1>5, <1>6, <1>7, <1>8 DEF Next, Step, ServerDeletion

\* The host of the initial state is tended to: there is none.
LEMMA TendedInit == Init => HostTended
  BY DEF Init, HostTended, NoHost

\* On a deleted server no database host runs, though creations may have run while its
\* resources were removed: a container that runs keeps the network and stops the deletion,
\* and without the network none is started.  One that was created without the network
\* is removed by the creation that fails to start it, unless the engine crashed there or
\* the removal failed.
THEOREM NoHostSurvives == Spec => []DeletedServerHasNoHost
  <1>1. ASSUME TypeInv, HostSane, HostTended PROVE DeletedServerHasNoHost
    <2> SUFFICES ASSUME srv = "gone", Quiet, odd \cap {"left", "crash"} = {}, host.by # None PROVE FALSE
      BY <1>1 DEF HostSane, DeletedServerHasNoHost
    <2>1. host.running = FALSE BY <1>1 DEF HostSane
    <2>2. Tended(host.by) BY <1>1, <2>1 DEF HostTended, Lingers
    <2>3. host.by \in Requests BY <1>1 DEF TypeInv, TypeOK, Host, Maybe
    <2> QED BY <2>2, <2>3 DEF Quiet, InFlight, Tended, At
  <1>2. TypeInv /\ HostSane /\ HostTended /\ [Next]_vars => (TypeInv /\ HostSane /\ HostTended)'
    BY NextTyped, HostStep, TendedStep
  <1> QED BY <1>1, <1>2, InitTyped, HostInit, TendedInit, PTL DEF Spec

-----------------------------------------------------------------------------
(* Databases, rows and handlers, as long as nothing is disturbed: handlers *)
(* at work at the same time are of different databases, and a deletion is  *)
(* alone.                                                                  *)

Removed(r) == req[r].pc \in {"removeHost", "removeVolume", "forget"}

Apart ==
  \A q, r \in Requests :
    q # r /\ InFlight(q) /\ InFlight(r) => req[q].db # req[r].db /\ ~DeleteStage(q)

\* What a handler relies on at each of its calls.
Stage(r) ==
  /\ Creating(r) \/ req[r].pc \in {"complete", "fail"}
       => rows[r].status = "provisioning" /\ rows[r].password = r
  /\ req[r].pc \in {"init", "create"} => host.volume.there
  /\ req[r].pc \in {"database", "complete"} => host.running /\ pg.roles[r] = r
  /\ req[r].pc = "complete" => r \in pg.databases
  /\ req[r].pc \in {"alter", "store"} => rows[req[r].db].status = "ready"
  /\ req[r].pc = "store" => pg.roles[req[r].db] = r
  /\ DeleteStage(r) => Present(req[r].db)
  /\ DeleteStage(r) /\ req[r].pc # "plan" => (req[r].last <=> RemovalPlan(req[r].db))
  /\ req[r].pc \in {"removeHost", "removeVolume"} => req[r].last
  /\ req[r].pc = "removeVolume" => host.by = None
  /\ req[r].pc = "forget" /\ req[r].last => host = NoHost

\* A ready database is served until its own deletion has dropped it; its role has the
\* password of the row, or that of a rotation about to store it.
ServedAt(d) ==
  rows[d].status = "ready" /\ (\A r \in Requests : req[r].db = d => ~Removed(r))
    => /\ host.running /\ d \in pg.databases
       /\ pg.roles[d] = rows[d].password \/ \E r \in Requests : req[r].db = d /\ req[r].pc = "store"

Housed ==
  /\ host.volume.there => host.volume.labelled
  /\ \A d \in Requests : Present(d) => hostRow
  /\ (\A d \in Requests : ~Present(d)) => ~hostRow /\ host = NoHost

Calm == Apart /\ (\A r \in Requests : Stage(r)) /\ (\A d \in Requests : ServedAt(d)) /\ Housed

\* Of two handlers under way neither deletes, so that what a handler under way is
\* about is served if it is ready and the handler itself does not remove it.
LEMMA ServedWhile ==
  ASSUME Calm, NEW r \in Requests, InFlight(r), ~Removed(r), req[r].db \in Requests,
         rows[req[r].db].status = "ready"
  PROVE  /\ host.running /\ req[r].db \in pg.databases
         /\ req[r].pc # "store" => pg.roles[req[r].db] = rows[req[r].db].password
  <1>1. ASSUME NEW q \in Requests, req[q].db = req[r].db, InFlight(q) PROVE q = r
    BY <1>1 DEF Calm, Apart
  <1>2. \A q \in Requests : req[q].db = req[r].db /\ (Removed(q) \/ req[q].pc = "store") => q = r
    BY <1>1 DEF Removed, InFlight
  <1>3. ServedAt(req[r].db) BY DEF Calm
  <1> QED BY <1>2, <1>3 DEF ServedAt

\* A step of the handler r that is about the database t keeps what the others rely on,
\* and the other databases, if it leaves them the host or there are none.
LEMMA FocusKeeps ==
  ASSUME TypeInv, Calm, NEW r \in Requests, NEW t \in Requests,
         InFlight(r) => req[r].db = t, InFlight(r)' => req'[r].db = t,
         \A q \in Requests \ {r} : req'[q] = req[q] /\ (InFlight(q) => req[q].db # t /\ ~DeleteStage(q)),
         DeleteStage(r)' => \A q \in Requests \ {r} : ~InFlight(q),
         \A d \in Requests \ {t} : rows'[d] = rows[d],
         \/ /\ host.running => /\ host'.running
                                /\ \A d \in Requests \ {t} : pg'.roles[d] = pg.roles[d] /\ (d \in pg.databases => d \in pg'.databases)
            /\ host.volume.there => \/ host'.volume.there
                                    \/ \A q \in Requests \ {r} : req[q].pc \notin {"init", "create"}
         \/ /\ \A q \in Requests \ {r} : ~InFlight(q)
            /\ \A d \in Requests \ {t} : ~Present(d)
  PROVE  /\ Apart'
         /\ \A q \in Requests \ {r} : Stage(q)'
         /\ \A d \in Requests \ {t} : ServedAt(d)'
  <1>0. /\ \A q \in Requests : InFlight(q) => req[q].db \in Requests
        /\ \A q \in Requests : Creating(q) \/ req[q].pc \in {"complete", "fail"} => req[q].db = q
    BY DEF TypeInv, Subjects
  <1>1. \A q \in Requests \ {r} : (InFlight(q)' <=> InFlight(q)) /\ (DeleteStage(q)' <=> DeleteStage(q))
    BY DEF InFlight, DeleteStage
  <1>2. Apart'
    <2> SUFFICES ASSUME NEW p \in Requests, NEW q \in Requests, p # q, InFlight(p)', InFlight(q)'
                 PROVE  req'[p].db # req'[q].db /\ ~DeleteStage(p)'
      BY DEF Apart
    <2>1. CASE p # r /\ q # r BY <1>1, <2>1 DEF Calm, Apart
    <2>2. CASE p = r BY <1>1, <2>2
    <2>3. CASE q = r BY <1>1, <2>3
    <2> QED BY <2>1, <2>2, <2>3
  <1>3. ASSUME NEW q \in Requests \ {r} PROVE Stage(q)'
    <2>0. Stage(q) /\ req'[q] = req[q] BY DEF Calm
    <2>1. CASE ~InFlight(q) BY <2>0, <2>1 DEF InFlight, Stage, Creating, DeleteStage
    <2>2. CASE InFlight(q)
      <3>1. req[q].db \in Requests \ {t} /\ ~DeleteStage(q) BY <1>0, <2>2
      <3>2. rows'[req[q].db] = rows[req[q].db] BY <3>1
      <3>3. req[q].pc \in {"init", "create"} => host'.volume.there BY <2>0, <2>2 DEF Stage
      <3>4. req[q].pc \in {"database", "complete"} => host.running BY <2>0 DEF Stage
      <3>5. req[q].pc = "store" => host.running BY <2>0, <2>2, <3>1, ServedWhile DEF Stage, Removed
      <3>6. req[q].pc \in {"database", "complete", "store"} =>
              /\ host'.running /\ pg'.roles[req[q].db] = pg.roles[req[q].db]
              /\ req[q].db \in pg.databases => req[q].db \in pg'.databases
        BY <2>2, <3>1, <3>4, <3>5
      <3>7. Creating(q) \/ req[q].pc \in {"complete", "fail"} => req[q].db = q BY <1>0
      <3> QED BY <2>0, <3>1, <3>2, <3>3, <3>6, <3>7 DEF Stage, Creating, DeleteStage
    <2> QED BY <2>1, <2>2
  <1>4. ASSUME NEW d \in Requests \ {t} PROVE ServedAt(d)'
    <2> SUFFICES ASSUME rows'[d].status = "ready", \A q \in Requests : req'[q].db = d => ~Removed(q)'
                 PROVE  /\ host'.running /\ d \in pg'.databases
                        /\ \/ pg'.roles[d] = rows'[d].password
                           \/ \E q \in Requests : req'[q].db = d /\ req'[q].pc = "store"
      BY DEF ServedAt
    <2>1. \A q \in Requests : req[q].db = d /\ (Removed(q) \/ req[q].pc = "store") => q # r
      BY DEF InFlight, Removed
    <2>2. \A q \in Requests : req[q].db = d => ~Removed(q) BY <2>1 DEF Removed
    <2>3. rows[d].status = "ready" /\ Present(d) BY DEF Present
    <2>4. /\ host.running /\ d \in pg.databases
          /\ pg.roles[d] = rows[d].password \/ \E q \in Requests : req[q].db = d /\ req[q].pc = "store"
      BY <2>2, <2>3 DEF Calm, ServedAt
    <2>5. host'.running /\ pg'.roles[d] = pg.roles[d] /\ d \in pg'.databases BY <2>3, <2>4
    <2>6. \A q \in Requests : req[q].db = d /\ req[q].pc = "store" => req'[q] = req[q] BY <2>1
    <2> QED BY <2>4, <2>5, <2>6
  <1> QED BY <1>2, <1>3, <1>4

\* The steps of a handler under way.
Going(r) == Handle(r) \/ Disturb(r)

\* Such a step is of a handler with a database, and is alone if it is of a deletion.
LEMMA OnItsWay ==
  ASSUME TypeInv, Calm, NEW r \in Requests, Going(r), NEW t, t = req[r].db
  PROVE  /\ InFlight(r) /\ t \in Requests /\ (InFlight(r)' => req'[r].db = t)
         /\ \A q \in Requests \ {r} : req'[q] = req[q] /\ (InFlight(q) => req[q].db # t /\ ~DeleteStage(q))
         /\ DeleteStage(r) => \A q \in Requests \ {r} : ~InFlight(q)
         /\ DeleteStage(r)' => DeleteStage(r)
  <1>1. TypeOK /\ Subjects BY DEF TypeInv
  <1>2. InFlight(r)
    BY DEF Going, Handle, Disturb, FindHost, CreateHostVolume, initializeDatabaseVolume, CreateHost, StartHost, waitForPostgres,
       CreateRole, CreatePostgresDatabase, CompleteDatabaseProvision, FailDatabaseProvision, CreateRefused,
       DatabaseRemovalPlan, dropPostgresDatabase, DropWithoutHost, removeDatabaseHost, removeHostVolume,
       CompleteDatabaseDeletion, rotateDatabasePassword, RotateDatabasePassword, CreateFault, CreateAborted,
       CreateLeft, DropFault, DeleteFault, RotateFault, At, InFlight, Creating
  <1>3. (\A q \in Requests \ {r} : req'[q] = req[q]) /\ Goes(r) BY <1>1, StepGoes DEF Going, Step
  <1>4. t \in Requests BY <1>1, <1>2 DEF Subjects
  <1>5. req[r].pc # "idle" BY <1>2 DEF InFlight
  <1>6. (InFlight(r)' => req'[r].db = t) /\ (DeleteStage(r)' => DeleteStage(r))
    BY <1>3, <1>5 DEF Goes, PrepareDatabase, BeginDelete, BeginRotate, At, InFlight, DeleteStage
  <1>7. \A q \in Requests \ {r} : InFlight(q) => req[q].db # t /\ ~DeleteStage(q) BY <1>2 DEF Calm, Apart
  <1>8. DeleteStage(r) => \A q \in Requests \ {r} : ~InFlight(q) BY <1>2 DEF Calm, Apart
  <1> QED BY <1>2, <1>3, <1>4, <1>6, <1>7, <1>8

\* So that it is enough to look at the handler, its database and the host.
LEMMA GoingKeeps ==
  ASSUME TypeInv, Calm, NEW r \in Requests, Going(r), NEW t, t = req[r].db,
         \A d \in Requests \ {t} : rows'[d] = rows[d],
         \/ /\ host.running => /\ host'.running
                                /\ \A d \in Requests \ {t} : pg'.roles[d] = pg.roles[d] /\ (d \in pg.databases => d \in pg'.databases)
            /\ host.volume.there => \/ host'.volume.there
                                    \/ \A q \in Requests \ {r} : req[q].pc \notin {"init", "create"}
         \/ /\ \A q \in Requests \ {r} : ~InFlight(q)
            /\ \A d \in Requests \ {t} : ~Present(d),
         Stage(r)', ServedAt(t)', Housed'
  PROVE  Calm'
  <1>1. /\ InFlight(r) /\ t \in Requests /\ (InFlight(r)' => req'[r].db = t)
        /\ \A q \in Requests \ {r} : req'[q] = req[q] /\ (InFlight(q) => req[q].db # t /\ ~DeleteStage(q))
        /\ DeleteStage(r)' => \A q \in Requests \ {r} : ~InFlight(q)
    BY OnItsWay
  <1>2. /\ Apart' /\ \A q \in Requests \ {r} : Stage(q)'
        /\ \A d \in Requests \ {t} : ServedAt(d)'
    BY <1>1, FocusKeeps
  <1>3. \A q \in Requests : Stage(q)' BY <1>2
  <1>4. \A d \in Requests : ServedAt(d)' BY <1>2
  <1> QED BY <1>2, <1>3, <1>4 DEF Calm

\* A handler that has ended relies on nothing.
LEMMA DoneStage ==
  ASSUME NEW r, req'[r].pc = "done" PROVE Stage(r)'
  BY DEF Stage, Creating, DeleteStage

\* A host that answers runs.
LEMMA Running ==
  ASSUME TypeInv, HostSane, host.ready PROVE host.running
  BY DEF TypeInv, TypeOK, Host, HostSane

\* A creation that goes on: its own row is not ready yet, the host stays or comes.
LEMMA CreateCalm ==
  ASSUME TypeInv, HostSane, Calm, NEW r \in Requests,
         \/ FindHost(r) \/ CreateHostVolume(r) \/ initializeDatabaseVolume(r) \/ CreateHost(r)
         \/ StartHost(r) \/ waitForPostgres(r) \/ CreateRole(r) \/ CreatePostgresDatabase(r)
  PROVE  Calm'
  <1>0. /\ TypeOK /\ req \in [Requests -> Request] /\ None \notin Requests
        /\ pg \in [roles : [Requests -> Maybe], databases : SUBSET Requests]
    BY DatabasesAssumption DEF TypeInv, TypeOK
  <1>1. Creating(r) /\ Going(r) /\ rows' = rows /\ hostRow' = hostRow
    BY DEF Going, Handle, FindHost, CreateHostVolume, initializeDatabaseVolume, CreateHost, StartHost, waitForPostgres,
       CreateRole, CreatePostgresDatabase, At, Creating, panel
  <1>2. req[r].db = r BY <1>1 DEF TypeInv, Subjects
  <1>3. Stage(r) BY DEF Calm
  <1>4. rows[r].status = "provisioning" /\ rows[r].password = r BY <1>1, <1>3 DEF Stage
  <1>5. ServedAt(r)' BY <1>1, <1>4 DEF ServedAt
  <1>6. Present(r) /\ Present(r)' BY <1>1, <1>4 DEF Present
  <1>7. ASSUME host'.volume.there => host'.volume.labelled PROVE Housed'
    BY <1>1, <1>6, <1>7 DEF Housed, Calm, Present
  <1>8. ASSUME host' = host PROVE Housed' BY <1>7, <1>8 DEF Calm, Housed
  <1>9. /\ \A pc : Goto(r, pc) => req'[r].pc = pc
    BY <1>0, Moves
  <1>10. CASE FindHost(r) \/ waitForPostgres(r)
    <2>1. host' = host /\ pg' = pg BY <1>10 DEF FindHost, waitForPostgres, postgres
    <2>2. req'[r].pc \in {"start", "wait", "volume", "role"}
      <3>1. CASE FindHost(r)
        <4>1. \/ \E pc \in {"start", "wait"} : req'[r] = [req[r] EXCEPT !.pc = pc, !.host = host.by]
              \/ req'[r] = [req[r] EXCEPT !.pc = "volume"]
          BY <1>0, <3>1 DEF FindHost
        <4> QED BY <1>0, <4>1 DEF Request
      <3>2. CASE waitForPostgres(r) BY <1>9, <3>2 DEF waitForPostgres
      <3> QED BY <1>10, <3>1, <3>2
    <2>3. Stage(r)' BY <1>1, <1>4, <2>2 DEF Stage, Creating, DeleteStage
    <2> QED BY <1>1, <1>2, <1>5, <1>8, <2>1, <2>3, GoingKeeps
  <1>11. CASE CreateHostVolume(r)
    <2>1. /\ host'.running = host.running /\ host'.volume.there
          /\ host'.volume.labelled = (host.volume.there => host.volume.labelled)
      BY <1>0, <1>11, HostFields
    <2>2. req'[r].pc = "init" /\ pg' = pg BY <1>9, <1>11 DEF CreateHostVolume
    <2>3. Housed' BY <1>7, <2>1 DEF Calm, Housed
    <2>4. Stage(r)' BY <1>1, <1>4, <2>1, <2>2 DEF Stage, Creating, DeleteStage
    <2> QED BY <1>1, <1>2, <1>5, <2>1, <2>2, <2>3, <2>4, GoingKeeps
  <1>12. CASE initializeDatabaseVolume(r)
    <2>1. host.volume.there BY <1>3, <1>12 DEF initializeDatabaseVolume, At, Stage
    <2>2. /\ host'.running = host.running /\ host'.volume.there /\ host'.volume.labelled = host.volume.labelled
      BY <1>0, <1>12, <2>1, HostFields
    <2>3. req'[r].pc = "create" /\ pg' = pg BY <1>9, <1>12 DEF initializeDatabaseVolume
    <2>4. Housed' BY <1>7, <2>1, <2>2 DEF Calm, Housed
    <2>5. Stage(r)' BY <1>1, <1>4, <2>2, <2>3 DEF Stage, Creating, DeleteStage
    <2> QED BY <1>1, <1>2, <1>5, <2>2, <2>3, <2>4, <2>5, GoingKeeps
  <1>13. CASE CreateHost(r)
    <2>1. host.volume.there BY <1>3, <1>13 DEF CreateHost, At, Stage
    <2>2. /\ host'.running = host.running /\ host'.volume.there /\ host'.volume.labelled = host.volume.labelled
      BY <1>0, <1>13, <2>1, HostFields
    <2>3. req'[r] = [req[r] EXCEPT !.pc = "start", !.host = r] /\ pg' = pg BY <1>0, <1>13 DEF CreateHost
    <2>4. req'[r].pc = "start" BY <1>0, <2>3 DEF Request
    <2>5. Housed' BY <1>7, <2>1, <2>2 DEF Calm, Housed
    <2>6. Stage(r)' BY <1>1, <1>4, <2>4 DEF Stage, Creating, DeleteStage
    <2> QED BY <1>1, <1>2, <1>5, <2>2, <2>3, <2>5, <2>6, GoingKeeps
  <1>s. CASE StartHost(r)
    <2>1. host'.running /\ host'.volume = host.volume BY <1>0, <1>s, HostFields
    <2>2. req'[r].pc = "wait" /\ pg' = pg BY <1>9, <1>s DEF StartHost
    <2>3. Housed' BY <1>7, <2>1 DEF Calm, Housed
    <2>4. Stage(r)' BY <1>1, <1>4, <2>2 DEF Stage, Creating, DeleteStage
    <2> QED BY <1>1, <1>2, <1>5, <2>1, <2>2, <2>3, <2>4, GoingKeeps
  <1>14. CASE CreateRole(r)
    <2>1. host' = host /\ host.running BY <1>14, Running DEF CreateRole, Usable
    <2>2. pg' = [pg EXCEPT !.roles[r] = r] BY <1>2, <1>14 DEF CreateRole, SetRole
    <2>3. pg'.roles[r] = r /\ pg'.databases = pg.databases /\ \A d \in Requests \ {r} : pg'.roles[d] = pg.roles[d]
      BY <1>0, <2>2
    <2>4. req'[r].pc = "database" BY <1>9, <1>14 DEF CreateRole
    <2>5. Stage(r)' BY <1>1, <1>4, <2>1, <2>3, <2>4 DEF Stage, Creating, DeleteStage
    <2> QED BY <1>1, <1>2, <1>5, <1>8, <2>1, <2>3, <2>5, GoingKeeps
  <1>15. CASE CreatePostgresDatabase(r)
    <2>1. host' = host /\ host.running BY <1>15, Running DEF CreatePostgresDatabase, Usable
    <2>2. pg' = [pg EXCEPT !.databases = @ \cup {r}] BY <1>2, <1>15 DEF CreatePostgresDatabase
    <2>3. pg'.roles = pg.roles /\ pg'.databases = pg.databases \cup {r} BY <1>0, <2>2
    <2>4. req'[r].pc = "complete" /\ req[r].pc = "database" BY <1>9, <1>15 DEF CreatePostgresDatabase, At
    <2>5. Stage(r)' BY <1>1, <1>3, <1>4, <2>1, <2>3, <2>4 DEF Stage, Creating, DeleteStage
    <2> QED BY <1>1, <1>2, <1>5, <1>8, <2>1, <2>3, <2>5, GoingKeeps
  <1> QED BY <1>10, <1>11, <1>12, <1>13, <1>s, <1>14, <1>15

\* A creation that ends, well or not, records that in its own row.
LEMMA EndCalm ==
  ASSUME TypeInv, HostSane, Calm, NEW r \in Requests, CompleteDatabaseProvision(r) \/ FailDatabaseProvision(r)
  PROVE  Calm'
  <1>0. /\ TypeOK /\ req \in [Requests -> Request] /\ rows \in [Requests -> Row] BY DEF TypeInv, TypeOK
  <1>1. /\ Going(r) /\ req[r].pc \in {"complete", "fail"} /\ host' = host /\ pg' = pg /\ hostRow' = hostRow
    BY DEF Going, Handle, CompleteDatabaseProvision, FailDatabaseProvision, At, postgres
  <1>2. req[r].db = r BY <1>1 DEF TypeInv, Subjects
  <1>3. Stage(r) BY DEF Calm
  <1>4. rows[r].status = "provisioning" /\ rows[r].password = r /\ Present(r) BY <1>1, <1>3 DEF Stage, Present
  <1>5. PICK st \in {"ready", "failed"} :
           /\ rows' = [rows EXCEPT ![r].status = st]
           /\ st = "ready" => req[r].pc = "complete"
    BY <1>2, <1>4 DEF CompleteDatabaseProvision, FailDatabaseProvision, Recorded, At
  <1>6. rows'[r].status = st /\ rows'[r].password = r /\ \A d \in Requests \ {r} : rows'[d] = rows[d]
    BY <1>0, <1>4, <1>5 DEF Row
  <1>7. req'[r].pc = "done" BY <1>0, Moves DEF CompleteDatabaseProvision, FailDatabaseProvision
  <1>8. Stage(r)' BY <1>7, DoneStage
  <1>9. ServedAt(r)'
    <2>1. CASE st = "failed" BY <1>6, <2>1 DEF ServedAt
    <2>2. CASE st = "ready"
      <3>1. host.running /\ pg.roles[r] = r /\ r \in pg.databases BY <1>3, <1>5, <2>2 DEF Stage
      <3> QED BY <1>1, <1>6, <3>1 DEF ServedAt
    <2> QED BY <2>1, <2>2
  <1>10. Housed'
    <2>1. \A d \in Requests : Present(d)' <=> Present(d) BY <1>4, <1>6 DEF Present
    <2> QED BY <1>1, <2>1 DEF Calm, Housed
  <1> QED BY <1>1, <1>2, <1>6, <1>8, <1>9, <1>10, GoingKeeps

\* A creation that fails gives up its own row, and what it withdraws nobody else uses:
\* where others do, the history says so.
LEMMA FailCalm ==
  ASSUME TypeInv, HostSane, Calm, Undisturbed', NEW r \in Requests,
         CreateRefused(r) \/ CreateFault(r) \/ CreateLeft(r) \/ CreateAborted(r)
  PROVE  Calm'
  <1>0. /\ TypeOK /\ req \in [Requests -> Request] /\ None \notin Requests
    BY DatabasesAssumption DEF TypeInv, TypeOK
  <1>1. /\ Going(r) /\ (Creating(r) \/ At(r, "complete")) /\ (Goto(r, "fail") \/ Finish(r))
        /\ host' = Withdrawn(r) /\ pg' = Kept(host') /\ rows' = rows /\ hostRow' = hostRow
        /\ \E what : odd' = odd \cup what \cup IF host' # host /\ Shared(r) THEN {"withdrawn"} ELSE {}
    BY DEF Going, Handle, Disturb, CreateRefused, CreateFault, CreateLeft, CreateAborted, FailCreate, Creating, At,
       panel, Undisturbed
  <1>2. req[r].db = r BY <1>1 DEF TypeInv, Subjects, At
  <1>3. Stage(r) BY DEF Calm
  <1>4. rows[r].status = "provisioning" /\ rows[r].password = r /\ Present(r) /\ Present(r)'
    BY <1>1, <1>3 DEF Stage, Present, At
  <1>5. ServedAt(r)' BY <1>1, <1>4 DEF ServedAt
  <1>6. req'[r].pc \in {"fail", "done"} BY <1>0, <1>1, Moves
  <1>7. Stage(r)' BY <1>1, <1>4, <1>6 DEF Stage, Creating, DeleteStage
  <1>8. host' # host => ~Shared(r) BY <1>1 DEF Undisturbed
  <1>9. \A q \in Requests \ {r} : InFlight(q) => req[q].db \in Requests \ {r} /\ ~DeleteStage(q)
    BY <1>1, <1>2, OnItsWay DEF TypeInv, Subjects
  <1>10. ASSUME host' = host PROVE Calm'
    <2>1. host.running => pg' = pg BY <1>1, <1>10 DEF HostSane, Kept
    <2>2. Housed' BY <1>1, <1>10 DEF Calm, Housed, Present
    <2> QED BY <1>1, <1>2, <1>5, <1>7, <1>10, <2>1, <2>2, GoingKeeps
  <1>11. ASSUME host' # host PROVE Calm'
    <2>1. /\ host'.by = None /\ host'.volume = NoVolume
          /\ \/ host.by = r
             \/ host.by = None
      BY <1>0, <1>1, <1>11, WithdrawnFields
    <2>2. Housed' BY <1>1, <1>4, <2>1 DEF Calm, Housed, Present, NoVolume
    <2>3. CASE host.by = None
      <3>1. \A q \in Requests \ {r} : req[q].pc \notin {"init", "create"} BY <1>8, <1>11, <2>3 DEF Shared
      <3>2. ~host.running BY <2>3 DEF HostSane
      <3> QED BY <1>1, <1>2, <1>5, <1>7, <2>2, <3>1, <3>2, GoingKeeps
    <2>4. CASE host.by = r
      <3>1. \A d \in Requests \ {r} : ~Present(d) BY <1>0, <1>8, <1>11, <2>4 DEF Shared
      <3>2. ASSUME NEW q \in Requests \ {r}, InFlight(q) PROVE FALSE
        <4>1. Stage(q) /\ req[q] \in Request BY <1>0 DEF Calm
        <4>2. ~Present(q) /\ ~Present(req[q].db) /\ ~DeleteStage(q) BY <1>9, <3>1, <3>2
        <4>3. ~Creating(q) /\ req[q].pc \notin {"complete", "fail", "alter", "store"} BY <4>1, <4>2 DEF Stage, Present
        <4> QED BY <3>2, <4>1, <4>2, <4>3 DEF Creating, DeleteStage, InFlight, Request
      <3> QED BY <1>1, <1>2, <1>5, <1>7, <2>2, <3>1, <3>2, GoingKeeps
    <2> QED BY <2>1, <2>3, <2>4
  <1> QED BY <1>10, <1>11

\* A rotation changes the password of its own database, in PostgreSQL and then in the row.
LEMMA RotateCalm ==
  ASSUME TypeInv, HostSane, Calm, Undisturbed', NEW r \in Requests,
         rotateDatabasePassword(r) \/ RotateDatabasePassword(r) \/ RotateFault(r)
  PROVE  Calm'
  <1>0. /\ TypeOK /\ req \in [Requests -> Request] /\ None \notin Requests /\ rows \in [Requests -> Row]
        /\ pg \in [roles : [Requests -> Maybe], databases : SUBSET Requests]
    BY DatabasesAssumption DEF TypeInv, TypeOK
  <1>1. /\ Going(r) /\ req[r].pc \in {"alter", "store"} /\ host' = host /\ hostRow' = hostRow
    BY DEF Going, Handle, Disturb, rotateDatabasePassword, RotateDatabasePassword, RotateFault, At, panel, postgres
  <1>2. PICK t : t = req[r].db OBVIOUS
  <1>3. /\ InFlight(r) /\ t \in Requests BY <1>1, <1>2, OnItsWay
  <1>4. Stage(r) BY DEF Calm
  <1>5. rows[t].status = "ready" BY <1>1, <1>2, <1>4 DEF Stage
  <1>6. /\ host.running /\ t \in pg.databases
        /\ req[r].pc # "store" => pg.roles[t] = rows[t].password
    BY <1>1, <1>2, <1>3, <1>5, ServedWhile DEF Removed
  <1>7. CASE RotateDatabasePassword(r)
    <2>1. rows' = [rows EXCEPT ![t].password = r] /\ pg' = pg /\ At(r, "store") BY <1>2, <1>5, <1>7 DEF RotateDatabasePassword, postgres
    <2>2. rows'[t].password = r /\ rows'[t].status = "ready" /\ \A d \in Requests \ {t} : rows'[d] = rows[d]
      BY <1>0, <1>3, <1>5, <2>1 DEF Row
    <2>3. Stage(r)' BY <1>0, <1>7, Moves, DoneStage DEF RotateDatabasePassword
    <2>4. pg.roles[t] = r BY <1>2, <1>4, <2>1 DEF Stage, At
    <2>5. ServedAt(t)' BY <1>1, <1>6, <2>1, <2>2, <2>4 DEF ServedAt
    <2>6. \A d \in Requests : Present(d)' <=> Present(d) BY <1>5, <2>2 DEF Present
    <2>7. Housed' BY <1>1, <2>6 DEF Calm, Housed
    <2> QED BY <1>1, <1>2, <2>1, <2>2, <2>3, <2>5, <2>7, GoingKeeps
  <1>8. CASE rotateDatabasePassword(r) /\ host.ready /\ pg.roles[t] # None
    <2>1. pg' = [pg EXCEPT !.roles[t] = r] /\ rows' = rows BY <1>2, <1>8 DEF rotateDatabasePassword, SetRole, panel
    <2>2. pg'.roles[t] = r /\ pg'.databases = pg.databases /\ \A d \in Requests \ {t} : pg'.roles[d] = pg.roles[d]
      BY <1>0, <1>3, <2>1
    <2>3. req'[r].pc = "store" /\ req'[r].db = t BY <1>0, <1>2, <1>8, Moves DEF rotateDatabasePassword
    <2>4. Stage(r)' BY <1>5, <2>1, <2>2, <2>3 DEF Stage, Creating, DeleteStage
    <2>5. ServedAt(t)' BY <1>1, <1>6, <2>2, <2>3 DEF ServedAt
    <2>6. Housed' BY <1>1, <2>1 DEF Calm, Housed, Present
    <2> QED BY <1>1, <1>2, <2>1, <2>2, <2>4, <2>5, <2>6, GoingKeeps
  <1>9. CASE \/ rotateDatabasePassword(r) /\ ~(host.ready /\ pg.roles[t] # None)
             \/ RotateFault(r)
    <2>1. pg' = pg /\ rows' = rows /\ Finish(r) BY <1>2, <1>9 DEF rotateDatabasePassword, RotateFault, panel, postgres
    <2>2. At(r, "alter") BY <1>1, <1>9 DEF rotateDatabasePassword, RotateFault, At, Undisturbed
    <2>3. Stage(r)' BY <1>0, <2>1, Moves, DoneStage
    <2>4. ServedAt(t)' BY <1>1, <1>6, <2>1, <2>2 DEF ServedAt, At
    <2>5. Housed' BY <1>1, <2>1 DEF Calm, Housed, Present
    <2> QED BY <1>1, <1>2, <2>1, <2>3, <2>4, <2>5, GoingKeeps
  <1> QED BY <1>7, <1>8, <1>9

\* A deletion drops its own database; the host goes with the last row, which nothing
\* that is still there needs, as the deletion is alone.
LEMMA DeleteCalm ==
  ASSUME TypeInv, HostSane, Calm, Undisturbed', NEW r \in Requests,
         \/ DatabaseRemovalPlan(r) \/ dropPostgresDatabase(r) \/ DropWithoutHost(r)
         \/ removeDatabaseHost(r) \/ removeHostVolume(r) \/ CompleteDatabaseDeletion(r)
         \/ DropFault(r) \/ DeleteFault(r)
  PROVE  Calm'
  <1>0. /\ TypeOK /\ req \in [Requests -> Request] /\ None \notin Requests /\ rows \in [Requests -> Row]
        /\ pg \in [roles : [Requests -> Maybe], databases : SUBSET Requests] /\ hostRow \in BOOLEAN
    BY DatabasesAssumption DEF TypeInv, TypeOK
  <1>1. Going(r) /\ DeleteStage(r)
    BY DEF Going, Handle, Disturb, DatabaseRemovalPlan, dropPostgresDatabase, DropWithoutHost, removeDatabaseHost,
       removeHostVolume, CompleteDatabaseDeletion, DropFault, DeleteFault, At, DeleteStage
  <1>2. PICK t : t = req[r].db OBVIOUS
  <1>3. /\ InFlight(r) /\ t \in Requests /\ (InFlight(r)' => req'[r].db = t)
        /\ \A q \in Requests \ {r} : ~InFlight(q)
    BY <1>1, <1>2, OnItsWay
  <1>4. Stage(r) /\ Housed BY DEF Calm
  <1>5. Present(t) BY <1>1, <1>2, <1>4 DEF Stage
  <1>6. req[r].last => RemovalPlan(t) \/ At(r, "plan") BY <1>1, <1>2, <1>4 DEF Stage, At
  <1>7. ASSUME req[r].pc \in {"plan", "drop"}, host' = host, pg' = pg, rows' = rows, hostRow' = hostRow, Stage(r)'
        PROVE  Calm'
    <2>1. rows[t].status = "ready" => /\ host.running /\ t \in pg.databases
                                      /\ pg.roles[t] = rows[t].password
      BY <1>2, <1>3, <1>7, ServedWhile DEF Removed
    <2>2. ServedAt(t)' BY <1>7, <2>1 DEF ServedAt
    <2>3. Housed' BY <1>4, <1>7 DEF Housed, Present
    <2> QED BY <1>1, <1>2, <1>7, <2>2, <2>3, GoingKeeps
  <1>8. ASSUME InFlight(r)', Removed(r)' PROVE ServedAt(t)' BY <1>3, <1>8 DEF ServedAt
  <1>9. ASSUME rows' = rows, hostRow' = hostRow, host'.volume.there => host'.volume.labelled
        PROVE  Housed' BY <1>3, <1>4, <1>5, <1>9 DEF Housed, Present
  <1>10. CASE DatabaseRemovalPlan(r)
    <2> DEFINE b == RemovalPlan(req[r].db)
    <2>1. req' = [req EXCEPT ![r] = [@ EXCEPT !.pc = "drop", !.last = b]] BY <1>2, <1>5, <1>10 DEF DatabaseRemovalPlan
    <2>2. b = RemovalPlan(t) BY <1>2
    <2> HIDE DEF b
    <2>3. req'[r] = [req[r] EXCEPT !.pc = "drop", !.last = b] BY <1>0, <2>1
    <2>4. req'[r].pc = "drop" /\ req'[r].db = t /\ req'[r].last = b BY <1>0, <1>2, <2>3 DEF Request
    <2>5. /\ host' = host /\ pg' = pg /\ rows' = rows /\ hostRow' = hostRow /\ At(r, "plan")
      BY <1>10 DEF DatabaseRemovalPlan, panel, postgres
    <2>6. RemovalPlan(t)' <=> RemovalPlan(t) BY <2>5 DEF RemovalPlan, Present
    <2>7. Present(t)' BY <1>5, <2>5 DEF Present
    <2>8. Stage(r)' BY <2>2, <2>4, <2>6, <2>7 DEF Stage, Creating, DeleteStage, RemovalPlan
    <2> QED BY <1>7, <2>5, <2>8 DEF At
  <1>11. ASSUME rows' = rows, hostRow' = hostRow, At(r, "drop"), host' = host,
                \A d \in Requests \ {t} : pg'.roles[d] = pg.roles[d] /\ (d \in pg.databases => d \in pg'.databases),
                Goto(r, IF req[r].last THEN "removeHost" ELSE "forget")
         PROVE  Calm'
    <2>1. /\ req'[r].pc = IF req[r].last THEN "removeHost" ELSE "forget"
          /\ req'[r].db = t /\ req'[r].last = req[r].last
      BY <1>0, <1>2, <1>11, Moves
    <2>2. req[r].last <=> RemovalPlan(t) BY <1>1, <1>2, <1>4, <1>11 DEF Stage, At
    <2>3. RemovalPlan(t)' <=> RemovalPlan(t) BY <1>11 DEF RemovalPlan, Present
    <2>4. Present(t)' BY <1>5, <1>11 DEF Present
    <2>5. Stage(r)' BY <2>1, <2>2, <2>3, <2>4 DEF Stage, Creating, DeleteStage, RemovalPlan
    <2>6. ServedAt(t)' BY <1>8, <2>1 DEF Removed, InFlight
    <2>7. Housed' BY <1>4, <1>9, <1>11 DEF Housed
    <2> QED BY <1>1, <1>2, <1>11, <2>5, <2>6, <2>7, GoingKeeps
  <1>12. CASE dropPostgresDatabase(r)
    <2>1. pg' = [roles |-> [pg.roles EXCEPT ![t] = None], databases |-> pg.databases \ {t}]
      BY <1>2, <1>12 DEF dropPostgresDatabase
    <2>2. \A d \in Requests \ {t} : pg'.roles[d] = pg.roles[d] /\ (d \in pg.databases => d \in pg'.databases)
      BY <1>0, <2>1
    <2> QED BY <1>11, <1>12, <2>2 DEF dropPostgresDatabase, panel
  <1>13. CASE DropWithoutHost(r)
    <2>0. host' = host /\ pg' = pg /\ rows' = rows /\ hostRow' = hostRow /\ At(r, "drop")
      BY <1>13 DEF DropWithoutHost, panel, postgres
    <2>1. CASE host.by = None /\ req[r].last
      BY <1>11, <1>13, <2>0, <2>1 DEF DropWithoutHost
    <2>2. CASE ~(host.by = None /\ req[r].last)
      <3>1. Finish(r) BY <1>13, <2>2 DEF DropWithoutHost
      <3>2. Stage(r)' BY <1>0, <3>1, Moves, DoneStage
      <3> QED BY <1>7, <2>0, <3>2 DEF At
    <2> QED BY <2>1, <2>2
  <1>14. ASSUME rows' = rows, hostRow' = hostRow, req[r].pc \in {"removeHost", "removeVolume"},
                host'.by = None, host'.volume.there => host'.volume.labelled,
                \/ Goto(r, "removeVolume")
                \/ Goto(r, "forget") /\ host' = NoHost
         PROVE  Calm'
    <2>1. req[r].last /\ RemovalPlan(t) BY <1>1, <1>2, <1>4, <1>14 DEF Stage
    <2>2. \A d \in Requests \ {t} : ~Present(d) BY <2>1 DEF RemovalPlan
    <2>3. /\ req'[r].db = t /\ req'[r].last = req[r].last
          /\ req'[r].pc = "removeVolume" \/ (req'[r].pc = "forget" /\ host' = NoHost)
      BY <1>0, <1>2, <1>14, Moves
    <2>4. RemovalPlan(t)' BY <1>14, <2>1 DEF RemovalPlan, Present
    <2>5. Present(t)' BY <1>5, <1>14 DEF Present
    <2>6. Stage(r)' BY <1>14, <2>1, <2>3, <2>4, <2>5 DEF Stage, Creating, DeleteStage
    <2>7. ServedAt(t)' BY <1>8, <2>3 DEF Removed, InFlight
    <2>8. Housed' BY <1>9, <1>14
    <2> QED BY <1>1, <1>2, <1>3, <1>14, <2>2, <2>6, <2>7, <2>8, GoingKeeps
  <1>15. CASE removeDatabaseHost(r)
    <2>1. host'.by = None /\ host'.volume = host.volume BY <1>0, <1>15, HostFields
    <2> QED BY <1>4, <1>14, <1>15, <2>1 DEF Housed, removeDatabaseHost, At, panel
  <1>16. CASE removeHostVolume(r)
    <2>1. host.by = None /\ (host.volume.there => host.volume.labelled) BY <1>4, <1>16 DEF removeHostVolume, At, Stage, Housed
    <2>2. host' = VolumeRemoved /\ Goto(r, "forget") /\ rows' = rows /\ hostRow' = hostRow /\ At(r, "removeVolume")
      BY <1>16, <2>1 DEF removeHostVolume, VolumeRemovable, panel
    <2>3. host'.by = None /\ host'.running = FALSE /\ host'.ready = FALSE /\ host'.volume = NoVolume
      BY <1>0, <2>1, <2>2, HostFields DEF HostSane
    <2>4. host' \in Host BY <1>16, OthersTyped DEF TypeOK
    <2>5. host' = NoHost BY <2>3, <2>4 DEF NoHost, Host
    <2>6. host'.volume.there => host'.volume.labelled BY <2>3 DEF NoVolume
    <2> QED BY <1>14, <2>2, <2>3, <2>5, <2>6 DEF At
  <1>17. CASE CompleteDatabaseDeletion(r)
    <2>1. /\ rows' = [rows EXCEPT ![t] = NoRow] /\ hostRow' = (hostRow /\ ~req[r].last) /\ Finish(r)
          /\ host' = host /\ pg' = pg /\ At(r, "forget")
      BY <1>2, <1>17 DEF CompleteDatabaseDeletion, postgres
    <2>2. rows'[t] = NoRow /\ \A d \in Requests \ {t} : rows'[d] = rows[d] BY <1>0, <1>3, <2>1
    <2>3. Stage(r)' BY <1>0, <2>1, Moves, DoneStage
    <2>4. ServedAt(t)' BY <2>2 DEF ServedAt, NoRow
    <2>5. /\ ~Present(t)' /\ \A d \in Requests \ {t} : Present(d)' <=> Present(d)
      BY <2>2 DEF Present, NoRow
    <2>6. req[r].last <=> RemovalPlan(t) BY <1>1, <1>2, <1>4, <2>1 DEF Stage, At
    <2>7. Housed'
      <3>1. CASE req[r].last
        <4>1. host = NoHost BY <1>4, <2>1, <3>1 DEF Stage, At
        <4>2. \A d \in Requests : ~Present(d)' BY <2>5, <2>6, <3>1 DEF RemovalPlan
        <4> QED BY <1>4, <2>1, <3>1, <4>1, <4>2 DEF Housed
      <3>2. CASE ~req[r].last
        <4>1. PICK e \in Requests \ {t} : Present(e) BY <2>6, <3>2 DEF RemovalPlan
        <4>2. Present(e)' BY <2>5, <4>1
        <4> QED BY <1>4, <1>5, <1>3, <2>1, <3>2, <4>2 DEF Housed
      <3> QED BY <3>1, <3>2
    <2> QED BY <1>1, <1>2, <2>1, <2>2, <2>3, <2>4, <2>7, GoingKeeps
  <1>18. CASE DropFault(r) \/ DeleteFault(r)
    <2>1. DeleteFault(r) /\ req[r].pc \in {"plan", "drop"}
      BY <1>18 DEF DropFault, DeleteFault, Undisturbed
    <2>2. Stage(r)' BY <1>0, <2>1, Moves, DoneStage DEF DeleteFault
    <2> QED BY <1>7, <2>1, <2>2 DEF DeleteFault, panel, postgres
  <1> QED BY <1>10, <1>12, <1>13, <1>15, <1>16, <1>17, <1>18

\* A handler that begins, without an overlap that the history remembers, is the only
\* one of its database, and alone if it deletes.
LEMMA BeginCalm ==
  ASSUME TypeInv, HostSane, Calm, Undisturbed', NEW r \in Requests, Begin(r)
  PROVE  Calm'
  <1>0. /\ TypeOK /\ req \in [Requests -> Request] /\ rows \in [Requests -> Row] BY DEF TypeInv, TypeOK
  <1>1. At(r, "idle") /\ host' = host /\ pg' = pg
    <2>1. CASE PrepareDatabase(r) BY <2>1 DEF PrepareDatabase, postgres
    <2>2. ASSUME NEW d \in Requests, BeginDelete(r, d) \/ BeginRotate(r, d) PROVE At(r, "idle") /\ host' = host /\ pg' = pg
      BY <2>2 DEF BeginDelete, BeginRotate, postgres
    <2> QED BY <2>1, <2>2 DEF Begin
  <1>2. \A q \in Requests \ {r} : req'[q] = req[q] BY <1>0, StepGoes DEF Step
  <1>3. ASSUME NEW t \in Requests, NEW b \in BOOLEAN, Note(t, b)
        PROVE  /\ \A q \in Requests : InFlight(q) => req[q].db # t /\ ~DeleteStage(q)
               /\ b => \A q \in Requests : ~InFlight(q)
    <2>1. ~Overlaps(t, b) BY <1>3 DEF Note, Undisturbed
    <2>2. \A q \in Requests : DeleteStage(q) => DeleteInFlight BY DEF DeleteStage, DeleteInFlight
    <2> QED BY <2>1, <2>2 DEF Overlaps
  <1>4. ASSUME NEW t \in Requests, NEW b \in BOOLEAN, Note(t, b), req'[r].db = t, InFlight(r)', DeleteStage(r)' => b,
               \A d \in Requests \ {t} : rows'[d] = rows[d], Stage(r)', ServedAt(t)', Housed'
        PROVE  Calm'
    <2>1. /\ \A q \in Requests : InFlight(q) => req[q].db # t /\ ~DeleteStage(q)
          /\ b => \A q \in Requests : ~InFlight(q)
      BY <1>3, <1>4
    <2>2. ~InFlight(r) BY <1>1 DEF At, InFlight
    <2>3. Apart' /\ (\A q \in Requests \ {r} : Stage(q)') /\ \A d \in Requests \ {t} : ServedAt(d)'
      BY <1>1, <1>2, <1>4, <2>1, <2>2, FocusKeeps
    <2>4. \A q \in Requests : Stage(q)' BY <1>4, <2>3
    <2>5. \A d \in Requests : ServedAt(d)' BY <1>4, <2>3
    <2> QED BY <1>4, <2>3, <2>4, <2>5 DEF Calm
  <1>5. CASE PrepareDatabase(r)
    <2>1. /\ rows' = [rows EXCEPT ![r] = [status |-> "provisioning", password |-> r]] /\ hostRow' = TRUE
          /\ req' = [req EXCEPT ![r] = [@ EXCEPT !.pc = "find", !.db = r]] /\ Note(r, FALSE)
      BY <1>5 DEF PrepareDatabase
    <2>2. /\ rows'[r].status = "provisioning" /\ rows'[r].password = r
          /\ \A d \in Requests \ {r} : rows'[d] = rows[d]
      BY <1>0, <2>1
    <2>3. req'[r] = [req[r] EXCEPT !.pc = "find", !.db = r] BY <1>0, <2>1
    <2>4. req'[r].pc = "find" /\ req'[r].db = r BY <1>0, <2>3 DEF Request
    <2>5. InFlight(r)' /\ ~DeleteStage(r)' BY <2>4 DEF InFlight, DeleteStage
    <2>6. Stage(r)' BY <2>2, <2>4 DEF Stage, Creating, DeleteStage
    <2>7. ServedAt(r)' BY <2>2 DEF ServedAt
    <2>8. Present(r)' BY <2>2 DEF Present
    <2>9. Housed' BY <1>1, <2>1, <2>8 DEF Calm, Housed
    <2> QED BY <1>4, <2>1, <2>2, <2>4, <2>5, <2>6, <2>7, <2>9
  <1>6. ASSUME NEW d \in Requests, BeginDelete(r, d) \/ BeginRotate(r, d) PROVE Calm'
    <2>1. rows' = rows /\ hostRow' = hostRow /\ Present(d) BY <1>6 DEF BeginDelete, BeginRotate, panel, Present
    <2>2. PICK b \in BOOLEAN : Note(d, b) /\ (BeginDelete(r, d) => b) BY <1>6 DEF BeginDelete, BeginRotate
    <2>3. /\ req'[r].db = d
          /\ \/ req'[r].pc = "plan" /\ BeginDelete(r, d)
             \/ req'[r].pc = "alter" /\ BeginRotate(r, d)
      <3>1. CASE BeginDelete(r, d)
        <4>1. req'[r] = [req[r] EXCEPT !.pc = "plan", !.db = d] BY <1>0, <3>1 DEF BeginDelete
        <4> QED BY <1>0, <3>1, <4>1 DEF Request
      <3>2. CASE BeginRotate(r, d)
        <4>1. req'[r] = [req[r] EXCEPT !.pc = "alter", !.db = d] BY <1>0, <3>2 DEF BeginRotate
        <4> QED BY <1>0, <3>2, <4>1 DEF Request
      <3> QED BY <1>6, <3>1, <3>2
    <2>4. InFlight(r)' /\ (DeleteStage(r)' => b) BY <2>2, <2>3 DEF InFlight, DeleteStage
    <2>5. Stage(r)' BY <2>1, <2>3 DEF Stage, Creating, DeleteStage, BeginRotate, Present
    <2>6. \A q \in Requests : req[q].db = d => ~Removed(q) /\ req[q].pc # "store"
      BY <1>3, <2>2 DEF InFlight, Removed
    <2>7. rows[d].status = "ready" => /\ host.running /\ d \in pg.databases
                                      /\ pg.roles[d] = rows[d].password
      BY <2>6 DEF Calm, ServedAt
    <2>8. ServedAt(d)' BY <1>1, <2>1, <2>7 DEF ServedAt
    <2>9. Housed' BY <1>1, <2>1 DEF Calm, Housed, Present
    <2> QED BY <1>4, <2>1, <2>2, <2>3, <2>4, <2>5, <2>8, <2>9
  <1> QED BY <1>5, <1>6 DEF Begin

\* The other steps change nothing that the handlers rely on, or disturb them.
LEMMA RestCalm ==
  ASSUME TypeInv, HostSane, Calm, Undisturbed', PostgresReady \/ ServerDeletion \/ EngineCrash \/ UNCHANGED vars
  PROVE  Calm'
  <1>1. ASSUME rows' = rows, hostRow' = hostRow, host' = host, pg' = pg, req' = req PROVE Calm'
    BY <1>1 DEF Calm, Apart, Stage, ServedAt, Housed, InFlight, DeleteStage, Creating, Removed, RemovalPlan, Present
  <1>2. CASE PostgresReady
    <2>1. /\ rows' = rows /\ hostRow' = hostRow /\ pg' = pg /\ req' = req
          /\ host.running /\ host' = [host EXCEPT !.ready = TRUE]
      BY <1>2 DEF PostgresReady, panel
    <2>2. host'.by = host.by /\ host'.running = host.running /\ host'.volume = host.volume BY <2>1 DEF TypeInv, TypeOK, Host
    <2>3. host # NoHost BY <2>1 DEF NoHost
    <2>4. Apart' BY <2>1 DEF Calm, Apart, InFlight, DeleteStage
    <2>5. ASSUME NEW r \in Requests PROVE Stage(r)'
      <3>1. Stage(r) BY DEF Calm
      <3> QED BY <2>1, <2>2, <2>3, <3>1 DEF Stage, Creating, DeleteStage, RemovalPlan, Present
    <2>6. ASSUME NEW d \in Requests PROVE ServedAt(d)'
      <3>1. ServedAt(d) BY DEF Calm
      <3> QED BY <2>1, <2>2, <3>1 DEF ServedAt, Removed
    <2>7. Housed' BY <2>1, <2>2, <2>3 DEF Calm, Housed, Present
    <2> QED BY <2>4, <2>5, <2>6, <2>7 DEF Calm
  <1>3. CASE DeleteServer \/ DeleteServerContainer \/ DeleteServerNetwork \/ FinalizeServerDeletion
    BY <1>1, <1>3 DEF DeleteServer, DeleteServerContainer, DeleteServerNetwork, FinalizeServerDeletion, ServerStep, panel, postgres
  <1>4. ~DeleteHost /\ ~EngineCrash BY DEF DeleteHost, EngineCrash, Undisturbed
  <1>5. CASE UNCHANGED vars BY <1>1, <1>5 DEF vars
  <1> QED BY <1>2, <1>3, <1>4, <1>5 DEF ServerDeletion

\* The inductive invariant of the databases.
CalmInv == TypeInv /\ HostSane /\ (Undisturbed => Calm)

\* It holds at first.
LEMMA CalmInit == Init => CalmInv
  <1> SUFFICES ASSUME Init PROVE CalmInv OBVIOUS
  <1>1. TypeInv /\ HostSane BY InitTyped, HostInit
  <1>2. \A r \in Requests : req[r].pc = "idle" /\ ~InFlight(r) BY DEF Init, Idle, InFlight
  <1>3. \A d \in Requests : rows[d].status = "none" /\ ~Present(d) BY DEF Init, NoRow, Present
  <1>4. Apart BY <1>2 DEF Apart
  <1>5. \A r \in Requests : Stage(r) BY <1>2 DEF Stage, Creating, DeleteStage
  <1>6. \A d \in Requests : ServedAt(d) BY <1>3 DEF ServedAt
  <1>7. Housed BY <1>3 DEF Housed, Init, NoHost, NoVolume
  <1> QED BY <1>1, <1>4, <1>5, <1>6, <1>7 DEF CalmInv, Calm

\* And every step keeps it.
LEMMA CalmStep == CalmInv /\ [Next]_vars => CalmInv'
  <1> SUFFICES ASSUME CalmInv, [Next]_vars PROVE CalmInv' OBVIOUS
  <1>1. TypeInv /\ HostSane BY DEF CalmInv
  <1>2. TypeInv' /\ HostSane' BY <1>1, NextTyped, HostStep
  <1>3. ASSUME Undisturbed' PROVE Calm'
    <2>1. Calm BY <1>3, OddGrows DEF CalmInv, Undisturbed
    <2>2. ASSUME NEW r \in Requests, Begin(r) \/ Handle(r) \/ Disturb(r) PROVE Calm'
      BY <1>1, <1>3, <2>1, <2>2, BeginCalm, CreateCalm, EndCalm, FailCalm, DeleteCalm, RotateCalm DEF Handle, Disturb
    <2>3. CASE PostgresReady \/ ServerDeletion \/ EngineCrash \/ UNCHANGED vars BY <1>1, <1>3, <2>1, <2>3, RestCalm
    <2> QED BY <2>2, <2>3 DEF Next
  <1> QED BY <1>2, <1>3 DEF CalmInv

\* A database the panel calls ready is there, with the password the panel keeps for it,
\* whatever creations and rotations of other databases run at the same time or fail: the
\* panel's row and PostgreSQL are written by different steps of different handlers.
THEOREM ReadyWorks == Spec => []ReadyUsable
  <1>1. ASSUME CalmInv PROVE ReadyUsable
    <2> SUFFICES ASSUME NEW d \in Requests, rows[d].status = "ready", Undisturbed, ~Requested(d)
                 PROVE  host.running /\ d \in pg.databases /\ pg.roles[d] = rows[d].password
      BY DEF ReadyUsable
    <2>1. ServedAt(d) BY <1>1 DEF CalmInv, Calm
    <2>2. \A r \in Requests : req[r].db = d => ~Removed(r) /\ req[r].pc # "store"
      BY DEF Requested, InFlight, Removed
    <2> QED BY <2>1, <2>2 DEF ServedAt
  <1> QED BY <1>1, CalmInit, CalmStep, PTL DEF Spec

\* The database host comes with the first row and goes with the last: with a row there
\* is the row of the host, without which no database can be deleted, and with none
\* neither container, volume nor row of the host is left.
THEOREM HostComesAndGoes == Spec => []HostFollowsRows
  <1>1. CalmInv => HostFollowsRows BY DEF CalmInv, Calm, Housed, HostFollowsRows
  <1> QED BY <1>1, CalmInit, CalmStep, PTL DEF Spec
=============================================================================
