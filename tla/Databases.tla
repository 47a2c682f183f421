------------------------------ MODULE Databases ------------------------------
(***************************************************************************)
(* The PostgreSQL databases of one game server.  All of them live in one   *)
(* database host, a container with a volume of its own that the first      *)
(* database brings up and the last one takes down.  Creations, password    *)
(* rotations and deletions are handlers that run concurrently: each writes *)
(* the panel's rows in transactions of its own, before and after it calls  *)
(* the engine.  The server itself may be deleted meanwhile.                *)
(*                                                                         *)
(* A database has the name of the request that created it, a password that *)
(* of the request that chose it.                                           *)
(***************************************************************************)
EXTENDS Naturals, FiniteSets

CONSTANTS
  Requests,   \* creations, rotations and deletions, each made at most once
  Deleting,   \* TRUE: the server may be deleted
  MaxFaults,  \* bound: failed calls, aborted handlers and crashes
  None        \* no database, no password, no container

ASSUME DatabasesAssumption ==
  /\ None \notin Requests
  /\ Deleting \in BOOLEAN
  /\ MaxFaults \in Nat

VARIABLES
  rows,     \* rows[d]: the row of database d in server_databases
  hostRow,  \* whether server_database_hosts has the server's row
  host,     \* the database host: its container and its volume
  pg,       \* what the volume holds: roles with their passwords, and databases
  srv,      \* the server: its container, its network and its deletion
  req,      \* req[r]: a handler and its call of the engine
  odd,      \* history: what the handlers do not undo
  faults    \* faults so far

vars == <<rows, hostRow, host, pg, srv, req, odd, faults>>
panel == <<rows, hostRow>>
postgres == <<host, pg>>

Maybe == Requests \cup {None}
Row == [status : {"none", "provisioning", "ready", "failed"}, password : Maybe]
Volume == [there : BOOLEAN, labelled : BOOLEAN, owned : BOOLEAN]

\* by: the request whose container it is; running: it has been started; ready:
\* PostgreSQL answers.
Host == [by : Maybe, running : BOOLEAN, ready : BOOLEAN, volume : Volume]

Request ==
  [pc : {"idle", "find", "volume", "init", "create", "start", "wait", "role", "database", "complete",
         "fail", "plan", "drop", "removeHost", "removeVolume", "forget", "alter", "store", "done"},
   db : Maybe, host : Maybe, last : BOOLEAN]

\* What the history remembers: requests that overlapped, a withdrawal of what others
\* used, a client that went away, a handler cut short, a cleanup that failed unnoticed,
\* a crash of the engine.
Odd == {"overlap", "withdrawn", "aborted", "cut", "left", "crash"}

TypeOK ==
  /\ rows \in [Requests -> Row]
  /\ hostRow \in BOOLEAN
  /\ host \in Host
  /\ pg \in [roles : [Requests -> Maybe], databases : SUBSET Requests]
  /\ srv \in {"up", "host", "container", "network", "final", "gone", "kept"}
  /\ req \in [Requests -> Request]
  /\ odd \subseteq Odd
  /\ faults \in 0 .. MaxFaults

NoRow == [status |-> "none", password |-> None]
NoVolume == [there |-> FALSE, labelled |-> FALSE, owned |-> FALSE]
NoHost == [by |-> None, running |-> FALSE, ready |-> FALSE, volume |-> NoVolume]
Empty == [roles |-> [d \in Requests |-> None], databases |-> {}]
Idle == [pc |-> "idle", db |-> None, host |-> None, last |-> FALSE]

Init ==
  /\ rows = [d \in Requests |-> NoRow]
  /\ hostRow = FALSE
  /\ host = NoHost
  /\ pg = Empty
  /\ srv = "up"
  /\ req = [r \in Requests |-> Idle]
  /\ odd = {}
  /\ faults = 0

At(r, pc) == req[r].pc = pc
Goto(r, pc) == req' = [req EXCEPT ![r].pc = pc]
Finish(r) == req' = [req EXCEPT ![r] = [Idle EXCEPT !.pc = "done"]]
InFlight(r) == req[r].pc \notin {"idle", "done"}
Fault == faults < MaxFaults /\ faults' = faults + 1

Present(d) == rows[d].status # "none"
ServerContainer == srv \in {"up", "host", "container", "kept"}   \* findManagedServer succeeds
ServerNetwork == srv \in {"up", "host", "container", "network", "kept"}

DeleteInFlight == \E r \in Requests : req[r].pc \in {"plan", "drop", "removeHost", "removeVolume", "forget"}

\* A container of the engine can be used while it is there and PostgreSQL answers.
There(by) == by # None /\ host.by = by
Usable(by) == There(by) /\ host.ready

-----------------------------------------------------------------------------
(* Creation.                                                               *)

\* Overlaps that the history remembers: a deletion with anything else, and two
\* requests about the same database.
Overlaps(d, deletion) ==
  \E r \in Requests : InFlight(r) /\ (deletion \/ DeleteInFlight \/ req[r].db = d)

Note(d, deletion) == odd' = IF Overlaps(d, deletion) THEN odd \cup {"overlap"} ELSE odd

\* The transaction that stores the row, and the host's row if there is none.
PrepareDatabase(r) ==
  /\ At(r, "idle")
  /\ srv # "gone"
  /\ rows' = [rows EXCEPT ![r] = [status |-> "provisioning", password |-> r]]
  /\ hostRow' = TRUE
  /\ req' = [req EXCEPT ![r] = [@ EXCEPT !.pc = "find", !.db = r]]
  /\ Note(r, FALSE)
  /\ UNCHANGED <<postgres, srv, faults>>

\* ensureDatabaseHost uses a host that is there, starting it if it does not run, once
\* it answers ...
FindHost(r) ==
  /\ At(r, "find") /\ ServerContainer
  /\ req' = [req EXCEPT ![r] = IF host.by # None
                               THEN [@ EXCEPT !.pc = IF host.running THEN "wait" ELSE "start",
                                              !.host = host.by]
                               ELSE [@ EXCEPT !.pc = "volume"]]
  /\ UNCHANGED <<panel, postgres, srv, odd, faults>>

\* ... or creates its volume, unless there is one,
CreateHostVolume(r) ==
  /\ At(r, "volume")
  /\ host' = IF host.volume.there THEN host
             ELSE [host EXCEPT !.volume = [there |-> TRUE, labelled |-> TRUE, owned |-> FALSE]]
  /\ Goto(r, "init")
  /\ UNCHANGED <<panel, pg, srv, odd, faults>>

\* A container created on a missing volume creates it, without labels.
Mounted(volume) == IF volume.there THEN volume ELSE [NoVolume EXCEPT !.there = TRUE]

initializeDatabaseVolume(r) ==
  /\ At(r, "init")
  /\ host' = [host EXCEPT !.volume = [Mounted(@) EXCEPT !.owned = TRUE]]
  /\ Goto(r, "create")
  /\ UNCHANGED <<panel, pg, srv, odd, faults>>

\* and its container, which has a fixed name.  The network is only named here ...
CreateHost(r) ==
  /\ At(r, "create")
  /\ host.by = None
  /\ host' = [host EXCEPT !.by = r, !.volume = Mounted(@)]
  /\ req' = [req EXCEPT ![r] = [@ EXCEPT !.pc = "start", !.host = r]]
  /\ UNCHANGED <<panel, pg, srv, odd, faults>>

\* ... and joined when the container is started.
StartHost(r) ==
  /\ At(r, "start")
  /\ There(req[r].host) /\ ServerNetwork
  /\ host' = [host EXCEPT !.running = TRUE]
  /\ Goto(r, "wait")
  /\ UNCHANGED <<panel, pg, srv, odd, faults>>

\* PostgreSQL starts on a volume that its user owns.
PostgresReady ==
  /\ host.running /\ ~host.ready /\ host.volume.owned
  /\ host' = [host EXCEPT !.ready = TRUE]
  /\ UNCHANGED <<panel, pg, srv, req, odd, faults>>

waitForPostgres(r) ==
  /\ At(r, "wait") /\ Usable(req[r].host)
  /\ Goto(r, "role")
  /\ UNCHANGED <<panel, postgres, srv, odd, faults>>

\* Mutant: a role that exists is left with its password.
SetRoleOnce(d, password) ==
  [pg EXCEPT !.roles[d] = IF @ = None THEN password ELSE @]

\* createPostgresDatabase creates the role or alters it, rotation alters it.
SetRole(d, password) == [pg EXCEPT !.roles[d] = password]

CreateRole(r) ==
  /\ At(r, "role") /\ Usable(req[r].host)
  /\ pg' = SetRole(req[r].db, r)
  /\ Goto(r, "database")
  /\ UNCHANGED <<panel, host, srv, odd, faults>>

CreatePostgresDatabase(r) ==
  /\ At(r, "database") /\ Usable(req[r].host)
  /\ pg' = [pg EXCEPT !.databases = @ \cup {req[r].db}]
  /\ Goto(r, "complete")
  /\ UNCHANGED <<panel, host, srv, odd, faults>>

\* A row that has been deleted meanwhile stays deleted.
Recorded(d, status) ==
  IF Present(d) THEN [rows EXCEPT ![d].status = status] ELSE rows

CompleteDatabaseProvision(r) ==
  /\ At(r, "complete")
  /\ rows' = Recorded(req[r].db, "ready")
  /\ Finish(r)
  /\ UNCHANGED <<hostRow, postgres, srv, odd, faults>>

FailDatabaseProvision(r) ==
  /\ At(r, "fail")
  /\ rows' = Recorded(req[r].db, "failed")
  /\ Finish(r)
  /\ UNCHANGED <<hostRow, postgres, srv, odd, faults>>

\* The deferred functions of ensureDatabaseHost: the request that created the
\* container removes it, the request that created the volume removes that too,
\* unless a container mounts it.
Withdrawn(r) ==
  LET mine == req[r].host = r /\ req[r].pc \in {"start", "wait"}
      left == IF mine /\ host.by = r THEN None ELSE host.by
      volume == IF left = None /\ (mine \/ req[r].pc \in {"init", "create"})
                THEN NoVolume ELSE host.volume
  IN  [by |-> left, running |-> host.running /\ left # None,
       ready |-> host.ready /\ left # None, volume |-> volume]

\* Their errors are ignored: the container may stay, with its volume, or the volume.
Leftovers(r) == {host, [Withdrawn(r) EXCEPT !.volume = host.volume]} \ {Withdrawn(r)}

\* What is stored goes with the volume.
Kept(h) == IF h.volume.there THEN pg ELSE Empty

\* Others may be using what is withdrawn: the container with the databases in it, or
\* the volume on which they are about to create one.
Shared(r) ==
  \E q \in Requests \ {r} : IF host.by = None THEN req[q].pc \in {"init", "create"}
                            ELSE req[q].host = host.by \/ Present(q)

\* The engine's call fails and its deferred functions run.
FailCreate(r, what) ==
  /\ host' = Withdrawn(r)
  /\ pg' = Kept(host')
  /\ odd' = odd \cup what \cup IF host' # host /\ Shared(r) THEN {"withdrawn"} ELSE {}
  /\ UNCHANGED <<panel, srv>>

Creating(r) ==
  req[r].pc \in {"find", "volume", "init", "create", "start", "wait", "role", "database"}

\* Without a fault: there is no server container, the name is taken, the host is gone
\* or its network, the host never answers.
CreateRefused(r) ==
  /\ \/ At(r, "find") /\ ~ServerContainer
     \/ At(r, "create") /\ host.by # None
     \/ At(r, "start") /\ (host.by # req[r].host \/ ~ServerNetwork)
     \/ At(r, "wait") /\ (host.by # req[r].host \/ ~host.volume.owned)
     \/ req[r].pc \in {"role", "database"} /\ ~Usable(req[r].host)
  /\ FailCreate(r, {}) /\ Goto(r, "fail")
  /\ UNCHANGED faults

CreateFault(r) ==
  /\ Creating(r)
  /\ Fault
  /\ FailCreate(r, {}) /\ Goto(r, "fail")

\* The call fails, and so does a removal of its deferred functions.
CreateLeft(r) ==
  /\ Creating(r)
  /\ Fault
  /\ host' \in Leftovers(r)
  /\ pg' = Kept(host')
  /\ odd' = odd \cup {"left"}
  /\ Goto(r, "fail")
  /\ UNCHANGED <<panel, srv>>

\* The client goes away: the call fails, and so does the recording of its result.
CreateAborted(r) ==
  /\ Creating(r) \/ At(r, "complete")
  /\ Fault
  /\ FailCreate(r, {"aborted"}) /\ Finish(r)

-----------------------------------------------------------------------------
(* Deletion of a database.                                                 *)

\* DatabaseJob joins the row with the host's row.
BeginDelete(r, d) ==
  /\ At(r, "idle")
  /\ Present(d) /\ hostRow
  /\ req' = [req EXCEPT ![r] = [@ EXCEPT !.pc = "plan", !.db = d]]
  /\ Note(d, TRUE)
  /\ UNCHANGED <<panel, postgres, srv, faults>>

\* Mutant: the host is removed with any database.
RemovalPlanAlways(d) == TRUE

\* The host goes with the server's last row.
RemovalPlan(d) == \A e \in Requests \ {d} : ~Present(e)

DatabaseRemovalPlan(r) ==
  /\ At(r, "plan")
  /\ IF Present(req[r].db)
     THEN req' = [req EXCEPT ![r] = [@ EXCEPT !.pc = "drop", !.last = RemovalPlan(req[r].db)]]
     ELSE Finish(r)
  /\ UNCHANGED <<panel, postgres, srv, odd, faults>>

dropPostgresDatabase(r) ==
  /\ At(r, "drop") /\ host.by # None /\ host.ready
  /\ pg' = [roles |-> [pg.roles EXCEPT ![req[r].db] = None],
            databases |-> pg.databases \ {req[r].db}]
  /\ Goto(r, IF req[r].last THEN "removeHost" ELSE "forget")
  /\ UNCHANGED <<panel, host, srv, odd, faults>>

\* A host that is not there is taken for removed by the last deletion only; one
\* that does not answer is an error.
DropWithoutHost(r) ==
  /\ At(r, "drop") /\ ~host.ready
  /\ IF host.by = None /\ req[r].last THEN Goto(r, "removeHost") ELSE Finish(r)
  /\ UNCHANGED <<panel, postgres, srv, odd, faults>>

\* The database is dropped, and then the role is not.
DropFault(r) ==
  /\ At(r, "drop") /\ host.by # None /\ host.ready
  /\ Fault
  /\ pg' = [pg EXCEPT !.databases = @ \ {req[r].db}]
  /\ odd' = odd \cup {"cut"}
  /\ Finish(r)
  /\ UNCHANGED <<panel, host, srv>>

HostRemoved == [host EXCEPT !.by = None, !.running = FALSE, !.ready = FALSE]

removeDatabaseHost(r) ==
  /\ At(r, "removeHost")
  /\ host' = HostRemoved
  /\ Goto(r, "removeVolume")
  /\ UNCHANGED <<panel, pg, srv, odd, faults>>

\* A volume is removed when it has the panel's labels and no container mounts it.
VolumeRemovable == host.volume.there => host.volume.labelled /\ host.by = None

VolumeRemoved == [host EXCEPT !.volume = NoVolume]

removeHostVolume(r) ==
  /\ At(r, "removeVolume")
  /\ IF VolumeRemovable
     THEN host' = VolumeRemoved /\ pg' = Kept(host') /\ Goto(r, "forget")
     ELSE UNCHANGED postgres /\ Finish(r)
  /\ UNCHANGED <<panel, srv, odd, faults>>

CompleteDatabaseDeletion(r) ==
  /\ At(r, "forget")
  /\ rows' = [rows EXCEPT ![req[r].db] = NoRow]
  /\ hostRow' = (hostRow /\ ~req[r].last)
  /\ Finish(r)
  /\ UNCHANGED <<postgres, srv, odd, faults>>

\* A call fails or the handler ends; the deletion can be asked for again.
DeleteFault(r) ==
  /\ req[r].pc \in {"plan", "drop", "removeHost", "removeVolume", "forget"}
  /\ Fault
  /\ odd' = IF req[r].pc \in {"removeHost", "removeVolume", "forget"} THEN odd \cup {"cut"} ELSE odd
  /\ Finish(r)
  /\ UNCHANGED <<panel, postgres, srv>>

-----------------------------------------------------------------------------
(* Rotation of a password.                                                 *)

BeginRotate(r, d) ==
  /\ At(r, "idle")
  /\ rows[d].status = "ready" /\ hostRow
  /\ req' = [req EXCEPT ![r] = [@ EXCEPT !.pc = "alter", !.db = d]]
  /\ Note(d, FALSE)
  /\ UNCHANGED <<panel, postgres, srv, faults>>

rotateDatabasePassword(r) ==
  /\ At(r, "alter")
  /\ IF host.ready /\ pg.roles[req[r].db] # None
     THEN pg' = SetRole(req[r].db, r) /\ Goto(r, "store")
     ELSE UNCHANGED pg /\ Finish(r)
  /\ UNCHANGED <<panel, host, srv, odd, faults>>

RotateDatabasePassword(r) ==
  /\ At(r, "store")
  /\ rows' = IF rows[req[r].db].status = "ready"
             THEN [rows EXCEPT ![req[r].db].password = r] ELSE rows
  /\ Finish(r)
  /\ UNCHANGED <<hostRow, postgres, srv, odd, faults>>

\* The role is altered and the password that was chosen is lost.
RotateFault(r) ==
  /\ req[r].pc \in {"alter", "store"}
  /\ Fault
  /\ odd' = IF At(r, "store") THEN odd \cup {"cut"} ELSE odd
  /\ Finish(r)
  /\ UNCHANGED <<panel, postgres, srv>>

-----------------------------------------------------------------------------
(* Deletion of the server: removeServerResources and its caller.           *)

ServerStep(from, to) == srv = from /\ srv' = to /\ UNCHANGED <<panel, req, faults>>

DeleteServer == Deleting /\ ServerStep("up", "host") /\ UNCHANGED <<postgres, odd>>

DeleteHost ==
  /\ ServerStep("host", IF host.volume.there /\ ~host.volume.labelled THEN "kept" ELSE "container")
  /\ host' = IF host.volume.there /\ ~host.volume.labelled THEN HostRemoved
             ELSE [HostRemoved EXCEPT !.volume = NoVolume]
  /\ pg' = Kept(host')
  /\ odd' = odd \cup {"cut"}

DeleteServerContainer == ServerStep("container", "network") /\ UNCHANGED <<postgres, odd>>

\* Mutant: that the network could not be removed is ignored.
NetworkFreeAlways == TRUE

\* Docker keeps a network while a container on it runs.
NetworkFree == ~host.running

DeleteServerNetwork ==
  /\ ServerStep("network", IF NetworkFree THEN "final" ELSE "kept")
  /\ UNCHANGED <<postgres, odd>>

FinalizeServerDeletion == ServerStep("final", "gone") /\ UNCHANGED <<postgres, odd>>

ServerDeletion ==
  DeleteServer \/ DeleteHost \/ DeleteServerContainer \/ DeleteServerNetwork \/ FinalizeServerDeletion

\* The engine stops: its calls fail without their deferred functions.  The host
\* has no restart policy, but goes on running if it was started.
EngineCrash ==
  LET calling(r) == Creating(r) \/ req[r].pc \in {"drop", "removeHost", "removeVolume", "alter"}
  IN  /\ Fault
      /\ \E r \in Requests : calling(r)
      /\ req' = [r \in Requests |->
                   IF ~calling(r) THEN req[r]
                   ELSE IF Creating(r) THEN [req[r] EXCEPT !.pc = "fail"]
                   ELSE [Idle EXCEPT !.pc = "done"]]
      /\ odd' = odd \cup {"crash"}
      /\ UNCHANGED <<panel, postgres, srv>>

Handle(r) ==
  \/ FindHost(r) \/ CreateHostVolume(r) \/ initializeDatabaseVolume(r) \/ CreateHost(r)
  \/ StartHost(r) \/ waitForPostgres(r) \/ CreateRole(r) \/ CreatePostgresDatabase(r)
  \/ CompleteDatabaseProvision(r) \/ FailDatabaseProvision(r) \/ CreateRefused(r)
  \/ DatabaseRemovalPlan(r) \/ dropPostgresDatabase(r) \/ DropWithoutHost(r)
  \/ removeDatabaseHost(r) \/ removeHostVolume(r) \/ CompleteDatabaseDeletion(r)
  \/ rotateDatabasePassword(r) \/ RotateDatabasePassword(r)

Begin(r) == PrepareDatabase(r) \/ \E d \in Requests : BeginDelete(r, d) \/ BeginRotate(r, d)
Disturb(r) ==
  CreateFault(r) \/ CreateLeft(r) \/ CreateAborted(r) \/ DropFault(r) \/ DeleteFault(r) \/ RotateFault(r)

Next ==
  \/ \E r \in Requests : Begin(r) \/ Handle(r) \/ Disturb(r)
  \/ PostgresReady \/ ServerDeletion \/ EngineCrash

Spec == Init /\ [][Next]_vars

-----------------------------------------------------------------------------
(* Properties.                                                             *)

Requested(d) == \E r \in Requests : InFlight(r) /\ req[r].db = d
Undisturbed == odd \subseteq {"aborted"}
Quiet == \A r \in Requests : ~InFlight(r)

\* A database that the panel calls ready is there, and the password the panel keeps
\* for it is its role's: creations and rotations of different databases do not disturb
\* each other, and a failed step leaves the others' databases alone.
ReadyUsable ==
  \A d \in Requests :
     rows[d].status = "ready" /\ Undisturbed /\ ~Requested(d)
       => /\ host.running /\ d \in pg.databases
          /\ pg.roles[d] = rows[d].password

\* The database host exists for the rows: the row of the host is there as long as a
\* database has one (without it none can be deleted), and once the last database is
\* deleted neither container, volume nor row is left.
HostFollowsRows ==
  Quiet /\ Undisturbed =>
    /\ (\E d \in Requests : Present(d)) => hostRow
    /\ (\A d \in Requests : ~Present(d)) => ~hostRow /\ host = NoHost

\* On a deleted server no database host runs, though creations may have run while its
\* resources were being removed; and none is left created but not started, unless the
\* engine crashed under such a creation or its cleanup failed unnoticed.
DeletedServerHasNoHost ==
  srv = "gone" =>
    /\ ~host.running
    /\ Quiet /\ odd \cap {"left", "crash"} = {} => host.by = None

=============================================================================
