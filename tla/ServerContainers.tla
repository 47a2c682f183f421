--------------------------- MODULE ServerContainers ---------------------------
(***************************************************************************)
(* The Docker resources of the game servers (runtime containers, network,  *)
(* volume, helper containers) and the three things that make and unmake    *)
(* them: provisioning, done by the worker through the engine; edits of a   *)
(* stopped server's configuration, each of which replaces its container;   *)
(* and deletion.  The handlers of the edits and deletions run concurrently *)
(* with each other, with the worker and with power requests.               *)
(*                                                                         *)
(* A database transaction is one step, a Docker call is one step.  A       *)
(* configuration is what an edit changes: the startup part (image, command *)
(* and values of variables), the definitions of the server's own variables *)
(* and the settings, each named by the request that wrote it, and the host *)
(* ports.  The definitions in a container are those it was made with.      *)
(***************************************************************************)
EXTENDS Naturals, Sequences, FiniteSets

CONSTANTS
  Servers,    \* servers that exist or may be created
  Existing,   \* those that are provisioned already
  FirstPorts, \* the host ports these have
  Requested,  \* bound: Requested[s], the kinds of requests made about s
  Requests,   \* edits and deletions, each made at most once
  HostPorts,  \* the host ports GamePortStart .. GamePortEnd
  Wanted,     \* the container ports a template asks to publish
  Tries,      \* the attempt at which provisioning is given up (3 in the code)
  MaxStarts,  \* bound: power requests per server
  MaxFaults,  \* bound: failed calls, crashes, aborts and lost answers
  None        \* the template's own value

ASSUME ContainersAssumption ==
  /\ Servers # {} /\ Servers \cap (Requests \X {"apply", "undo"}) = {}
  /\ Existing \subseteq Servers
  /\ Requested \in [Servers -> SUBSET {"startup", "variables", "settings", "network", "delete", "power"}]
  /\ FirstPorts \in [Existing -> SUBSET HostPorts]
  /\ \A s, t \in Existing : s # t => FirstPorts[s] \cap FirstPorts[t] = {}
  /\ HostPorts \subseteq Nat
  /\ Tries \in Nat \ {0}
  /\ MaxStarts \in Nat /\ MaxFaults \in Nat

VARIABLES
  row,     \* row[s]: the rows of servers, server_resources, server_variables and server_ports
  job,     \* job[s]: the server.provision event and the engine's provision call
  docker,  \* docker[s]: the Docker resources labelled with s
  req,     \* req[r]: an update or delete handler and its call of the engine
  odd,     \* odd[s]: history, what happened to s that the handlers do not undo
  faults   \* faults so far

vars == <<row, job, docker, req, odd, faults>>

Written == Requests \cup {None}
Config == [startup : Written, definitions : Written, settings : Written, ports : SUBSET HostPorts]
ContainerId == Servers \cup (Requests \X {"apply", "undo"})
Container == [id : ContainerId, config : Config, running : BOOLEAN]

Row == [status : {"none", "installing", "stopped", "starting", "running", "stopping",
                  "failed", "deleting"},
        version : Nat, deleted : BOOLEAN, start : BOOLEAN, config : Config, powers : 0 .. MaxStarts]

Job == [pc : {"none", "queued", "find", "volume", "network", "installer", "wait", "owner",
              "create", "start", "ok", "error", "done", "gaveUp"},
        attempts : Nat, config : Config, start : BOOLEAN, state : {"stopped", "running"}]

EngineCalls == {"find", "create", "remove", "drop", "dHelpers", "dContainer", "dNetwork", "dVolume"}

\* A startup request that brings other definitions of variables is of kind "variables".
EditKinds == {"startup", "variables", "settings", "network"}

Request ==
  [pc : EngineCalls \cup {"idle", "ports", "commit", "dFinal", "done"},
   kind : EditKinds \cup {"delete"}, server : Servers,
   phase : {"apply", "undo"}, version : Nat, old : Config, new : Config, found : ContainerId]

Resources == [containers : SUBSET Container, network : BOOLEAN,
              volume : {"none", "empty", "installed"}, helper : SUBSET {"installer", "initializer"}]

TypeOK ==
  /\ row \in [Servers -> Row]
  /\ job \in [Servers -> Job]
  /\ docker \in [Servers -> Resources]
  /\ req \in [Requests -> Request]
  /\ odd \in [Servers -> SUBSET {"overlap", "deletion", "cut", "left", "lost"}]
  /\ faults \in 0 .. MaxFaults

-----------------------------------------------------------------------------
(* Host ports.                                                             *)

AllocatedPorts == UNION {row[s].config.ports : s \in Servers}

\* The candidate of CreateServer's query: the container's own port if it is a
\* game port and free, else the lowest one that is.
Candidate(free, wanted) ==
  IF wanted \in free THEN wanted ELSE CHOOSE p \in free : \A q \in free : p <= q

\* The ports a template gets, in its order: each is the candidate among those
\* that are free and not yet given to the ports before it.
Allocation(free) ==
  {ports \in [1 .. Len(Wanted) -> free] :
     \A n \in 1 .. Len(Wanted) :
        ports[n] = Candidate(free \ {ports[m] : m \in 1 .. n - 1}, Wanted[n])}

\* CommitServerPorts' question: a port belongs to another server's row, deleted or not.
PortsConflict(s, ports) ==
  \E t \in Servers \ {s} : row[t].config.ports \cap ports # {}

\* Docker publishes the ports of containers that run.
PortsPublished(s, ports) ==
  \E t \in Servers \ {s} : \E c \in docker[t].containers :
     c.running /\ c.config.ports \cap ports # {}

-----------------------------------------------------------------------------
(* Common.                                                                 *)

NoConfig == [startup |-> None, definitions |-> None, settings |-> None, ports |-> {}]

Nothing == [containers |-> {}, network |-> FALSE, volume |-> "none", helper |-> {}]

NewRequest(pc, kind, s, version, old) ==
  [pc |-> pc, kind |-> kind, server |-> s, phase |-> "apply", version |-> version,
   old |-> old, new |-> NoConfig, found |-> s]

\* A handler that does not run; the server it names is any.
Idle == NewRequest("idle", "startup", CHOOSE s \in Servers : TRUE, 0, NoConfig)

FirstConfig(s) == [NoConfig EXCEPT !.ports = IF s \in Existing THEN FirstPorts[s] ELSE {}]

\* Servers may exist at the start, stopped.
Init ==
  /\ row = [s \in Servers |->
              [status |-> IF s \in Existing THEN "stopped" ELSE "none", version |-> 0,
               deleted |-> FALSE, start |-> FALSE, config |-> FirstConfig(s), powers |-> 0]]
  /\ docker = [s \in Servers |->
       IF s \in Existing
       THEN [containers |-> {[id |-> s, config |-> FirstConfig(s), running |-> FALSE]},
             network |-> TRUE, volume |-> "installed", helper |-> {}]
       ELSE Nothing]
  /\ job = [s \in Servers |->
              [pc |-> IF s \in Existing THEN "done" ELSE "none", attempts |-> 0,
               config |-> NoConfig, start |-> FALSE, state |-> "stopped"]]
  /\ req = [r \in Requests |-> Idle]
  /\ odd = [s \in Servers |-> {}]
  /\ faults = 0

Fault == faults < MaxFaults /\ faults' = faults + 1
Mark(s, what) == odd' = [odd EXCEPT ![s] = @ \cup what]

AtWork(s) == job[s].pc \notin {"none", "queued", "done", "gaveUp"}
InFlight(r) == req[r].pc \notin {"idle", "done"}
Busy(s) == \E r \in Requests : InFlight(r) /\ req[r].server = s
NextVersion(s) == row[s].version + 1
Powering(s) == row[s].status \in {"starting", "stopping"}

-----------------------------------------------------------------------------
(* Provisioning: the transaction, the worker and the engine.               *)

TemplateConfig(ports) == [NoConfig EXCEPT !.ports = {ports[n] : n \in DOMAIN ports}]

CreateServer(s, start) ==
  LET free == HostPorts \ AllocatedPorts
  IN  /\ row[s].status = "none"
      /\ Cardinality(free) >= Len(Wanted)     \* else: no available game ports
      /\ \E ports \in Allocation(free) :
           row' = [row EXCEPT ![s] = [@ EXCEPT !.status = "installing", !.start = start,
                                               !.config = TemplateConfig(ports)]]
      /\ job' = [job EXCEPT ![s].pc = "queued"]
      /\ UNCHANGED <<docker, req, odd, faults>>

\* The worker claims the event, marks the operation and reads the job.  An event
\* whose server is no longer installing fails and is retried, to no effect.
ClaimProvision(s) ==
  /\ job[s].pc = "queued"
  /\ row[s].status = "installing" /\ ~row[s].deleted
  /\ job' = [job EXCEPT ![s] = [@ EXCEPT !.pc = "find", !.attempts = job[s].attempts + 1,
                                         !.config = row[s].config, !.start = row[s].start]]
  /\ Mark(s, IF Busy(s) THEN {"overlap"} ELSE {})
  /\ UNCHANGED <<row, docker, req, faults>>

Provisioning(s, from) == job[s].pc = from

ProvisionStep(s, from, to) ==
  /\ Provisioning(s, from)
  /\ job' = [job EXCEPT ![s].pc = to]
  /\ UNCHANGED <<row, req, odd, faults>>

Answers(s, state) ==
  job' = [job EXCEPT ![s] = [@ EXCEPT !.pc = "ok", !.state = state]]

\* findManagedServer: the container, when there is exactly one.
ManagedServer(s) == {c \in docker[s].containers : docker[s].containers = {c}}

\* A server that has its container is answered with that container's state.
FindProvisioned(s) ==
  /\ Provisioning(s, "find")
  /\ \E c \in ManagedServer(s) : Answers(s, IF c.running THEN "running" ELSE "stopped")
  /\ UNCHANGED <<row, docker, req, odd, faults>>

FindUnprovisioned(s) ==
  /\ ManagedServer(s) = {}
  /\ ~PortsPublished(s, job[s].config.ports)
  /\ ProvisionStep(s, "find", "volume")
  /\ UNCHANGED docker

\* An existing volume is used as it is.
CreateVolume(s) ==
  /\ ProvisionStep(s, "volume", "network")
  /\ docker' = [docker EXCEPT ![s].volume = IF @ = "none" THEN "empty" ELSE @]

CreateNetwork(s) ==
  /\ ~docker[s].network
  /\ ProvisionStep(s, "network", "installer")
  /\ docker' = [docker EXCEPT ![s].network = TRUE]

\* A container created on a missing volume creates it.
Mounted(volume) == IF volume = "none" THEN "empty" ELSE volume

StartInstaller(s) ==
  /\ "installer" \notin docker[s].helper       \* its name is fixed
  /\ ProvisionStep(s, "installer", "wait")
  /\ docker' = [docker EXCEPT ![s] =
       [@ EXCEPT !.helper = docker[s].helper \cup {"installer"}, !.volume = Mounted(docker[s].volume)]]

\* A template without a script has nothing to install.
SkipInstaller(s) ==
  /\ ProvisionStep(s, "installer", "owner")
  /\ docker' = [docker EXCEPT ![s].volume = IF @ = "none" THEN @ ELSE "installed"]

FinishInstaller(s) ==
  /\ "installer" \in docker[s].helper
  /\ ProvisionStep(s, "wait", "owner")
  /\ docker' = [docker EXCEPT ![s] =
       [@ EXCEPT !.helper = docker[s].helper \ {"installer"}, !.volume = "installed"]]

InitializeOwnership(s) ==
  /\ ProvisionStep(s, "owner", "create")
  /\ docker' = [docker EXCEPT ![s].volume = Mounted(@)]

CreateRuntime(s) ==
  /\ docker[s].containers = {}
  /\ ProvisionStep(s, "create", "start")
  /\ docker' = [docker EXCEPT ![s] =
       [@ EXCEPT !.containers = {[id |-> s, config |-> job[s].config, running |-> FALSE]},
                 !.volume = Mounted(docker[s].volume)]]

Runs(s, c) ==
  [docker EXCEPT ![s].containers = (@ \ {c}) \cup {[c EXCEPT !.running = TRUE]}]

StartRuntime(s) ==
  /\ Provisioning(s, "start")
  /\ IF job[s].start
     THEN /\ \E c \in docker[s].containers :
               /\ c.id = s /\ ~PortsPublished(s, c.config.ports) /\ docker[s].network
               /\ docker' = Runs(s, c)
          /\ Answers(s, "running")
     ELSE UNCHANGED docker /\ Answers(s, "stopped")
  /\ UNCHANGED <<row, req, odd, faults>>

\* runInstaller and initializeVolumeOwnership ignore that their container could not be
\* removed: it stays, exited, and provisioning goes on.
LeaveInstaller(s) ==
  /\ Fault
  /\ "installer" \in docker[s].helper
  /\ Provisioning(s, "wait")
  /\ job' = [job EXCEPT ![s].pc = "owner"]
  /\ docker' = [docker EXCEPT ![s].volume = "installed"]
  /\ Mark(s, {"left"})
  /\ UNCHANGED <<row, req>>

LeaveInitializer(s) ==
  /\ Fault
  /\ Provisioning(s, "owner")
  /\ job' = [job EXCEPT ![s].pc = "create"]
  /\ docker' = [docker EXCEPT ![s] =
       [@ EXCEPT !.helper = docker[s].helper \cup {"initializer"}, !.volume = Mounted(docker[s].volume)]]
  /\ Mark(s, {"left"})
  /\ UNCHANGED <<row, req>>

\* What the deferred functions of createServerResources and runInstaller leave:
\* the call removes the resources that it has created up to where it failed, as
\* far as Docker lets it while other containers use them.
CleanedAfter(s, made) ==
  LET containers == {c \in docker[s].containers : ~(c.id = s /\ job[s].pc = "start")}
      helper == IF job[s].pc = "wait" THEN docker[s].helper \ {"installer"} ELSE docker[s].helper
  IN  [containers |-> containers,
       helper |-> helper,
       network |-> docker[s].network /\ (job[s].pc \in made => \E c \in containers : c.running),
       volume |-> IF job[s].pc \in {"find", "volume"} \/ helper # {} \/ containers # {}
                  THEN docker[s].volume ELSE "none"]

\* Mutant: the network is left when the container cannot be created or started.
CleanedNetworkKept(s) == CleanedAfter(s, {"installer", "wait", "owner"})

Cleaned(s) == CleanedAfter(s, {"installer", "wait", "owner", "create", "start"})

\* Any step may fail: an image is not pulled, an installer exits with an error, a
\* network of that name exists, a port is published by another container.
FailProvision(s) ==
  /\ job[s].pc \in {"find", "volume", "network", "installer", "wait", "owner", "create", "start"}
  /\ docker' = [docker EXCEPT ![s] = Cleaned(s)]
  /\ job' = [job EXCEPT ![s].pc = "error"]
  /\ UNCHANGED <<row, req, odd, faults>>

\* The helpers that may be there when a removal failed, the initializer's for one.
HelpersLeft(s) ==
  {docker[s].helper, Cleaned(s).helper}
  \cup (IF job[s].pc = "owner" THEN {docker[s].helper \cup {"initializer"}} ELSE {})

\* Their errors are ignored: any of the removals may fail, and no volume goes while a
\* container that stays mounts it.
CleanedPartly(s) ==
  {left \in [containers : {docker[s].containers, Cleaned(s).containers},
            helper : HelpersLeft(s),
            network : {docker[s].network, Cleaned(s).network},
            volume : {docker[s].volume, Cleaned(s).volume}] :
     left.volume = docker[s].volume \/ (left.containers = {} /\ left.helper = {})}

FailCleanup(s) ==
  /\ Fault
  /\ job[s].pc \in {"find", "volume", "network", "installer", "wait", "owner", "create", "start"}
  /\ \E left \in CleanedPartly(s) : docker' = [docker EXCEPT ![s] = left]
  /\ job' = [job EXCEPT ![s].pc = "error"]
  /\ Mark(s, {"left"})
  /\ UNCHANGED <<row, req>>

MarkProvisionSucceeded(s) ==
  /\ Provisioning(s, "ok")
  /\ row' = [row EXCEPT ![s] = [@ EXCEPT !.status = job[s].state, !.version = NextVersion(s)]]
  /\ job' = [job EXCEPT ![s].pc = "done"]
  /\ UNCHANGED <<docker, req, odd, faults>>

RetryProvision(s) ==
  /\ Provisioning(s, "error")
  /\ job[s].attempts < Tries
  /\ job' = [job EXCEPT ![s].pc = "queued"]
  /\ UNCHANGED <<row, docker, req, odd, faults>>

MarkProvisionFailed(s) ==
  /\ Provisioning(s, "error")
  /\ job[s].attempts >= Tries
  /\ row' = [row EXCEPT ![s] = [@ EXCEPT !.status = "failed", !.version = NextVersion(s)]]
  /\ job' = [job EXCEPT ![s].pc = "gaveUp"]
  /\ UNCHANGED <<docker, req, odd, faults>>

\* The worker stops before it has recorded the answer; the event is claimed again.
LoseAnswer(s) ==
  /\ Provisioning(s, "ok")
  /\ Fault
  /\ job' = [job EXCEPT ![s].pc = "queued"]
  /\ Mark(s, {"cut"})
  /\ UNCHANGED <<row, docker, req>>

ProvisionFault(s) == LeaveInstaller(s) \/ LeaveInitializer(s) \/ FailCleanup(s) \/ LoseAnswer(s)

Provision(s) ==
  \/ ClaimProvision(s) \/ FindProvisioned(s) \/ FindUnprovisioned(s) \/ CreateVolume(s)
  \/ CreateNetwork(s) \/ StartInstaller(s) \/ SkipInstaller(s) \/ FinishInstaller(s)
  \/ InitializeOwnership(s) \/ CreateRuntime(s) \/ StartRuntime(s) \/ FailProvision(s) \/ MarkProvisionSucceeded(s)
  \/ RetryProvision(s) \/ MarkProvisionFailed(s)

-----------------------------------------------------------------------------
(* Power, to the extent that it meets the edits (ServerLifecycle has the   *)
(* rest): a request moves the status, the engine's answer moves it on.     *)

RequestPower(s, from, to) ==
  /\ "power" \in Requested[s] /\ row[s].powers < MaxStarts
  /\ ~row[s].deleted /\ row[s].status \in from
  /\ row' = [row EXCEPT ![s] = [@ EXCEPT !.status = to, !.version = NextVersion(s), !.powers = row[s].powers + 1]]
  /\ Mark(s, IF Busy(s) \/ AtWork(s) THEN {"overlap"} ELSE {})
  /\ UNCHANGED <<job, docker, req, faults>>

FinishPower(s, from, to) ==
  /\ row[s].status = from
  /\ row' = [row EXCEPT ![s] = [@ EXCEPT !.status = to, !.version = NextVersion(s)]]
  /\ UNCHANGED <<job, req, odd, faults>>

Start(s) == RequestPower(s, {"stopped", "failed"}, "starting")
Stop(s) == RequestPower(s, {"running", "failed"}, "stopping")

MayStart(s, c) == ~PortsPublished(s, c.config.ports) /\ docker[s].network

FinishStart(s) ==
  \/ \E c \in ManagedServer(s) :
       MayStart(s, c) /\ docker' = Runs(s, c) /\ FinishPower(s, "starting", "running")
  \/ /\ \A c \in ManagedServer(s) : ~MayStart(s, c)
     /\ FinishPower(s, "starting", "failed") /\ UNCHANGED docker

FinishStop(s) ==
  \/ \E c \in ManagedServer(s) :
       /\ docker' = [docker EXCEPT ![s].containers = {[c EXCEPT !.running = FALSE]}]
       /\ FinishPower(s, "stopping", "stopped")
  \/ /\ ManagedServer(s) = {}
     /\ FinishPower(s, "stopping", "running") /\ UNCHANGED docker

Power(s) == Start(s) \/ Stop(s) \/ FinishStart(s) \/ FinishStop(s)

-----------------------------------------------------------------------------
(* Edits of the configuration: updateServerStartup, updateServerSettings   *)
(* and updateServerNetwork.                                                *)

At(r, pc) == req[r].pc = pc
Goto(r, pc) == req' = [req EXCEPT ![r].pc = pc]
Finish(r) == req' = [req EXCEPT ![r] = [Idle EXCEPT !.pc = "done"]]
Target(r) == req[r].server

\* The handler reads the row of a stopped server, and its version.
LoadRow(r, s, kind) ==
  /\ At(r, "idle")
  /\ row[s].status = "stopped" /\ ~row[s].deleted
  /\ req' = [req EXCEPT ![r] = NewRequest("ports", kind, s, row[s].version, row[s].config)]
  /\ Mark(s, IF Busy(s) \/ AtWork(s) THEN {"overlap"} ELSE {})
  /\ UNCHANGED <<row, job, docker, faults>>

\* ApplyStartupCandidate, ApplySettingsCandidate, ApplyPortsCandidate.  The first gets
\* the new values of variables and not their new definitions.
Edited(r, config, ports) ==
  CASE req[r].kind \in {"startup", "variables"} -> [config EXCEPT !.startup = r]
    [] req[r].kind = "settings" -> [config EXCEPT !.settings = r]
    [] OTHER -> [config EXCEPT !.ports = ports]

\* The handler reads definitions and ports in queries of their own and prepares the request.
LoadPorts(r, ports) ==
  /\ At(r, "ports")
  /\ ports # {} /\ (req[r].kind # "network" => ports = row[Target(r)].config.ports)
  /\ LET current == [req[r].old EXCEPT !.definitions = row[Target(r)].config.definitions,
                                      !.ports = row[Target(r)].config.ports]
     IN  req' = [req EXCEPT ![r] = [@ EXCEPT !.pc = "find", !.old = current,
                                             !.new = Edited(r, current, ports)]]
  /\ UNCHANGED <<row, job, docker, odd, faults>>

\* The configuration asked of the engine: the candidate, or the previous one.
Asked(r) == IF req[r].phase = "apply" THEN req[r].new ELSE req[r].old

\* The engine's replaceRuntimeContainer.
FindReplaced(r) ==
  LET s == Target(r)
  IN  /\ At(r, "find")
      /\ \E c \in ManagedServer(s) :
           /\ ~c.running
           /\ req' = [req EXCEPT ![r] = [@ EXCEPT !.pc = "create", !.found = c.id]]
      /\ ~PortsPublished(s, Asked(r).ports)
      /\ UNCHANGED <<row, job, docker, odd, faults>>

Replacement(r) == [id |-> <<r, req[r].phase>>, config |-> Asked(r), running |-> FALSE]

CreateReplacement(r) ==
  LET s == Target(r)
  IN  /\ At(r, "create")
      /\ docker' = [docker EXCEPT ![s] =
           [@ EXCEPT !.containers = docker[s].containers \cup {Replacement(r)},
                     !.volume = Mounted(docker[s].volume)]]
      /\ Goto(r, "remove")
      /\ UNCHANGED <<row, job, odd, faults>>

\* The containers of s without the one named id.
Without(s, id) == {c \in docker[s].containers : c.id # id}

Found(r) == {c \in docker[Target(r)].containers : c.id = req[r].found}

\* Mutant: the replaced container is removed with force.
RemovableByForce(r) == Found(r) # {}

\* Docker refuses to remove a container that runs or that is gone.
Removable(r) == \E c \in Found(r) : ~c.running

\* Mutant: a replacement that cannot be renamed is dropped though the old is gone.
RemoveThenDrop(r) ==
  /\ At(r, "remove")
  /\ Removable(r)
  /\ docker' = [docker EXCEPT ![Target(r)].containers = Without(Target(r), req[r].found)]
  /\ Goto(r, "drop")
  /\ UNCHANGED <<row, job, odd, faults>>

\* The replacement takes the name of the old one; failing that, it keeps its own.
RemoveReplaced(r) ==
  /\ At(r, "remove")
  /\ Removable(r)
  /\ docker' = [docker EXCEPT ![Target(r)].containers = Without(Target(r), req[r].found)]
  /\ IF req[r].phase = "apply" THEN Goto(r, "commit") ELSE Finish(r)
  /\ UNCHANGED <<row, job, odd, faults>>

RemoveRefused(r) ==
  /\ At(r, "remove")
  /\ ~Removable(r)
  /\ Goto(r, "drop")
  /\ UNCHANGED <<row, job, docker, odd, faults>>

\* The handler reports the engine's error; a failed rollback is only logged.
Refused(r) ==
  /\ Finish(r)
  /\ Mark(Target(r), IF req[r].phase = "undo" THEN {"cut"} ELSE {})

FindRefused(r) ==
  LET s == Target(r)
  IN  /\ At(r, "find")
      /\ \/ \A c \in ManagedServer(s) : c.running
         \/ PortsPublished(s, Asked(r).ports)
      /\ Refused(r)
      /\ UNCHANGED <<row, job, docker, faults>>

\* The replacement is removed with force, whatever it is doing.
DropReplacement(r) ==
  /\ At(r, "drop")
  /\ docker' = [docker EXCEPT ![Target(r)].containers = Without(Target(r), <<r, req[r].phase>>)]
  /\ Refused(r)
  /\ UNCHANGED <<row, job, faults>>

\* The error of that removal is ignored: the replacement stays beside the other.
FailDrop(r) ==
  /\ At(r, "drop")
  /\ Fault
  /\ Finish(r)
  /\ Mark(Target(r), {"left"})
  /\ UNCHANGED <<row, job, docker>>

\* A Docker call fails: nothing was created, or the old container stays.
FailReplace(r) ==
  /\ Fault
  /\ \/ (At(r, "find") \/ At(r, "create")) /\ Refused(r)
     \/ At(r, "remove") /\ Goto(r, "drop") /\ UNCHANGED odd
  /\ UNCHANGED <<row, job, docker>>

\* The old container is removed, but the call is reported as failed.
LoseRemoval(r) ==
  /\ Fault
  /\ At(r, "remove") /\ Removable(r)
  /\ docker' = [docker EXCEPT ![Target(r)].containers = Without(Target(r), req[r].found)]
  /\ Goto(r, "drop")
  /\ Mark(Target(r), {"lost"})
  /\ UNCHANGED <<row, job>>

\* Mutant: the update of the row does not compare the version.
MayCommitUnversioned(r) ==
  LET s == Target(r)
  IN  /\ row[s].status = "stopped" /\ ~row[s].deleted
      /\ req[r].kind = "network" => ~PortsConflict(s, req[r].new.ports)

MayCommit(r) ==
  LET s == Target(r)
  IN  /\ row[s].version = req[r].version /\ row[s].status = "stopped" /\ ~row[s].deleted
      /\ req[r].kind = "network" => ~PortsConflict(s, req[r].new.ports)

\* The columns that the commit of a kind writes.  The definitions are the request's, which
\* the candidate did not have, or those that were read.
Stored(r, config) ==
  CASE req[r].kind = "startup" ->
         [config EXCEPT !.startup = req[r].new.startup, !.definitions = req[r].new.definitions]
    [] req[r].kind = "variables" ->
         [config EXCEPT !.startup = req[r].new.startup, !.definitions = r]
    [] req[r].kind = "settings" -> [config EXCEPT !.settings = req[r].new.settings]
    [] OTHER -> [config EXCEPT !.ports = req[r].new.ports]

Commit(r) ==
  /\ At(r, "commit")
  /\ MayCommit(r)
  /\ row' = [row EXCEPT ![Target(r)] = [@ EXCEPT !.config = Stored(r, row[Target(r)].config),
                                                !.version = NextVersion(Target(r))]]
  /\ Finish(r)
  /\ UNCHANGED <<job, docker, odd, faults>>

\* Mutant: a failed commit is not rolled back.
RolledBackNever(r) == Finish(r)

\* rollbackRuntimeConfiguration asks the engine for the configuration that was read.
RolledBack(r) == req' = [req EXCEPT ![r] = [@ EXCEPT !.pc = "find", !.phase = "undo"]]

CommitConflict(r) ==
  /\ At(r, "commit")
  /\ ~MayCommit(r)
  /\ RolledBack(r)
  /\ UNCHANGED <<row, job, docker, odd, faults>>

\* The transaction fails, of a serialization failure for one.
FailCommit(r) ==
  /\ At(r, "commit")
  /\ Fault
  /\ RolledBack(r)
  /\ UNCHANGED <<row, job, docker, odd>>

\* The app stops, or the client goes away and with it the request's context,
\* between the engine's answer and the commit.
Abort(r) ==
  /\ At(r, "commit")
  /\ Fault
  /\ Finish(r)
  /\ Mark(Target(r), {"cut"})
  /\ UNCHANGED <<row, job, docker>>

-----------------------------------------------------------------------------
(* Deletion.                                                               *)

BeginDelete(r, s) ==
  /\ At(r, "idle")
  /\ row[s].status # "none" /\ ~row[s].deleted
  /\ req' = [req EXCEPT ![r] = NewRequest("dHelpers", "delete", s, 0, NoConfig)]
  /\ Mark(s, {"deletion"} \cup IF Busy(s) \/ AtWork(s) \/ Powering(s) THEN {"overlap"} ELSE {})
  /\ UNCHANGED <<row, job, docker, faults>>

DeleteStep(r, from, to, resources) ==
  /\ At(r, from)
  /\ docker' = [docker EXCEPT ![Target(r)] = resources]
  /\ Goto(r, to)
  /\ UNCHANGED <<row, job, odd, faults>>

DeleteHelpers(r) ==
  DeleteStep(r, "dHelpers", "dContainer", [docker[Target(r)] EXCEPT !.helper = {}])

\* The one container is removed with force; several are left as they are.
DeleteContainer(r) ==
  DeleteStep(r, "dContainer", "dNetwork",
             [docker[Target(r)] EXCEPT !.containers = @ \ ManagedServer(Target(r))])

\* Docker keeps a network while a container on it runs.
NetworkInUse(s) == "installer" \in docker[s].helper \/ \E c \in docker[s].containers : c.running

DeleteNetwork(r) ==
  /\ docker[Target(r)].network => ~NetworkInUse(Target(r))
  /\ DeleteStep(r, "dNetwork", "dVolume", [docker[Target(r)] EXCEPT !.network = FALSE])

\* Docker keeps a volume while any container mounts it, forced or not.
VolumeInUse(s) == docker[s].helper # {} \/ docker[s].containers # {}

DeleteVolume(r) ==
  /\ docker[Target(r)].volume # "none" => ~VolumeInUse(Target(r))
  /\ DeleteStep(r, "dVolume", "dFinal", [docker[Target(r)] EXCEPT !.volume = "none"])

DeleteRefused(r) ==
  /\ \/ At(r, "dNetwork") /\ docker[Target(r)].network /\ NetworkInUse(Target(r))
     \/ At(r, "dVolume") /\ docker[Target(r)].volume # "none" /\ VolumeInUse(Target(r))
  /\ Finish(r)
  /\ UNCHANGED <<row, job, docker, odd, faults>>

\* A Docker call or the transaction fails, or the handler's process stops.
FailDelete(r) ==
  /\ req[r].pc \in {"dHelpers", "dContainer", "dNetwork", "dVolume", "dFinal"}
  /\ Fault
  /\ Finish(r)
  /\ UNCHANGED <<row, job, docker, odd>>

FinalizeDeletion(r) ==
  LET s == Target(r)
  IN  /\ At(r, "dFinal")
      /\ row' = IF row[s].deleted THEN row
                ELSE [row EXCEPT ![s] = [@ EXCEPT !.status = "deleting", !.deleted = TRUE,
                                                  !.version = NextVersion(s)]]
      /\ Finish(r)
      /\ UNCHANGED <<job, docker, odd, faults>>

\* The engine stops: the calls it served fail without their deferred functions.
EngineCrash ==
  LET provisioning(s) == AtWork(s) /\ job[s].pc \notin {"ok", "error"}
      calling(r) == req[r].pc \in EngineCalls
  IN  /\ Fault
      /\ \/ \E s \in Servers : provisioning(s)
         \/ \E r \in Requests : calling(r)
      /\ job' = [s \in Servers |-> IF provisioning(s) THEN [job[s] EXCEPT !.pc = "error"] ELSE job[s]]
      /\ req' = [r \in Requests |-> IF calling(r) THEN [Idle EXCEPT !.pc = "done"] ELSE req[r]]
      /\ odd' = [s \in Servers |->
                   IF provisioning(s) \/ \E r \in Requests : calling(r) /\ Target(r) = s
                   THEN odd[s] \cup {"cut"} ELSE odd[s]]
      /\ UNCHANGED <<row, docker>>

\* Mutant: other servers' ports are looked at when the request is read, not at the commit.
HandlePortsEarly(r) ==
  \/ \E ports \in SUBSET HostPorts :
       (req[r].kind = "network" => ~PortsConflict(Target(r), ports)) /\ LoadPorts(r, ports)
  \/ FindReplaced(r) \/ CreateReplacement(r) \/ RemoveReplaced(r)
  \/ /\ At(r, "commit") /\ row[Target(r)].version = req[r].version
     /\ row' = [row EXCEPT ![Target(r)] = [@ EXCEPT !.config = req[r].new,
                                                   !.version = NextVersion(Target(r))]]
     /\ Finish(r)
     /\ UNCHANGED <<job, docker, odd, faults>>

Handle(r) ==
  \/ \E ports \in SUBSET HostPorts : LoadPorts(r, ports)
  \/ FindReplaced(r) \/ FindRefused(r) \/ CreateReplacement(r)
  \/ RemoveReplaced(r) \/ RemoveRefused(r) \/ DropReplacement(r)
  \/ Commit(r) \/ CommitConflict(r)
  \/ DeleteHelpers(r) \/ DeleteContainer(r) \/ DeleteNetwork(r) \/ DeleteVolume(r)
  \/ DeleteRefused(r) \/ FinalizeDeletion(r)

Begin(r) ==
  \E s \in Servers :
     \/ \E kind \in EditKinds \cap Requested[s] : LoadRow(r, s, kind)
     \/ "delete" \in Requested[s] /\ BeginDelete(r, s)

Disturb(r) ==
  FailReplace(r) \/ LoseRemoval(r) \/ FailDrop(r) \/ FailCommit(r) \/ Abort(r) \/ FailDelete(r)

Next ==
  \/ \E s \in Servers : \/ \E start \in BOOLEAN : CreateServer(s, start)
                        \/ Provision(s) \/ ProvisionFault(s) \/ Power(s)
  \/ \E r \in Requests : Begin(r) \/ Handle(r) \/ Disturb(r)
  \/ EngineCrash

Spec == Init /\ [][Next]_vars

-----------------------------------------------------------------------------
(* Properties.                                                             *)

\* Two servers' rows never hold the same host port, whatever allocations and edits
\* of ports run at the same time (CreateServer, CommitServerPorts).
PortsExclusive ==
  \A s, t \in Servers : s # t => row[s].config.ports \cap row[t].config.ports = {}

\* The container has what the row of s says, but for definitions of variables that the
\* very edit it was made for has replaced.
Describes(s, c) ==
  LET config == row[s].config
  IN  /\ c.config.startup = config.startup /\ c.config.settings = config.settings
      /\ c.config.ports = config.ports
      /\ c.config.definitions = config.definitions \/ c.id = <<config.definitions, "apply">>

\* Nothing odd has happened to a provisioned server and no handler is at work on it.
AtRest(s) ==
  job[s].pc = "done" /\ odd[s] = {} /\ ~Busy(s) /\ row[s].status \in {"stopped", "running"}

\* Once its handlers are done with a server, its only container is the one its row
\* describes, on an installed volume: a failed commit was undone, a failed replacement
\* left the old container, an edit after one of the definitions has brought them into the
\* container.  Excused are overlapping handlers, a deletion begun, a crash, an abort or a
\* failed rollback between the engine's answer and the commit, and a removal whose
\* failure the code ignores.
RowMatchesContainer ==
  \A s \in Servers :
     AtRest(s) =>
       /\ docker[s].network /\ docker[s].volume = "installed"
       /\ \E c \in docker[s].containers :
            /\ docker[s].containers = {c}
            /\ Describes(s, c) /\ c.running = (row[s].status = "running")

\* The claim of fleet-pages.tsx:2609, that a server's own variables become environment
\* values of its container: it has been made with the definitions in the rows.
VariablesInContainer ==
  \A s \in Servers :
     AtRest(s) => \A c \in docker[s].containers : c.config.definitions = row[s].config.definitions

\* A provisioned server keeps a container through any number of edits, power requests,
\* crashes and aborts at once, until a deletion begins or the engine takes a removal
\* that Docker has made for a failed one (replaceRuntimeContainer).
KeepsContainer ==
  \A s \in Servers :
     job[s].pc = "done" /\ odd[s] \cap {"deletion", "lost"} = {} => docker[s].containers # {}

\* Only a deletion removes a container that runs: an edit that began while the server
\* was stopped does not take it away after a start, nor does the removal by force of
\* the edit's own replacement.
RunningKept ==
  [][\A s \in Servers : \A c \in docker[s].containers :
        c.running /\ odd[s] \cap {"deletion", "lost"} = {}
          => \E d \in docker'[s].containers : d.id = c.id]_vars

\* What an edit commits together with what it left as it was is the configuration it
\* gave the engine, but for the definitions that it replaces itself: the version, which
\* was read first, vouches for the reads after it.
CommitsWhatWasAsked ==
  [][\A r \in Requests :
        At(r, "commit") /\ row' # row /\ req'[r].pc = "done"
          => row'[Target(r)].config =
               [req[r].new EXCEPT !.definitions = IF req[r].kind = "variables" THEN r ELSE @]]_vars

\* A deleted server has left nothing in Docker, unless something else was at work on
\* it meanwhile, however many of its resources earlier failures had left; neither has one
\* whose provisioning was given up, unless the engine stopped in the middle of it or
\* ignored a failed removal (removeServerResources, createServerResources).
NothingLeft ==
  \A s \in Servers :
     \/ row[s].deleted /\ "overlap" \notin odd[s]
     \/ job[s].pc = "gaveUp" /\ odd[s] = {}
     => docker[s] = Nothing

=============================================================================
