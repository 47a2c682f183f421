------------------------ MODULE ServerContainersProofs ------------------------
(***************************************************************************)
(* Proofs about ServerContainers, for any number of servers, requests,     *)
(* ports and faults: its state is well typed, no two rows hold one port,   *)
(* an edit commits what it gave the engine and the definitions it brings,  *)
(* a provisioned server keeps a container and no edit takes a running one; *)
(* and where handlers do not overlap and no ignored removal failed, the    *)
(* row describes the server's only container and nothing is left of a      *)
(* server that is deleted or whose provisioning was given up.              *)
(***************************************************************************)
EXTENDS ServerContainers, TLAPS

-----------------------------------------------------------------------------
(* Type correctness.                                                       *)

\* The records a handler or a row starts from are well typed.
LEMMA IdleTyped ==
  /\ NoConfig \in Config
  /\ Idle \in Request
  /\ [Idle EXCEPT !.pc = "done"] \in Request
  /\ \A s \in Servers, kind \in EditKinds, v \in Nat, c \in Config :
        NewRequest("ports", kind, s, v, c) \in Request
  /\ \A s \in Servers : NewRequest("dHelpers", "delete", s, 0, NoConfig) \in Request
  <1>1. NoConfig \in Config BY DEF NoConfig, Config, Written
  <1>2. (CHOOSE s \in Servers : TRUE) \in Servers BY ContainersAssumption
  <1> QED BY <1>1, <1>2 DEF Idle, NewRequest, Request, ContainerId, EngineCalls, EditKinds

\* The initial state is well typed.
LEMMA InitTyped == Init => TypeOK
  <1> SUFFICES ASSUME Init PROVE TypeOK OBVIOUS
  <1>1. \A s \in Servers : FirstConfig(s) \in Config
    BY ContainersAssumption, IdleTyped DEF FirstConfig, Config, NoConfig, Written
  <1>2. row \in [Servers -> Row] BY <1>1, ContainersAssumption DEF Init, Row
  <1>3. job \in [Servers -> Job] BY IdleTyped DEF Init, Job
  <1>4. docker \in [Servers -> Resources]
    <2>1. \A s \in Servers : {[id |-> s, config |-> FirstConfig(s), running |-> FALSE]} \in SUBSET Container
      BY <1>1 DEF Container, ContainerId
    <2> QED BY <2>1 DEF Init, Resources, Nothing
  <1>5. req \in [Requests -> Request] BY IdleTyped DEF Init
  <1>6. odd \in [Servers -> SUBSET {"overlap", "deletion", "cut", "left", "lost"}] BY DEF Init
  <1>7. faults \in 0 .. MaxFaults BY ContainersAssumption DEF Init
  <1> QED BY <1>2, <1>3, <1>4, <1>5, <1>6, <1>7 DEF TypeOK

\* A status and the next version written into a row keep it well typed.
LEMMA RowTyped ==
  ASSUME row \in [Servers -> Row], NEW s \in Servers,
         NEW to \in {"stopped", "starting", "running", "stopping", "failed"},
         row' = [row EXCEPT ![s] = [@ EXCEPT !.status = to, !.version = NextVersion(s)]]
  PROVE  row' \in [Servers -> Row]
  <1>1. NextVersion(s) \in Nat BY DEF NextVersion, Row
  <1>2. \A v \in Nat : [row[s] EXCEPT !.status = to, !.version = v] \in Row BY DEF Row
  <1> QED BY <1>1, <1>2

\* So does the next step of a provision call, of a handler, and its end.
LEMMA StepTyped ==
  ASSUME TypeOK
  PROVE  /\ \A s \in Servers, pc \in {"queued", "find", "volume", "network", "installer", "wait", "owner",
                                      "create", "start", "ok", "error", "done", "gaveUp"} :
              job' = [job EXCEPT ![s].pc = pc] => job' \in [Servers -> Job]
         /\ \A r \in Requests, pc \in EngineCalls \cup {"commit", "dFinal"} :
              Goto(r, pc) => req' \in [Requests -> Request]
         /\ \A r \in Requests : Finish(r) => req' \in [Requests -> Request]
  <1>1. job \in [Servers -> Job] /\ req \in [Requests -> Request] BY DEF TypeOK
  <1>2. ASSUME NEW s \in Servers,
               NEW pc \in {"queued", "find", "volume", "network", "installer", "wait", "owner",
                           "create", "start", "ok", "error", "done", "gaveUp"},
               job' = [job EXCEPT ![s].pc = pc]
        PROVE  job' \in [Servers -> Job]
    BY <1>1, <1>2 DEF Job
  <1>3. ASSUME NEW r \in Requests, NEW pc \in EngineCalls \cup {"commit", "dFinal"}, Goto(r, pc)
        PROVE  req' \in [Requests -> Request]
    BY <1>1, <1>3 DEF Goto, Request
  <1>4. ASSUME NEW r \in Requests, Finish(r) PROVE req' \in [Requests -> Request]
    BY <1>1, <1>4, IdleTyped DEF Finish
  <1> QED BY <1>2, <1>3, <1>4

\* The engine's answer to a provision call is well typed.
LEMMA AnswersTyped ==
  ASSUME job \in [Servers -> Job], NEW s \in Servers, NEW state \in {"stopped", "running"},
         Answers(s, state)
  PROVE  job' \in [Servers -> Job]
  <1>1. [job[s] EXCEPT !.pc = "ok", !.state = state] \in Job BY DEF Job
  <1> QED BY <1>1 DEF Answers

\* A container that was started is well typed.
LEMMA RunsTyped ==
  ASSUME docker \in [Servers -> Resources], NEW s \in Servers, NEW c \in docker[s].containers
  PROVE  Runs(s, c) \in [Servers -> Resources]
  <1>1. docker[s].containers \in SUBSET Container BY DEF Resources
  <1>2. [c EXCEPT !.running = TRUE] \in Container BY <1>1 DEF Container
  <1>3. (docker[s].containers \ {c}) \cup {[c EXCEPT !.running = TRUE]} \in SUBSET Container BY <1>1, <1>2
  <1>4. \A C \in SUBSET Container : [docker EXCEPT ![s].containers = C] \in [Servers -> Resources]
    BY DEF Resources
  <1> QED BY <1>3, <1>4 DEF Runs

\* What a cleanup leaves, whole or not, is well typed.
LEMMA CleanedTyped ==
  ASSUME docker \in [Servers -> Resources], NEW s \in Servers
  PROVE  /\ Cleaned(s) \in Resources
         /\ \A left \in CleanedPartly(s) : left \in Resources
  <1>1. docker[s] \in Resources OBVIOUS
  <1>2. Cleaned(s) \in Resources BY <1>1 DEF Cleaned, CleanedAfter, Resources
  <1>3. HelpersLeft(s) \subseteq SUBSET {"installer", "initializer"}
    BY <1>1, <1>2 DEF HelpersLeft, Resources
  <1>4. ASSUME NEW left \in CleanedPartly(s)
        PROVE  left \in Resources
    <2> DEFINE D == docker[s]
               C == Cleaned(s)
    <2> HIDE DEF D, C
    <2>1. left \in [containers : {D.containers, C.containers}, helper : HelpersLeft(s),
                    network : {D.network, C.network}, volume : {D.volume, C.volume}]
      BY <1>4 DEF CleanedPartly, D, C
    <2>2. D \in Resources /\ C \in Resources BY <1>1, <1>2 DEF D, C
    <2> QED BY <2>1, <2>2, <1>3 DEF Resources
  <1> QED BY <1>2, <1>4

\* Provisioning keeps the state well typed.
LEMMA ProvisionTyped ==
  ASSUME TypeOK, NEW s \in Servers, Provision(s) \/ ProvisionFault(s)
  PROVE  TypeOK'
  <1>0. /\ row \in [Servers -> Row] /\ job \in [Servers -> Job] /\ docker \in [Servers -> Resources]
    BY DEF TypeOK
  <1>h. /\ docker[s] \in Resources
        /\ docker[s].helper \in SUBSET {"installer", "initializer"}
        /\ docker[s].volume \in {"none", "empty", "installed"}
    BY <1>0 DEF Resources
  <1>v. \A d \in Resources, h \in SUBSET {"installer", "initializer"}, v \in {"none", "empty", "installed"} :
          [d EXCEPT !.volume = v] \in Resources /\ [d EXCEPT !.helper = h, !.volume = v] \in Resources
    BY DEF Resources
  <1>1. CASE ClaimProvision(s)
    <2>1. job[s].attempts + 1 \in Nat BY <1>0 DEF Job
    <2>2. row[s].config \in Config /\ row[s].start \in BOOLEAN BY <1>0 DEF Row
    <2>3. \A v \in Nat, c \in Config, b \in BOOLEAN :
            [job[s] EXCEPT !.pc = "find", !.attempts = v, !.config = c, !.start = b] \in Job
      BY <1>0 DEF Job
    <2>4. job' \in [Servers -> Job] BY <1>0, <1>1, <2>1, <2>2, <2>3 DEF ClaimProvision
    <2>5. odd' \in [Servers -> SUBSET {"overlap", "deletion", "cut", "left", "lost"}]
      BY <1>1 DEF ClaimProvision, Mark, TypeOK
    <2> QED BY StepTyped, <1>1, <2>4, <2>5 DEF ClaimProvision, TypeOK
  <1>2. CASE FindProvisioned(s)
    <2>1. job' \in [Servers -> Job] BY <1>0, <1>2, AnswersTyped DEF FindProvisioned
    <2> QED BY StepTyped, <1>2, <2>1 DEF FindProvisioned, TypeOK
  <1>3. CASE FindUnprovisioned(s) BY <1>3, StepTyped DEF TypeOK, FindUnprovisioned, ProvisionStep
  <1>4. CASE CreateVolume(s)
    <2> DEFINE v == IF docker[s].volume = "none" THEN "empty" ELSE docker[s].volume
    <2>2. docker' = [docker EXCEPT ![s] = [docker[s] EXCEPT !.volume = v]] BY <1>4 DEF CreateVolume
    <2>3. [docker[s] EXCEPT !.volume = v] \in Resources BY <1>h, <1>v
    <2>1. docker' \in [Servers -> Resources] BY <1>0, <2>2, <2>3
    <2> QED BY StepTyped, <1>4, <2>1 DEF TypeOK, CreateVolume, ProvisionStep
  <1>5. CASE CreateNetwork(s)
    <2>1. docker' \in [Servers -> Resources] BY <1>0, <1>5 DEF CreateNetwork, Resources
    <2> QED BY StepTyped, <1>5, <2>1 DEF TypeOK, CreateNetwork, ProvisionStep
  <1>6. CASE StartInstaller(s)
    <2> DEFINE h == docker[s].helper \cup {"installer"}
               v == Mounted(docker[s].volume)
    <2>2. docker' = [docker EXCEPT ![s] = [docker[s] EXCEPT !.helper = h, !.volume = v]]
      BY <1>6 DEF StartInstaller
    <2>3. h \in SUBSET {"installer", "initializer"} /\ v \in {"none", "empty", "installed"}
      BY <1>h DEF Mounted
    <2>4. [docker[s] EXCEPT !.helper = h, !.volume = v] \in Resources
      <3> HIDE DEF h, v
      <3> QED BY <1>h, <1>v, <2>3
    <2>1. docker' \in [Servers -> Resources] BY <1>0, <2>2, <2>4
    <2> QED BY StepTyped, <1>6, <2>1 DEF TypeOK, StartInstaller, ProvisionStep
  <1>7. CASE SkipInstaller(s)
    <2>1. docker' \in [Servers -> Resources] BY <1>0, <1>7 DEF SkipInstaller, Resources
    <2> QED BY StepTyped, <1>7, <2>1 DEF TypeOK, SkipInstaller, ProvisionStep
  <1>8. CASE FinishInstaller(s)
    <2>1. docker' \in [Servers -> Resources] BY <1>0, <1>8 DEF FinishInstaller, Resources
    <2> QED BY StepTyped, <1>8, <2>1 DEF TypeOK, FinishInstaller, ProvisionStep
  <1>9. CASE InitializeOwnership(s)
    <2>1. docker' \in [Servers -> Resources] BY <1>0, <1>9 DEF InitializeOwnership, Mounted, Resources
    <2> QED BY StepTyped, <1>9, <2>1 DEF TypeOK, InitializeOwnership, ProvisionStep
  <1>10. CASE CreateRuntime(s)
    <2>1. {[id |-> s, config |-> job[s].config, running |-> FALSE]} \in SUBSET Container
      BY <1>0 DEF Job, Container, ContainerId
    <2> DEFINE C == {[id |-> s, config |-> job[s].config, running |-> FALSE]}
               v == Mounted(docker[s].volume)
    <2>2. docker' = [docker EXCEPT ![s] = [@ EXCEPT !.containers = C, !.volume = v]]
      BY <1>10 DEF CreateRuntime
    <2>3. C \in SUBSET Container /\ v \in {"none", "empty", "installed"}
      BY <1>0, <2>1 DEF Mounted, Resources
    <2> HIDE DEF C, v
    <2>4. docker' \in [Servers -> Resources] BY <1>0, <2>2, <2>3 DEF Resources
    <2> QED BY StepTyped, <1>10, <2>4 DEF TypeOK, CreateRuntime, ProvisionStep
  <1>11. CASE StartRuntime(s)
    <2>1. job' \in [Servers -> Job] BY <1>0, <1>11, AnswersTyped DEF StartRuntime
    <2>2. docker' \in [Servers -> Resources] BY <1>0, <1>11, RunsTyped DEF StartRuntime
    <2> QED BY StepTyped, <1>11, <2>1, <2>2 DEF TypeOK, StartRuntime
  <1>12. CASE FailProvision(s)
    <2>1. docker' \in [Servers -> Resources] BY <1>0, <1>12, CleanedTyped DEF FailProvision
    <2> QED BY StepTyped, <1>12, <2>1 DEF TypeOK, FailProvision
  <1>13. CASE MarkProvisionSucceeded(s)
    <2>1. job[s].state \in {"stopped", "running"} BY <1>0 DEF Job
    <2>2. row' \in [Servers -> Row] BY <1>0, <1>13, <2>1, RowTyped DEF MarkProvisionSucceeded
    <2> QED BY StepTyped, <1>13, <2>2 DEF TypeOK, MarkProvisionSucceeded
  <1>14. CASE RetryProvision(s) BY <1>14, StepTyped DEF TypeOK, RetryProvision
  <1>15. CASE MarkProvisionFailed(s)
    <2>1. row' \in [Servers -> Row] BY <1>0, <1>15, RowTyped DEF MarkProvisionFailed
    <2> QED BY StepTyped, <1>15, <2>1 DEF TypeOK, MarkProvisionFailed
  <1>m. ASSUME NEW what \in SUBSET {"overlap", "deletion", "cut", "left", "lost"}, Mark(s, what), Fault
        PROVE  /\ odd' \in [Servers -> SUBSET {"overlap", "deletion", "cut", "left", "lost"}]
               /\ faults' \in 0 .. MaxFaults
    <2>1. odd' \in [Servers -> SUBSET {"overlap", "deletion", "cut", "left", "lost"}]
      BY <1>m DEF Mark, TypeOK
    <2>2. faults' \in 0 .. MaxFaults BY <1>m, ContainersAssumption DEF Fault, TypeOK
    <2> QED BY <2>1, <2>2
  <1>16. CASE LoseAnswer(s)
    BY StepTyped, <1>16, <1>m DEF TypeOK, LoseAnswer
  <1>17. CASE LeaveInstaller(s)
    <2>1. docker' \in [Servers -> Resources] BY <1>0, <1>17 DEF LeaveInstaller, Resources
    <2> QED BY StepTyped, <1>17, <1>m, <2>1 DEF TypeOK, LeaveInstaller
  <1>18. CASE LeaveInitializer(s)
    <2> DEFINE h == docker[s].helper \cup {"initializer"}
               v == Mounted(docker[s].volume)
    <2>2. docker' = [docker EXCEPT ![s] = [docker[s] EXCEPT !.helper = h, !.volume = v]]
      BY <1>18 DEF LeaveInitializer
    <2>3. h \in SUBSET {"installer", "initializer"} /\ v \in {"none", "empty", "installed"}
      BY <1>h DEF Mounted
    <2>4. [docker[s] EXCEPT !.helper = h, !.volume = v] \in Resources
      <3> HIDE DEF h, v
      <3> QED BY <1>h, <1>v, <2>3
    <2>1. docker' \in [Servers -> Resources] BY <1>0, <2>2, <2>4
    <2> QED BY StepTyped, <1>18, <1>m, <2>1 DEF TypeOK, LeaveInitializer
  <1>19. CASE FailCleanup(s)
    <2>1. PICK left \in CleanedPartly(s) : docker' = [docker EXCEPT ![s] = left] BY <1>19 DEF FailCleanup
    <2>2. left \in Resources BY <1>0, CleanedTyped
    <2>3. docker' \in [Servers -> Resources] BY <1>0, <2>1, <2>2
    <2> QED BY StepTyped, <1>19, <1>m, <2>3 DEF TypeOK, FailCleanup
  <1> QED BY <1>1, <1>2, <1>3, <1>4, <1>5, <1>6, <1>7, <1>8, <1>9, <1>10, <1>11, <1>12, <1>13, <1>14,
             <1>15, <1>16, <1>17, <1>18, <1>19 DEF Provision, ProvisionFault

\* Creation keeps the state well typed: the ports allocated are host ports.
LEMMA CreateTyped ==
  ASSUME TypeOK, NEW s \in Servers, NEW start \in BOOLEAN, CreateServer(s, start)
  PROVE  TypeOK'
  <1>0. row \in [Servers -> Row] BY DEF TypeOK
  <1>1. PICK ports \in Allocation(HostPorts \ AllocatedPorts) :
           row' = [row EXCEPT ![s] = [@ EXCEPT !.status = "installing", !.start = start,
                                               !.config = TemplateConfig(ports)]]
    BY DEF CreateServer
  <1>2. {ports[n] : n \in DOMAIN ports} \subseteq HostPorts BY DEF Allocation
  <1>3. TemplateConfig(ports) \in Config BY <1>2, IdleTyped DEF TemplateConfig, Config
  <1>4. \A c \in Config : [row[s] EXCEPT !.status = "installing", !.start = start, !.config = c] \in Row
    BY <1>0 DEF Row
  <1>5. row' \in [Servers -> Row] BY <1>0, <1>1, <1>3, <1>4
  <1> QED BY <1>5, StepTyped DEF CreateServer, TypeOK

\* Power requests and their answers keep the state well typed.
LEMMA PowerTyped ==
  ASSUME TypeOK, NEW s \in Servers, Power(s)
  PROVE  TypeOK'
  <1>0. /\ row \in [Servers -> Row] /\ docker \in [Servers -> Resources]
        /\ odd \in [Servers -> SUBSET {"overlap", "deletion", "cut", "left", "lost"}]
    BY DEF TypeOK
  <1>1. ASSUME NEW from, NEW to \in {"starting", "stopping"}, RequestPower(s, from, to)
        PROVE  TypeOK'
    <2>1. NextVersion(s) \in Nat /\ row[s].powers + 1 \in 0 .. MaxStarts
      BY <1>0, <1>1, ContainersAssumption DEF NextVersion, Row, RequestPower
    <2>2. \A v \in Nat, p \in 0 .. MaxStarts :
            [row[s] EXCEPT !.status = to, !.version = v, !.powers = p] \in Row
      BY <1>0 DEF Row
    <2>3. row' \in [Servers -> Row] BY <1>0, <1>1, <2>1, <2>2 DEF RequestPower
    <2>4. odd' \in [Servers -> SUBSET {"overlap", "deletion", "cut", "left", "lost"}]
      BY <1>0, <1>1 DEF RequestPower, Mark
    <2> QED BY <1>1, <2>3, <2>4 DEF RequestPower, TypeOK
  <1>2. ASSUME NEW from, NEW to \in {"stopped", "running", "failed"}, FinishPower(s, from, to),
               docker' \in [Servers -> Resources]
        PROVE  TypeOK'
    <2>1. row' \in [Servers -> Row] BY <1>0, <1>2, RowTyped DEF FinishPower
    <2> QED BY <1>2, <2>1 DEF FinishPower, TypeOK
  <1>3. CASE Start(s) \/ Stop(s) BY <1>1, <1>3 DEF Start, Stop
  <1>4. CASE FinishStart(s)
    <2>1. \A c \in ManagedServer(s) : Runs(s, c) \in [Servers -> Resources]
      BY <1>0, RunsTyped DEF ManagedServer
    <2> QED BY <1>0, <1>2, <1>4, <2>1 DEF FinishStart
  <1>5. CASE FinishStop(s)
    <2>1. docker[s].containers \in SUBSET Container BY <1>0 DEF Resources
    <2>2. \A c \in ManagedServer(s) : {[c EXCEPT !.running = FALSE]} \in SUBSET Container
      BY <2>1 DEF ManagedServer, Container
    <2>3. \A C \in SUBSET Container : [docker EXCEPT ![s].containers = C] \in [Servers -> Resources]
      BY <1>0 DEF Resources
    <2>4. docker' \in [Servers -> Resources] BY <1>0, <1>5, <2>2, <2>3 DEF FinishStop
    <2> QED BY <1>2, <1>5, <2>4 DEF FinishStop
  <1> QED BY <1>3, <1>4, <1>5 DEF Power

\* Beginning an edit or a deletion keeps the state well typed.
LEMMA BeginTyped ==
  ASSUME TypeOK, NEW r \in Requests, Begin(r)
  PROVE  TypeOK'
  <1>0. row \in [Servers -> Row] /\ req \in [Requests -> Request] BY DEF TypeOK
  <1>1. ASSUME NEW s \in Servers, NEW kind \in EditKinds, LoadRow(r, s, kind)
        PROVE  TypeOK'
    <2>1. row[s].config \in Config /\ row[s].version \in Nat BY <1>0 DEF Row
    <2>2. req' \in [Requests -> Request] BY <1>0, <1>1, <2>1, IdleTyped DEF LoadRow
    <2>3. odd' \in [Servers -> SUBSET {"overlap", "deletion", "cut", "left", "lost"}]
      BY <1>1 DEF LoadRow, Mark, TypeOK
    <2> QED BY <1>1, <2>2, <2>3 DEF LoadRow, TypeOK
  <1>2. ASSUME NEW s \in Servers, BeginDelete(r, s)
        PROVE  TypeOK'
    <2>1. req' \in [Requests -> Request] BY <1>0, <1>2, IdleTyped DEF BeginDelete
    <2>2. odd' \in [Servers -> SUBSET {"overlap", "deletion", "cut", "left", "lost"}]
      BY <1>2 DEF BeginDelete, Mark, TypeOK
    <2> QED BY <1>2, <2>1, <2>2 DEF BeginDelete, TypeOK
  <1> QED BY <1>1, <1>2, ContainersAssumption DEF Begin

\* An edit keeps the state well typed.
LEMMA EditTyped ==
  ASSUME TypeOK, NEW r \in Requests,
         \/ \E ports \in SUBSET HostPorts : LoadPorts(r, ports)
         \/ FindReplaced(r) \/ FindRefused(r) \/ CreateReplacement(r)
         \/ RemoveReplaced(r) \/ RemoveRefused(r) \/ DropReplacement(r)
         \/ Commit(r) \/ CommitConflict(r)
         \/ FailReplace(r) \/ LoseRemoval(r) \/ FailDrop(r) \/ FailCommit(r) \/ Abort(r)
  PROVE  TypeOK'
  <1>0. /\ row \in [Servers -> Row] /\ docker \in [Servers -> Resources] /\ req \in [Requests -> Request]
        /\ faults \in 0 .. MaxFaults
    BY DEF TypeOK
  <1>s. Target(r) \in Servers BY <1>0 DEF Target, Request
  <1>c. req[r].old \in Config /\ req[r].new \in Config BY <1>0 DEF Request
  <1>o. ASSUME NEW s \in Servers, NEW what \in SUBSET {"overlap", "deletion", "cut", "left", "lost"}, Mark(s, what)
        PROVE  odd' \in [Servers -> SUBSET {"overlap", "deletion", "cut", "left", "lost"}]
    BY <1>o DEF Mark, TypeOK
  <1>f. Fault => faults' \in 0 .. MaxFaults BY <1>0, ContainersAssumption DEF Fault
  <1>d. \A C \in SUBSET Container : [docker EXCEPT ![Target(r)].containers = C] \in [Servers -> Resources]
    BY <1>0, <1>s DEF Resources
  <1>w. \A id : Without(Target(r), id) \in SUBSET Container BY <1>0, <1>s DEF Without, Resources
  <1>r. Refused(r) => /\ req' \in [Requests -> Request]
                      /\ odd' \in [Servers -> SUBSET {"overlap", "deletion", "cut", "left", "lost"}]
    BY <1>s, <1>o, StepTyped DEF Refused
  <1>u. RolledBack(r) => req' \in [Requests -> Request]
    <2>1. [req[r] EXCEPT !.pc = "find", !.phase = "undo"] \in Request BY <1>0 DEF Request, EngineCalls
    <2> QED BY <1>0, <2>1 DEF RolledBack
  <1>1. ASSUME NEW ports \in SUBSET HostPorts, LoadPorts(r, ports)
        PROVE  TypeOK'
    <2> DEFINE current == [req[r].old EXCEPT !.definitions = row[Target(r)].config.definitions,
                                             !.ports = row[Target(r)].config.ports]
    <2>1. row[Target(r)].config \in Config BY <1>0, <1>s DEF Row
    <2>2. current \in Config BY <1>c, <2>1 DEF Config
    <2>3. Edited(r, current, ports) \in Config
      <3> HIDE DEF current
      <3>1. /\ [current EXCEPT !.startup = r] \in Config
            /\ [current EXCEPT !.settings = r] \in Config
            /\ [current EXCEPT !.ports = ports] \in Config
        BY <2>2 DEF Config, Written
      <3> QED BY <3>1 DEF Edited
    <2>4. req' = [req EXCEPT ![r] = [@ EXCEPT !.pc = "find", !.old = current, !.new = Edited(r, current, ports)]]
      BY <1>1 DEF LoadPorts
    <2>5. \A c, d \in Config : [req[r] EXCEPT !.pc = "find", !.old = c, !.new = d] \in Request
      BY <1>0 DEF Request, EngineCalls
    <2> HIDE DEF current
    <2>6. req' \in [Requests -> Request] BY <1>0, <2>2, <2>3, <2>4, <2>5
    <2> QED BY <1>1, <2>6 DEF LoadPorts, TypeOK
  <1>2. CASE FindReplaced(r)
    <2>1. PICK c \in ManagedServer(Target(r)) :
             req' = [req EXCEPT ![r] = [@ EXCEPT !.pc = "create", !.found = c.id]]
      BY <1>2 DEF FindReplaced
    <2>2. c.id \in ContainerId BY <1>0, <1>s DEF ManagedServer, Resources, Container
    <2>3. \A id \in ContainerId : [req[r] EXCEPT !.pc = "create", !.found = id] \in Request
      BY <1>0 DEF Request, EngineCalls
    <2>4. req' \in [Requests -> Request] BY <1>0, <2>1, <2>2, <2>3
    <2> QED BY <1>2, <2>4 DEF FindReplaced, TypeOK
  <1>3. CASE FindRefused(r) BY <1>3, <1>r DEF FindRefused, TypeOK
  <1>4. CASE CreateReplacement(r)
    <2>1. Replacement(r) \in Container
      BY <1>0, <1>c DEF Replacement, Asked, Container, ContainerId, Request
    <2>2. docker[Target(r)].containers \cup {Replacement(r)} \in SUBSET Container
      BY <1>0, <1>s, <2>1 DEF Resources
    <2>3. \A C \in SUBSET Container, v \in {"none", "empty", "installed"} :
            [docker[Target(r)] EXCEPT !.containers = C, !.volume = v] \in Resources
      BY <1>0, <1>s DEF Resources
    <2>4. Mounted(docker[Target(r)].volume) \in {"none", "empty", "installed"}
      BY <1>0, <1>s DEF Mounted, Resources
    <2>5. docker' \in [Servers -> Resources] BY <1>0, <1>s, <1>4, <2>2, <2>3, <2>4 DEF CreateReplacement
    <2>6. req' \in [Requests -> Request] BY <1>4, StepTyped DEF CreateReplacement, EngineCalls
    <2> QED BY <1>4, <2>5, <2>6 DEF CreateReplacement, TypeOK
  <1>5. CASE RemoveReplaced(r)
    <2>1. docker' \in [Servers -> Resources] BY <1>5, <1>d, <1>w DEF RemoveReplaced
    <2>2. req' \in [Requests -> Request] BY <1>5, StepTyped DEF RemoveReplaced
    <2> QED BY <1>5, <2>1, <2>2 DEF RemoveReplaced, TypeOK
  <1>6. CASE RemoveRefused(r)
    <2>1. req' \in [Requests -> Request] BY <1>6, StepTyped DEF RemoveRefused, EngineCalls
    <2> QED BY <1>6, <2>1 DEF RemoveRefused, TypeOK
  <1>7. CASE DropReplacement(r)
    <2>1. docker' \in [Servers -> Resources] BY <1>7, <1>d, <1>w DEF DropReplacement
    <2> QED BY <1>7, <2>1, <1>r DEF DropReplacement, TypeOK
  <1>8. CASE Commit(r)
    <2>1. NextVersion(Target(r)) \in Nat /\ row[Target(r)].config \in Config
      BY <1>0, <1>s DEF NextVersion, Row
    <2>2. Stored(r, row[Target(r)].config) \in Config
      <3>1. /\ [row[Target(r)].config EXCEPT !.startup = req[r].new.startup,
                                              !.definitions = req[r].new.definitions] \in Config
            /\ [row[Target(r)].config EXCEPT !.startup = req[r].new.startup, !.definitions = r] \in Config
            /\ [row[Target(r)].config EXCEPT !.settings = req[r].new.settings] \in Config
            /\ [row[Target(r)].config EXCEPT !.ports = req[r].new.ports] \in Config
        BY <1>c, <2>1 DEF Config, Written
      <3> QED BY <3>1 DEF Stored
    <2>3. \A c \in Config, v \in Nat : [row[Target(r)] EXCEPT !.config = c, !.version = v] \in Row
      BY <1>0, <1>s DEF Row
    <2>4. row' \in [Servers -> Row] BY <1>0, <1>s, <1>8, <2>1, <2>2, <2>3 DEF Commit
    <2> QED BY <1>8, <2>4, StepTyped DEF Commit, TypeOK
  <1>9. CASE CommitConflict(r) BY <1>9, <1>u DEF CommitConflict, TypeOK
  <1>10. CASE FailReplace(r)
    <2>1. Goto(r, "drop") => req' \in [Requests -> Request] BY StepTyped DEF EngineCalls
    <2>2. /\ req' \in [Requests -> Request]
          /\ odd' \in [Servers -> SUBSET {"overlap", "deletion", "cut", "left", "lost"}]
      BY <1>10, <1>r, <2>1 DEF FailReplace, TypeOK
    <2> QED BY <1>10, <1>f, <2>2 DEF FailReplace, TypeOK
  <1>11. CASE LoseRemoval(r)
    <2>1. docker' \in [Servers -> Resources] BY <1>11, <1>d, <1>w DEF LoseRemoval
    <2>2. req' \in [Requests -> Request] BY <1>11, StepTyped DEF LoseRemoval, EngineCalls
    <2>3. odd' \in [Servers -> SUBSET {"overlap", "deletion", "cut", "left", "lost"}]
      BY <1>11, <1>o, <1>s DEF LoseRemoval
    <2> QED BY <1>11, <1>f, <2>1, <2>2, <2>3 DEF LoseRemoval, TypeOK
  <1>12. CASE FailCommit(r) BY <1>12, <1>u, <1>f DEF FailCommit, TypeOK
  <1>13. CASE Abort(r)
    <2>1. odd' \in [Servers -> SUBSET {"overlap", "deletion", "cut", "left", "lost"}]
      BY <1>13, <1>o, <1>s DEF Abort
    <2> QED BY <1>13, <1>f, <2>1, StepTyped DEF Abort, TypeOK
  <1>14. CASE FailDrop(r)
    <2>1. odd' \in [Servers -> SUBSET {"overlap", "deletion", "cut", "left", "lost"}]
      BY <1>14, <1>o, <1>s DEF FailDrop
    <2> QED BY <1>14, <1>f, <2>1, StepTyped DEF FailDrop, TypeOK
  <1> QED BY <1>1, <1>2, <1>3, <1>4, <1>5, <1>6, <1>7, <1>8, <1>9, <1>10, <1>11, <1>12, <1>13, <1>14

\* Deletions keep the state well typed.
LEMMA DeleteTyped ==
  ASSUME TypeOK, NEW r \in Requests,
         \/ DeleteHelpers(r) \/ DeleteContainer(r) \/ DeleteNetwork(r) \/ DeleteVolume(r)
         \/ DeleteRefused(r) \/ FailDelete(r) \/ FinalizeDeletion(r)
  PROVE  TypeOK'
  <1>0. /\ row \in [Servers -> Row] /\ docker \in [Servers -> Resources] /\ req \in [Requests -> Request]
    BY DEF TypeOK
  <1>s. Target(r) \in Servers BY <1>0 DEF Target, Request
  <1>1. ASSUME NEW from, NEW to \in {"dContainer", "dNetwork", "dVolume", "dFinal"},
               NEW resources \in Resources, DeleteStep(r, from, to, resources)
        PROVE  TypeOK'
    <2>1. docker' \in [Servers -> Resources] BY <1>0, <1>s, <1>1 DEF DeleteStep
    <2>2. req' \in [Requests -> Request] BY <1>1, StepTyped DEF DeleteStep, EngineCalls
    <2> QED BY <1>1, <2>1, <2>2 DEF DeleteStep, TypeOK
  <1>2. /\ [docker[Target(r)] EXCEPT !.helper = {}] \in Resources
        /\ [docker[Target(r)] EXCEPT !.network = FALSE] \in Resources
        /\ [docker[Target(r)] EXCEPT !.volume = "none"] \in Resources
        /\ [docker[Target(r)] EXCEPT !.containers = @ \ ManagedServer(Target(r))] \in Resources
    BY <1>0, <1>s DEF Resources
  <1>3. CASE DeleteHelpers(r) BY <1>1, <1>2, <1>3 DEF DeleteHelpers
  <1>4. CASE DeleteContainer(r) BY <1>1, <1>2, <1>4 DEF DeleteContainer
  <1>5. CASE DeleteNetwork(r) BY <1>1, <1>2, <1>5 DEF DeleteNetwork
  <1>6. CASE DeleteVolume(r) BY <1>1, <1>2, <1>6 DEF DeleteVolume
  <1>7. CASE DeleteRefused(r) BY <1>7, StepTyped DEF DeleteRefused, TypeOK
  <1>8. CASE FailDelete(r)
    <2>1. faults' \in 0 .. MaxFaults BY <1>8, ContainersAssumption DEF FailDelete, Fault, TypeOK
    <2> QED BY <1>8, <2>1, StepTyped DEF FailDelete, TypeOK
  <1>9. CASE FinalizeDeletion(r)
    <2>1. NextVersion(Target(r)) \in Nat BY <1>0, <1>s DEF NextVersion, Row
    <2>2. \A v \in Nat : [row[Target(r)] EXCEPT !.status = "deleting", !.deleted = TRUE, !.version = v] \in Row
      BY <1>0, <1>s DEF Row
    <2>3. row' \in [Servers -> Row] BY <1>0, <1>s, <1>9, <2>1, <2>2 DEF FinalizeDeletion
    <2> QED BY <1>9, <2>3, StepTyped DEF FinalizeDeletion, TypeOK
  <1> QED BY <1>3, <1>4, <1>5, <1>6, <1>7, <1>8, <1>9

\* A crash of the engine keeps the state well typed.
LEMMA CrashTyped ==
  ASSUME TypeOK, EngineCrash
  PROVE  TypeOK'
  <1>0. /\ job \in [Servers -> Job] /\ req \in [Requests -> Request]
        /\ odd \in [Servers -> SUBSET {"overlap", "deletion", "cut", "left", "lost"}]
    BY DEF TypeOK
  <1>1. \A s \in Servers : [job[s] EXCEPT !.pc = "error"] \in Job BY <1>0 DEF Job
  <1>2. job' \in [Servers -> Job] BY <1>0, <1>1 DEF EngineCrash
  <1>3. req' \in [Requests -> Request] BY <1>0, IdleTyped DEF EngineCrash
  <1>4. odd' \in [Servers -> SUBSET {"overlap", "deletion", "cut", "left", "lost"}] BY <1>0 DEF EngineCrash
  <1>5. faults' \in 0 .. MaxFaults BY ContainersAssumption DEF EngineCrash, Fault, TypeOK
  <1> QED BY <1>2, <1>3, <1>4, <1>5 DEF EngineCrash, TypeOK

\* Every step keeps the state well typed.
LEMMA NextTyped == TypeOK /\ [Next]_vars => TypeOK'
  <1> SUFFICES ASSUME TypeOK, [Next]_vars PROVE TypeOK' OBVIOUS
  <1>1. CASE UNCHANGED vars BY <1>1 DEF vars, TypeOK
  <1>2. ASSUME NEW s \in Servers,
               \/ \E start \in BOOLEAN : CreateServer(s, start)
               \/ Provision(s) \/ ProvisionFault(s) \/ Power(s)
        PROVE  TypeOK'
    BY <1>2, CreateTyped, ProvisionTyped, PowerTyped
  <1>3. ASSUME NEW r \in Requests, Begin(r) \/ Handle(r) \/ Disturb(r)
        PROVE  TypeOK'
    BY <1>3, BeginTyped, EditTyped, DeleteTyped DEF Handle, Disturb
  <1>4. CASE EngineCrash BY <1>4, CrashTyped
  <1> QED BY <1>1, <1>2, <1>3, <1>4 DEF Next

\* The state is always well typed: rows, provision calls, Docker resources and handlers.
THEOREM ContainersTyped == Spec => []TypeOK
  <1> QED BY InitTyped, NextTyped, PTL DEF Spec

-----------------------------------------------------------------------------
(* Rows and handlers, step by step.                                        *)

\* The handler of an edit is under way.
Editing(r) == req[r].pc \in {"ports", "find", "create", "remove", "drop", "commit"}

\* What all steps leave of a row but creations and commits.
RowKept(s) ==
  /\ row'[s].config = row[s].config
  /\ row'[s].version >= row[s].version
  /\ row[s].status # "none" => row'[s].status # "none"

\* Writing a status and the next version leaves a row's configuration.
LEMMA StatusKeeps ==
  ASSUME TypeOK, NEW s \in Servers, NEW to, to # "none",
         row' = [row EXCEPT ![s] = [@ EXCEPT !.status = to, !.version = NextVersion(s)]]
  PROVE  \A t \in Servers : RowKept(t)
  <1>1. row \in [Servers -> Row] BY DEF TypeOK
  <1>2. \A t \in Servers : row[t].version \in Nat BY <1>1 DEF Row
  <1>3. \A t \in Servers \ {s} : row'[t] = row[t] BY <1>1
  <1>4. row'[s] = [row[s] EXCEPT !.status = to, !.version = NextVersion(s)] BY <1>1
  <1>5. row'[s].config = row[s].config /\ row'[s].version = NextVersion(s) /\ row'[s].status = to
    BY <1>1, <1>4 DEF Row
  <1> QED BY <1>2, <1>3, <1>5 DEF RowKept, NextVersion

\* Only creations and commits change the configuration in a row.
LEMMA RowStep ==
  ASSUME TypeOK, [Next]_vars
  PROVE  \/ \A t \in Servers : RowKept(t)
         \/ \E s \in Servers, start \in BOOLEAN : CreateServer(s, start)
         \/ \E r \in Requests : Commit(r)
  <1>1. row \in [Servers -> Row] /\ req \in [Requests -> Request] /\ job \in [Servers -> Job] BY DEF TypeOK
  <1>2. row' = row => \A t \in Servers : RowKept(t)
    <2>1. \A t \in Servers : row[t].version \in Nat BY <1>1 DEF Row
    <2> QED BY <2>1 DEF RowKept
  <1>3. CASE UNCHANGED vars BY <1>2, <1>3 DEF vars
  <1>4. ASSUME NEW s \in Servers, Provision(s) \/ ProvisionFault(s)
        PROVE  \A t \in Servers : RowKept(t)
    <2>1. CASE MarkProvisionSucceeded(s)
      <3>1. job[s].state # "none" BY <1>1 DEF Job
      <3> QED BY <2>1, <3>1, StatusKeeps DEF MarkProvisionSucceeded
    <2>2. CASE MarkProvisionFailed(s) BY <2>2, StatusKeeps DEF MarkProvisionFailed
    <2>3. CASE ~MarkProvisionSucceeded(s) /\ ~MarkProvisionFailed(s)
      <3>1. row' = row
        BY <1>4, <2>3 DEF Provision, ClaimProvision, FindProvisioned, FindUnprovisioned, CreateVolume,
           CreateNetwork, StartInstaller, SkipInstaller, FinishInstaller, InitializeOwnership,
           CreateRuntime, StartRuntime, FailProvision, RetryProvision, ProvisionFault, LeaveInstaller,
           LeaveInitializer, FailCleanup, LoseAnswer, ProvisionStep
      <3> QED BY <1>2, <3>1
    <2> QED BY <2>1, <2>2, <2>3
  <1>5. ASSUME NEW s \in Servers, Power(s)
        PROVE  \A t \in Servers : RowKept(t)
    <2>1. ASSUME NEW from, NEW to, to # "none", RequestPower(s, from, to)
          PROVE  \A t \in Servers : RowKept(t)
      <3>1. \A t \in Servers : row[t].version \in Nat BY <1>1 DEF Row
      <3>2. \A t \in Servers \ {s} : row'[t] = row[t] BY <1>1, <2>1 DEF RequestPower
      <3>3. \A v, p : LET n == [row[s] EXCEPT !.status = to, !.version = v, !.powers = p]
                      IN  n.config = row[s].config /\ n.version = v /\ n.status = to
        BY <1>1 DEF Row
      <3>4. row'[s] = [row[s] EXCEPT !.status = to, !.version = NextVersion(s), !.powers = row[s].powers + 1]
        BY <1>1, <2>1 DEF RequestPower
      <3>5. row'[s].config = row[s].config /\ row'[s].version = NextVersion(s) /\ row'[s].status = to
        BY <3>3, <3>4
      <3> QED BY <2>1, <3>1, <3>2, <3>5 DEF RowKept, NextVersion
    <2>2. ASSUME NEW from, NEW to, to # "none", FinishPower(s, from, to)
          PROVE  \A t \in Servers : RowKept(t)
      BY <2>2, StatusKeeps DEF FinishPower
    <2> QED BY <1>5, <2>1, <2>2 DEF Power, Start, Stop, FinishStart, FinishStop
  <1>6. ASSUME NEW r \in Requests, Begin(r) \/ Handle(r) \/ Disturb(r), ~Commit(r)
        PROVE  \A t \in Servers : RowKept(t)
    <2>1. CASE FinalizeDeletion(r)
      <3>1. Target(r) \in Servers BY <1>1 DEF Target, Request
      <3>2. CASE row[Target(r)].deleted BY <1>2, <2>1, <3>2 DEF FinalizeDeletion
      <3>3. CASE ~row[Target(r)].deleted
        <4> DEFINE s == Target(r)
        <4>1. \A t \in Servers : row[t].version \in Nat BY <1>1 DEF Row
        <4>2. \A t \in Servers \ {s} : row'[t] = row[t] BY <1>1, <2>1, <3>3 DEF FinalizeDeletion
        <4>3. row'[s] = [row[s] EXCEPT !.status = "deleting", !.deleted = TRUE, !.version = NextVersion(s)]
          BY <1>1, <2>1, <3>1, <3>3 DEF FinalizeDeletion
        <4>4. row'[s].config = row[s].config /\ row'[s].version = NextVersion(s) /\ row'[s].status = "deleting"
          BY <1>1, <3>1, <4>3 DEF Row
        <4> QED BY <3>1, <4>1, <4>2, <4>4 DEF RowKept, NextVersion
      <3> QED BY <3>2, <3>3
    <2>2. CASE ~FinalizeDeletion(r)
      <3>1. row' = row
        BY <1>6, <2>2 DEF Begin, LoadRow, BeginDelete, Handle, LoadPorts, FindReplaced, FindRefused,
           CreateReplacement, RemoveReplaced, RemoveRefused, DropReplacement, CommitConflict,
           DeleteHelpers, DeleteContainer, DeleteNetwork, DeleteVolume, DeleteStep, DeleteRefused,
           Disturb, FailReplace, LoseRemoval, FailDrop, FailCommit, Abort, FailDelete
      <3> QED BY <1>2, <3>1
    <2> QED BY <2>1, <2>2
  <1>7. CASE EngineCrash BY <1>2, <1>7 DEF EngineCrash
  <1> QED BY <1>3, <1>4, <1>5, <1>6, <1>7 DEF Next

\* What the steps of an edit leave alone once it has read the row and the ports.
Moved(r) ==
  /\ Editing(r) /\ req[r].pc # "ports" /\ req'[r].pc # "ports"
  /\ req'[r].kind = req[r].kind /\ req'[r].server = req[r].server
  /\ req'[r].version = req[r].version
  /\ req'[r].old = req[r].old /\ req'[r].new = req[r].new

\* Creations, provisioning and power leave the handlers.
LEMMA RequestsKept ==
  ASSUME NEW s \in Servers,
         \/ \E start \in BOOLEAN : CreateServer(s, start)
         \/ Provision(s) \/ ProvisionFault(s) \/ Power(s)
  PROVE  req' = req
  BY DEF CreateServer, Provision, ClaimProvision, FindProvisioned, FindUnprovisioned, CreateVolume,
     CreateNetwork, StartInstaller, SkipInstaller, FinishInstaller, InitializeOwnership,
     CreateRuntime, StartRuntime, FailProvision, RetryProvision, ProvisionFault, LeaveInstaller,
           LeaveInitializer, FailCleanup, LoseAnswer, ProvisionStep,
     MarkProvisionSucceeded, MarkProvisionFailed,
     Power, Start, Stop, FinishStart, FinishStop, RequestPower, FinishPower

\* A step of one handler leaves the others.
LEMMA OwnRequest ==
  ASSUME TypeOK, NEW q \in Requests, Begin(q) \/ Handle(q) \/ Disturb(q)
  PROVE  \A r \in Requests \ {q} : req'[r] = req[r]
  <1>1. req \in [Requests -> Request] BY DEF TypeOK
  <1>2. (\E pc : Goto(q, pc)) \/ Finish(q) \/ RolledBack(q) => \A r \in Requests \ {q} : req'[r] = req[r]
    BY <1>1 DEF Goto, Finish, RolledBack
  <1>3. CASE Begin(q) BY <1>1, <1>3 DEF Begin, LoadRow, BeginDelete
  <1>4. ASSUME NEW ports \in SUBSET HostPorts, LoadPorts(q, ports)
        PROVE  \A r \in Requests \ {q} : req'[r] = req[r]
    BY <1>1, <1>4 DEF LoadPorts
  <1>5. CASE FindReplaced(q) BY <1>1, <1>5 DEF FindReplaced
  <1>6. CASE Disturb(q)
    BY <1>2, <1>6 DEF Disturb, FailReplace, LoseRemoval, FailDrop, FailCommit, Abort, FailDelete, Refused
  <1>7. CASE Handle(q)
    BY <1>2, <1>4, <1>5, <1>7 DEF Handle, FindRefused, CreateReplacement, RemoveReplaced, RemoveRefused,
       DropReplacement, Commit, CommitConflict, DeleteHelpers, DeleteContainer, DeleteNetwork,
       DeleteVolume, DeleteStep, DeleteRefused, FinalizeDeletion, Refused
  <1> QED BY <1>3, <1>6, <1>7

\* A step that leaves a handler in the middle of an edit leaves it as it was, begins it,
\* reads its ports, or moves it on.
LEMMA ReqStep ==
  ASSUME TypeOK, [Next]_vars, NEW r \in Requests, Editing(r)'
  PROVE  \/ req'[r] = req[r]
         \/ \E s \in Servers, kind \in EditKinds : LoadRow(r, s, kind)
         \/ \E ports \in SUBSET HostPorts : LoadPorts(r, ports)
         \/ Moved(r) /\ row' = row
  <1>1. req \in [Requests -> Request] BY DEF TypeOK
  <1>2. CASE UNCHANGED vars BY <1>2 DEF vars
  <1>3. ASSUME NEW s \in Servers,
               \/ \E start \in BOOLEAN : CreateServer(s, start)
               \/ Provision(s) \/ ProvisionFault(s) \/ Power(s)
        PROVE  req' = req
    BY <1>3, RequestsKept
  <1>4. ~Finish(r) BY <1>1 DEF Finish, Editing, Idle, NewRequest
  <1>5. ASSUME NEW pc, Goto(r, pc)
        PROVE  /\ req'[r].pc = pc
               /\ Editing(r) /\ req[r].pc # "ports" /\ pc # "ports" => Moved(r)
    BY <1>1, <1>5 DEF Goto, Moved, Request
  <1>6. CASE EngineCrash
    BY <1>1, <1>6 DEF EngineCrash, Editing, Idle, NewRequest
  <1>7. CASE Begin(r)
    BY <1>1, <1>7, ContainersAssumption DEF Begin, BeginDelete, NewRequest, EditKinds, Editing
  <1>8. ASSUME RolledBack(r), At(r, "commit")
        PROVE  Moved(r)
    BY <1>1, <1>8 DEF RolledBack, At, Moved, Request, Editing
  <1>9. CASE FindReplaced(r)
    <2>1. PICK id : req' = [req EXCEPT ![r] = [@ EXCEPT !.pc = "create", !.found = id]]
      BY <1>9 DEF FindReplaced
    <2>2. At(r, "find") /\ row' = row BY <1>9 DEF FindReplaced
    <2> QED BY <1>1, <2>1, <2>2 DEF At, Moved, Request, Editing
  <1>10. CASE Disturb(r)
    BY <1>4, <1>5, <1>8, <1>10
       DEF Disturb, FailReplace, LoseRemoval, FailDrop, FailCommit, Abort, FailDelete, Refused, At, Editing
  <1>11. CASE CreateReplacement(r) \/ RemoveReplaced(r) \/ RemoveRefused(r)
    BY <1>4, <1>5, <1>11 DEF CreateReplacement, RemoveReplaced, RemoveRefused, At, Editing
  <1>12. CASE FindRefused(r) \/ DropReplacement(r) \/ Commit(r) \/ CommitConflict(r)
    BY <1>4, <1>8, <1>12 DEF FindRefused, DropReplacement, Commit, CommitConflict, Refused
  <1>13. CASE \/ DeleteHelpers(r) \/ DeleteContainer(r) \/ DeleteNetwork(r) \/ DeleteVolume(r)
              \/ DeleteRefused(r) \/ FinalizeDeletion(r)
    BY <1>4, <1>5, <1>13 DEF DeleteHelpers, DeleteContainer, DeleteNetwork,
       DeleteVolume, DeleteStep, DeleteRefused, FinalizeDeletion, Editing
  <1>14. CASE Handle(r) BY <1>9, <1>11, <1>12, <1>13, <1>14 DEF Handle
  <1>15. ASSUME NEW q \in Requests, Begin(q) \/ Handle(q) \/ Disturb(q)
         PROVE  \/ req'[r] = req[r]
                \/ \E s \in Servers, kind \in EditKinds : LoadRow(r, s, kind)
                \/ \E ports \in SUBSET HostPorts : LoadPorts(r, ports)
                \/ Moved(r) /\ row' = row
    BY <1>7, <1>10, <1>14, <1>15, OwnRequest
  <1> QED BY <1>2, <1>3, <1>6, <1>15 DEF Next

\* While the version an edit has read is still the row's, the row holds what the edit
\* takes for the old configuration; and the edit asks for that with its own part changed.
VersionVouches ==
  \A r \in Requests :
     Editing(r) =>
       /\ req[r].kind \in EditKinds
       /\ row[Target(r)].status # "none"
       /\ req[r].version <= row[Target(r)].version
       /\ req[r].version = row[Target(r)].version => row[Target(r)].config = req[r].old
       /\ req[r].pc # "ports" => req[r].new = Edited(r, req[r].old, req[r].new.ports)

\* A commit takes its row to the next version, a creation begins with no edit.
LEMMA RowAdvances ==
  ASSUME TypeOK, [Next]_vars, NEW s \in Servers, row[s].status # "none"
  PROVE  /\ row'[s].status # "none" /\ row'[s].version >= row[s].version
         /\ row'[s].version = row[s].version => row'[s].config = row[s].config
  <1>1. row \in [Servers -> Row] /\ req \in [Requests -> Request] BY DEF TypeOK
  <1>2. \A t \in Servers : row[t].version \in Nat BY <1>1 DEF Row
  <1>3. CASE \A t \in Servers : RowKept(t) BY <1>3, <1>2 DEF RowKept
  <1>4. ASSUME NEW t \in Servers, NEW start \in BOOLEAN, CreateServer(t, start)
        PROVE  row'[s] = row[s]
    <2>1. t # s BY <1>4 DEF CreateServer
    <2> QED BY <1>1, <1>4, <2>1 DEF CreateServer
  <1>5. ASSUME NEW r \in Requests, Commit(r)
        PROVE  /\ row'[s].status # "none" /\ row'[s].version >= row[s].version
               /\ row'[s].version = row[s].version => row'[s].config = row[s].config
    <2>1. CASE Target(r) # s BY <1>1, <1>2, <1>5, <2>1 DEF Commit
    <2>2. CASE Target(r) = s
      <3>1. row'[s] = [row[s] EXCEPT !.config = Stored(r, row[s].config), !.version = NextVersion(s)]
        BY <1>1, <1>5, <2>2 DEF Commit
      <3>2. row'[s].status = row[s].status /\ row'[s].version = NextVersion(s)
        BY <1>1, <3>1 DEF Row
      <3> QED BY <1>2, <3>2 DEF NextVersion
    <2> QED BY <2>1, <2>2
  <1> QED BY <1>2, <1>3, <1>4, <1>5, RowStep


\* Every step keeps it.
LEMMA VouchesStep ==
  ASSUME TypeOK, VersionVouches, [Next]_vars
  PROVE  VersionVouches'
  <1>1. row \in [Servers -> Row] /\ req \in [Requests -> Request] BY DEF TypeOK
  <1>2. \A s \in Servers : row[s].version \in Nat /\ row'[s].version \in Nat
    BY NextTyped DEF TypeOK, Row
  <1>3. \A r \in Requests : req[r].version \in Nat /\ Target(r) \in Servers BY <1>1 DEF Request, Target
  <1> SUFFICES ASSUME NEW r \in Requests, Editing(r)'
               PROVE  /\ req'[r].kind \in EditKinds
                      /\ row'[Target(r)'].status # "none"
                      /\ req'[r].version <= row'[Target(r)'].version
                      /\ req'[r].version = row'[Target(r)'].version => row'[Target(r)'].config = req'[r].old
                      /\ req'[r].pc # "ports" => req'[r].new = Edited(r, req[r].old, req[r].new.ports)'
    BY DEF VersionVouches
  <1>4. ASSUME Editing(r), req'[r].kind = req[r].kind, req'[r].server = req[r].server,
               req'[r].version = req[r].version, req'[r].old = req[r].old
        PROVE  /\ req'[r].kind \in EditKinds
               /\ row'[Target(r)'].status # "none"
               /\ req'[r].version <= row'[Target(r)'].version
               /\ req'[r].version = row'[Target(r)'].version => row'[Target(r)'].config = req'[r].old
    BY <1>2, <1>3, <1>4, RowAdvances DEF VersionVouches, Target
  <1>5. CASE req'[r] = req[r]
    <2>1. Editing(r) BY <1>5 DEF Editing
    <2>2. req'[r].pc # "ports" => req'[r].new = Edited(r, req[r].old, req[r].new.ports)'
      BY <1>5, <2>1 DEF VersionVouches, Edited
    <2> QED BY <1>4, <1>5, <2>1, <2>2
  <1>6. CASE Moved(r)
    <2>1. req'[r].new = Edited(r, req[r].old, req[r].new.ports)'
      BY <1>6 DEF VersionVouches, Edited, Moved
    <2> QED BY <1>4, <1>6, <2>1 DEF Moved
  <1>7. ASSUME NEW s \in Servers, NEW kind \in EditKinds, LoadRow(r, s, kind)
        PROVE  /\ req'[r].kind \in EditKinds
               /\ row'[Target(r)'].status # "none"
               /\ req'[r].version <= row'[Target(r)'].version
               /\ req'[r].version = row'[Target(r)'].version => row'[Target(r)'].config = req'[r].old
               /\ req'[r].pc = "ports"
    <2>1. req'[r] = NewRequest("ports", kind, s, row[s].version, row[s].config)
      BY <1>1, <1>7 DEF LoadRow
    <2>2. req'[r].kind = kind /\ req'[r].version = row[s].version /\ req'[r].old = row[s].config
          /\ req'[r].server = s /\ req'[r].pc = "ports"
      BY <2>1 DEF NewRequest
    <2>3. row' = row /\ row[s].status = "stopped" BY <1>7 DEF LoadRow
    <2> QED BY <1>2, <2>2, <2>3 DEF Target
  <1>8. ASSUME NEW ports \in SUBSET HostPorts, LoadPorts(r, ports)
        PROVE  /\ req'[r].kind \in EditKinds
               /\ row'[Target(r)'].status # "none"
               /\ req'[r].version <= row'[Target(r)'].version
               /\ req'[r].version = row'[Target(r)'].version => row'[Target(r)'].config = req'[r].old
               /\ req'[r].new = Edited(r, req[r].old, req[r].new.ports)'
    <2> DEFINE current == [req[r].old EXCEPT !.definitions = row[Target(r)].config.definitions,
                                             !.ports = row[Target(r)].config.ports]
    <2>1. row' = row /\ Editing(r) BY <1>8 DEF LoadPorts, At, Editing
    <2>2. req'[r] = [req[r] EXCEPT !.pc = "find", !.old = current, !.new = Edited(r, current, ports)]
      BY <1>1, <1>8 DEF LoadPorts
    <2>3. req[r].old \in Config /\ row[Target(r)].config \in Config
      BY <1>1, <1>3 DEF Request, Row
    <2>4. row[Target(r)].config = req[r].old => current = req[r].old BY <2>3 DEF Config
    <2>5. \A n \in SUBSET HostPorts : Edited(r, current, n).ports = n \/ Edited(r, current, n) = Edited(r, current, Edited(r, current, n).ports)
      BY <2>3 DEF Edited, Config
    <2>6. Edited(r, current, ports) = Edited(r, current, Edited(r, current, ports).ports)
      BY <2>5
    <2> HIDE DEF current
    <2>7. /\ req'[r].kind = req[r].kind /\ req'[r].server = req[r].server /\ req'[r].version = req[r].version
          /\ req'[r].old = current /\ req'[r].new = Edited(r, current, ports)
      BY <1>1, <2>2 DEF Request
    <2>8. Edited(r, req[r].old, req[r].new.ports)' = Edited(r, current, Edited(r, current, ports).ports)
      BY <2>7 DEF Edited
    <2> QED BY <1>2, <1>3, <2>1, <2>4, <2>6, <2>7, <2>8 DEF VersionVouches, Target
  <1> QED BY <1>5, <1>6, <1>7, <1>8, ReqStep

\* The initial state has no edits.
LEMMA VouchesInit == Init => VersionVouches
  BY DEF Init, VersionVouches, Editing, Idle, NewRequest

\* So it always holds.
LEMMA VouchesAlways == Spec => [](TypeOK /\ VersionVouches)
  <1> QED BY InitTyped, NextTyped, VouchesInit, VouchesStep, PTL DEF Spec

-----------------------------------------------------------------------------
(* Host ports and commits.                                                 *)

\* A commit writes the columns of its kind.
LEMMA CommitWrites ==
  ASSUME TypeOK, VersionVouches, NEW r \in Requests, Commit(r)
  PROVE  /\ Target(r) \in Servers
         /\ \A t \in Servers \ {Target(r)} : row'[t] = row[t]
         /\ row'[Target(r)].config = Stored(r, row[Target(r)].config)
         /\ req[r].kind \in EditKinds
         /\ row[Target(r)].config = req[r].old
         /\ req[r].new = Edited(r, req[r].old, req[r].new.ports)
  <1>1. row \in [Servers -> Row] /\ req \in [Requests -> Request] BY DEF TypeOK
  <1>2. Target(r) \in Servers BY <1>1 DEF Request, Target
  <1>3. row'[Target(r)] = [row[Target(r)] EXCEPT !.config = Stored(r, row[Target(r)].config),
                                                 !.version = NextVersion(Target(r))]
    BY <1>1, <1>2 DEF Commit
  <1>4. row'[Target(r)].config = Stored(r, row[Target(r)].config) BY <1>1, <1>2, <1>3 DEF Row
  <1>5. Editing(r) /\ req[r].pc # "ports" BY DEF Commit, At, Editing
  <1>6. req[r].version = row[Target(r)].version BY DEF Commit, MayCommit
  <1> QED BY <1>1, <1>2, <1>4, <1>5, <1>6 DEF Commit, VersionVouches

\* No step gives one port to two rows: a creation takes ports that no row has, a
\* commit of ports has looked for them in the other rows, the other commits keep them.
LEMMA ExclusiveStep ==
  ASSUME TypeOK, VersionVouches, PortsExclusive, [Next]_vars
  PROVE  PortsExclusive'
  <1>1. row \in [Servers -> Row] /\ req \in [Requests -> Request] BY DEF TypeOK
  <1>2. CASE \A t \in Servers : RowKept(t) BY <1>2 DEF RowKept, PortsExclusive
  <1>3. ASSUME NEW s \in Servers, NEW start \in BOOLEAN, CreateServer(s, start)
        PROVE  PortsExclusive'
    <2>1. PICK ports \in Allocation(HostPorts \ AllocatedPorts) :
             row' = [row EXCEPT ![s] = [@ EXCEPT !.status = "installing", !.start = start,
                                                 !.config = TemplateConfig(ports)]]
      BY <1>3 DEF CreateServer
    <2>2. {ports[n] : n \in DOMAIN ports} \cap AllocatedPorts = {} BY DEF Allocation
    <2>3. TemplateConfig(ports).ports = {ports[n] : n \in DOMAIN ports} BY DEF TemplateConfig, NoConfig
    <2>4. row'[s].config = TemplateConfig(ports)
      <3>1. row'[s] = [row[s] EXCEPT !.status = "installing", !.start = start, !.config = TemplateConfig(ports)]
        BY <1>1, <2>1
      <3> QED BY <1>1, <3>1 DEF Row
    <2>5. \A t \in Servers \ {s} : row'[t] = row[t] BY <1>1, <2>1
    <2>6. \A t \in Servers : row'[s].config.ports \cap row[t].config.ports = {}
      BY <2>2, <2>3, <2>4 DEF AllocatedPorts
    <2> QED BY <2>5, <2>6 DEF PortsExclusive
  <1>4. ASSUME NEW r \in Requests, Commit(r)
        PROVE  PortsExclusive'
    <2> DEFINE s == Target(r)
    <2>1. row[s].config \in Config BY <1>1, <1>4, CommitWrites DEF Row
    <2>2. CASE req[r].kind = "network"
      <3>1. row'[s].config.ports = req[r].new.ports
        BY <1>4, <2>1, <2>2, CommitWrites DEF Stored, Config
      <3>2. \A t \in Servers \ {s} : row[t].config.ports \cap req[r].new.ports = {}
        BY <1>4, <2>2 DEF Commit, MayCommit, PortsConflict
      <3> QED BY <1>4, <3>1, <3>2, CommitWrites DEF PortsExclusive
    <2>3. CASE req[r].kind # "network"
      <3>1. row'[s].config.ports = row[s].config.ports
        BY <1>4, <2>1, <2>3, CommitWrites DEF Stored, Config, EditKinds
      <3> QED BY <1>4, <3>1, CommitWrites DEF PortsExclusive
    <2> QED BY <2>2, <2>3
  <1> QED BY <1>2, <1>3, <1>4, RowStep

\* Two servers' rows never hold the same host port, for any number of servers, ports
\* and concurrent creations and edits (CreateServer, CommitServerPorts).
THEOREM PortsAreExclusive == Spec => []PortsExclusive
  <1>1. Init => PortsExclusive
    <2> SUFFICES ASSUME Init PROVE PortsExclusive OBVIOUS
    <2>1. \A s \in Servers : row[s].config.ports = IF s \in Existing THEN FirstPorts[s] ELSE {}
      BY DEF Init, FirstConfig, NoConfig
    <2> QED BY <2>1, ContainersAssumption DEF PortsExclusive
  <1>2. TypeOK /\ VersionVouches /\ PortsExclusive /\ [Next]_vars => PortsExclusive' BY ExclusiveStep
  <1> QED BY <1>1, <1>2, VouchesAlways, PTL DEF Spec

\* A step that changes a row and takes a handler from its commit to its end is the commit.
LEMMA CommitStep ==
  ASSUME TypeOK, [Next]_vars, NEW r \in Requests, At(r, "commit"), row' # row, req'[r].pc = "done"
  PROVE  Commit(r)
  <1>1. req \in [Requests -> Request] /\ req'[r] # req[r] BY DEF TypeOK, At
  <1>2. ASSUME NEW s \in Servers,
               \/ \E start \in BOOLEAN : CreateServer(s, start)
               \/ Provision(s) \/ ProvisionFault(s) \/ Power(s)
        PROVE  req' = req
    BY <1>2, RequestsKept
  <1>3. CASE Begin(r) \/ Handle(r) \/ Disturb(r)
    BY <1>3 DEF Begin, LoadRow, BeginDelete, Handle, LoadPorts, FindReplaced, FindRefused,
           CreateReplacement, RemoveReplaced, RemoveRefused, DropReplacement, CommitConflict,
           DeleteHelpers, DeleteContainer, DeleteNetwork, DeleteVolume, DeleteStep, DeleteRefused,
           FinalizeDeletion, At, Disturb, FailReplace, LoseRemoval, FailDrop, FailCommit, Abort, FailDelete
  <1> QED BY <1>1, <1>2, <1>3, OwnRequest DEF Next, vars, EngineCrash

\* A commit stores in the row the configuration that the engine was asked for, with the
\* definitions of variables that it brings itself.
LEMMA CommitStores ==
  ASSUME TypeOK, VersionVouches, NEW r \in Requests, Commit(r)
  PROVE  row'[Target(r)].config =
           [req[r].new EXCEPT !.definitions = IF req[r].kind = "variables" THEN r ELSE @]
  <1>1. req[r].old \in Config BY DEF TypeOK, Request
  <1>2. \A old \in Config :
          req[r].kind \in EditKinds /\ req[r].new = Edited(r, old, req[r].new.ports)
            => Stored(r, old) =
                 [req[r].new EXCEPT !.definitions = IF req[r].kind = "variables" THEN r ELSE @]
    BY DEF Edited, Stored, Config, EditKinds
  <1> QED BY <1>1, <1>2, CommitWrites

\* What an edit commits, with what it left as it was, is the configuration it gave the
\* engine, but for the definitions of variables that it replaces (CommitStartupConfiguration),
\* for any number of concurrent edits, power requests and deletions.
THEOREM CommitsAreAsked == Spec => CommitsWhatWasAsked
  <1>1. ASSUME TypeOK, VersionVouches, [Next]_vars
        PROVE  [\A r \in Requests :
                  At(r, "commit") /\ row' # row /\ req'[r].pc = "done"
                    => row'[Target(r)].config =
                         [req[r].new EXCEPT !.definitions = IF req[r].kind = "variables" THEN r ELSE @]]_vars
    <2> SUFFICES ASSUME NEW r \in Requests, At(r, "commit"), row' # row, req'[r].pc = "done"
                 PROVE  row'[Target(r)].config =
                          [req[r].new EXCEPT !.definitions = IF req[r].kind = "variables" THEN r ELSE @]
      OBVIOUS
    <2>1. Commit(r) BY <1>1, CommitStep
    <2> QED BY <1>1, <2>1, CommitStores
  <1> QED BY <1>1, VouchesAlways, PTL DEF Spec, CommitsWhatWasAsked

-----------------------------------------------------------------------------
(* Containers.  Each edit in the middle of a replacement has a container of *)
(* its own that it may still drop; besides these there is always one that   *)
(* nobody will drop, and what an edit removes is never another's own.       *)

\* No deletion has begun, no removal was taken for a failed one.
Marks(s) == odd[s] \cap {"deletion", "lost"}
Whole(s) == Marks(s) = {}

Deleting(r) == req[r].pc \in {"dHelpers", "dContainer", "dNetwork", "dVolume", "dFinal"}

Phases == {"apply", "undo"}

\* The name of the replacement that the edit r creates in its phase.
Own(r) == <<r, req[r].phase>>

\* Where provisioning stands, and the row and the container with it.
Provisioned ==
  \A s \in Servers :
    /\ job[s].pc = "none" <=> row[s].status = "none"
    /\ job[s].pc \notin {"none", "done", "gaveUp"} => row[s].status \in {"installing", "deleting"}
    /\ job[s].pc = "start" => \A c \in docker[s].containers : c.running = FALSE
    /\ job[s].pc \in {"start", "ok"} /\ Whole(s) => docker[s].containers # {}

\* Edits are of servers whose provisioning is over, deletions have left their mark.
Handlers ==
  \A r \in Requests :
    /\ Editing(r) => job[Target(r)].pc \in {"done", "gaveUp"}
    /\ Deleting(r) => "deletion" \in odd[Target(r)] /\ job[Target(r)].pc # "none"
    /\ req[r].pc \in {"idle", "ports", "commit"} => req[r].phase = "apply"

\* When a container may have the name <<r, p>>.
Named(s, r, p) ==
  \/ req[r].pc = "done"
  \/ /\ Target(r) = s
     /\ \/ p = req[r].phase /\ req[r].pc \in {"remove", "drop", "commit"}
        \/ p = "apply" /\ req[r].phase = "undo" /\ Editing(r)

Names ==
  \A s \in Servers : \A c \in docker[s].containers :
    /\ \A d \in docker[s].containers : c.id = d.id => c = d
    /\ \A r \in Requests, p \in Phases : c.id = <<r, p>> => Named(s, r, p)

\* A name that no edit will drop any more.
Settled(id) ==
  \A r \in Requests, p \in Phases :
    id = <<r, p>> => \/ req[r].pc = "done"
                     \/ p = req[r].phase /\ req[r].pc = "commit"
                     \/ p = "apply" /\ req[r].phase = "undo"

\* What an edit has found is settled, its own container is there and does not run.
Pending ==
  \A r \in Requests :
    Whole(Target(r)) =>
      /\ req[r].pc \in {"create", "remove"} => Settled(req[r].found)
      /\ req[r].pc = "remove" => \E c \in docker[Target(r)].containers : c.id = Own(r)
      /\ req[r].pc \in {"remove", "drop"} =>
           \A c \in docker[Target(r)].containers : c.id = Own(r) => c.running = FALSE

Replacing(s) == \E r \in Requests : Target(r) = s /\ req[r].pc \in {"create", "remove", "drop"}

\* A container that stays.
Anchored ==
  \A s \in Servers :
    Whole(s) /\ (job[s].pc = "done" \/ Replacing(s)) =>
      \E c \in docker[s].containers : Settled(c.id)

KeepInv == TypeOK /\ Provisioned /\ Handlers /\ Names /\ Pending /\ Anchored

\* A server's name is not a replacement's; a replacement's name is its own.
LEMMA OwnNames ==
  /\ \A s \in Servers, r \in Requests, p \in Phases : s # <<r, p>>
  /\ \A q, r, p, o : <<q, p>> = <<r, o>> <=> q = r /\ p = o
BY ContainersAssumption DEF Phases

\* While an edit may drop its own container, that one is not settled.
LEMMA OwnUnsettled ==
  ASSUME TypeOK, NEW r \in Requests, req[r].pc \in {"remove", "drop"}
  PROVE  ~Settled(Own(r))
  <1>1. req[r].phase \in Phases BY DEF TypeOK, Request, Phases
  <1> QED BY <1>1 DEF Settled, Own

\* The only container of a server is settled.
LEMMA SoleSettled ==
  ASSUME KeepInv, NEW s \in Servers, Whole(s), NEW c \in docker[s].containers, docker[s].containers = {c}
  PROVE  Settled(c.id)
  <1> SUFFICES ASSUME ~Replacing(s) PROVE Settled(c.id) BY DEF KeepInv, Anchored
  <1> SUFFICES ASSUME NEW r \in Requests, NEW p \in Phases, c.id = <<r, p>>
               PROVE  \/ req[r].pc = "done"
                      \/ p = req[r].phase /\ req[r].pc = "commit"
                      \/ p = "apply" /\ req[r].phase = "undo"
    BY DEF Settled
  <1>1. Named(s, r, p) BY DEF KeepInv, Names
  <1> QED BY <1>1 DEF Named, Replacing

-----------------------------------------------------------------------------
(* The steps of handlers, as far as containers are concerned.              *)

\* The moves of an edit.
Progress(r) ==
  \/ req'[r].pc = "done"
  \/ /\ req'[r].server = req[r].server
     /\ \/ /\ req'[r].phase = req[r].phase
           /\ \/ req[r].pc = "ports" /\ req'[r].pc = "find"
              \/ req[r].pc = "find" /\ req'[r].pc = "create"
              \/ /\ req'[r].found = req[r].found
                 /\ \/ req[r].pc = "create" /\ req'[r].pc = "remove"
                    \/ req[r].pc = "remove" /\ req'[r].pc = "drop"
                    \/ req[r].pc = "remove" /\ req'[r].pc = "commit" /\ req[r].phase = "apply"
        \/ req[r].pc = "commit" /\ req'[r].pc = "find" /\ req[r].phase = "apply" /\ req'[r].phase = "undo"

\* Names stay allowed and settled along the moves of an edit.
LEMMA ProgressKeeps ==
  ASSUME NEW r \in Requests, Editing(r), Progress(r), \A q \in Requests \ {r} : req'[q] = req[q]
  PROVE  /\ \A s, p : \A q \in Requests : Named(s, q, p) => Named(s, q, p)'
         /\ \A id : Settled(id) => Settled(id)'
  <1>1. ASSUME NEW s, NEW q \in Requests, NEW p, Named(s, q, p) PROVE Named(s, q, p)'
    <2>1. CASE q # r BY <1>1, <2>1 DEF Named, Target, Editing
    <2>2. CASE q = r BY <1>1, <2>2 DEF Named, Target, Editing, Progress
    <2> QED BY <2>1, <2>2
  <1>2. ASSUME NEW id, Settled(id) PROVE Settled(id)'
    <2> SUFFICES ASSUME NEW q \in Requests, NEW p \in Phases, id = <<q, p>>
                 PROVE  \/ req'[q].pc = "done"
                        \/ p = req'[q].phase /\ req'[q].pc = "commit"
                        \/ p = "apply" /\ req'[q].phase = "undo"
      BY DEF Settled
    <2>1. \/ req[q].pc = "done"
          \/ p = req[q].phase /\ req[q].pc = "commit"
          \/ p = "apply" /\ req[q].phase = "undo"
      BY <1>2 DEF Settled
    <2>2. CASE q # r BY <2>1, <2>2
    <2>3. CASE q = r BY <2>1, <2>3 DEF Progress, Editing
    <2> QED BY <2>2, <2>3
  <1> QED BY <1>1, <1>2

\* What the steps of an edit do besides what they do to Docker.
Edit(r) ==
  \/ \E ports \in SUBSET HostPorts : LoadPorts(r, ports)
  \/ FindReplaced(r) \/ FindRefused(r) \/ CreateReplacement(r)
  \/ RemoveReplaced(r) \/ RemoveRefused(r) \/ DropReplacement(r)
  \/ Commit(r) \/ CommitConflict(r)
  \/ FailReplace(r) \/ LoseRemoval(r) \/ FailDrop(r) \/ FailCommit(r) \/ Abort(r)

\* Finishing is being done.
LEMMA FinishDone ==
  ASSUME req \in [Requests -> Request], NEW r \in Requests, Finish(r) PROVE req'[r].pc = "done"
  BY DEF Finish, Idle, NewRequest

\* An edit moves on, and leaves provisioning and the servers' status alone.
LEMMA EditFrame ==
  ASSUME TypeOK, Handlers, NEW r \in Requests, Edit(r)
  PROVE  /\ Editing(r) /\ Progress(r) /\ \A q \in Requests \ {r} : req'[q] = req[q]
         /\ job' = job /\ \A t \in Servers : row'[t].status = row[t].status
         /\ \A t \in Servers : odd[t] \subseteq odd'[t]
  <1>0. /\ req \in [Requests -> Request] /\ row \in [Servers -> Row]
        /\ odd \in [Servers -> SUBSET {"overlap", "deletion", "cut", "left", "lost"}]
    BY DEF TypeOK
  <1>1. job' = job
    BY DEF Edit, LoadPorts, FindReplaced, FindRefused, CreateReplacement, RemoveReplaced, RemoveRefused,
       DropReplacement, Commit, CommitConflict, FailReplace, LoseRemoval, FailDrop, FailCommit, Abort
  <1>2. \A q \in Requests \ {r} : req'[q] = req[q]
    BY OwnRequest DEF Edit, Handle, Disturb
  <1>3. \A t \in Servers : row'[t].status = row[t].status
    <2>1. CASE Commit(r)
      <3>1. Target(r) \in Servers BY <1>0 DEF Target, Request
      <3> DEFINE s == Target(r)
                 k == Stored(r, row[s].config)
                 v == NextVersion(s)
      <3>2. row' = [row EXCEPT ![s] = [@ EXCEPT !.config = k, !.version = v]] BY <2>1 DEF Commit
      <3> HIDE DEF s, k, v
      <3>3. row'[s] = [row[s] EXCEPT !.config = k, !.version = v] BY <1>0, <3>1, <3>2 DEF s
      <3>4. row'[s].status = row[s].status BY <1>0, <3>1, <3>3 DEF Row, s
      <3>5. \A t \in Servers \ {s} : row'[t] = row[t] BY <1>0, <3>2
      <3> QED BY <3>4, <3>5
    <2>2. CASE ~Commit(r)
      <3>1. row' = row
        BY <2>2 DEF Edit, LoadPorts, FindReplaced, FindRefused, CreateReplacement, RemoveReplaced, RemoveRefused,
           DropReplacement, CommitConflict, FailReplace, LoseRemoval, FailDrop, FailCommit, Abort
      <3> QED BY <3>1
    <2> QED BY <2>1, <2>2
  <1>4. \A t \in Servers : odd[t] \subseteq odd'[t]
    <2>1. ASSUME NEW t, NEW what, Mark(t, what) PROVE \A u \in Servers : odd[u] \subseteq odd'[u]
      BY <1>0, <2>1 DEF Mark
    <2> QED
      BY <1>0, <2>1 DEF Edit, LoadPorts, FindReplaced, FindRefused, CreateReplacement, RemoveReplaced, RemoveRefused,
         DropReplacement, Commit, CommitConflict, FailReplace, LoseRemoval, FailDrop, FailCommit, Abort, Refused
  <1>5. Editing(r)
    BY DEF Edit, LoadPorts, FindReplaced, FindRefused, CreateReplacement, RemoveReplaced, RemoveRefused,
       DropReplacement, Commit, CommitConflict, FailReplace, LoseRemoval, FailDrop, FailCommit, Abort, Editing, At
  <1>6. Progress(r)
    <2>1. ASSUME NEW pc, Goto(r, pc)
          PROVE  /\ req'[r].pc = pc /\ req'[r].server = req[r].server /\ req'[r].phase = req[r].phase
                 /\ req'[r].found = req[r].found
      BY <1>0, <2>1 DEF Goto, Request
    <2>2. ASSUME Finish(r) PROVE Progress(r) BY <1>0, <2>2, FinishDone DEF Progress
    <2>3. ASSUME RolledBack(r), At(r, "commit") PROVE Progress(r)
      <3>1. req'[r] = [req[r] EXCEPT !.pc = "find", !.phase = "undo"] BY <1>0, <2>3 DEF RolledBack
      <3>2. req'[r].pc = "find" /\ req'[r].phase = "undo" /\ req'[r].server = req[r].server
        BY <1>0, <3>1 DEF Request
      <3>3. req[r].pc = "commit" /\ req[r].phase = "apply" BY <2>3 DEF At, Handlers
      <3> QED BY <3>2, <3>3 DEF Progress
    <2>4. ASSUME NEW ports \in SUBSET HostPorts, LoadPorts(r, ports) PROVE Progress(r)
      <3> DEFINE k == [req[r].old EXCEPT !.definitions = row[Target(r)].config.definitions,
                                         !.ports = row[Target(r)].config.ports]
                 n == Edited(r, k, ports)
      <3>1. req' = [req EXCEPT ![r] = [@ EXCEPT !.pc = "find", !.old = k, !.new = n]] BY <2>4 DEF LoadPorts
      <3> HIDE DEF k, n
      <3>2. req'[r] = [req[r] EXCEPT !.pc = "find", !.old = k, !.new = n] BY <1>0, <3>1
      <3>3. req'[r].pc = "find" /\ req'[r].phase = req[r].phase /\ req'[r].server = req[r].server
        BY <1>0, <3>2 DEF Request
      <3> QED BY <2>4, <3>3 DEF LoadPorts, At, Progress
    <2>5. CASE FindReplaced(r)
      <3>1. PICK id : req' = [req EXCEPT ![r] = [@ EXCEPT !.pc = "create", !.found = id]]
        BY <2>5 DEF FindReplaced
      <3>2. req'[r] = [req[r] EXCEPT !.pc = "create", !.found = id] BY <1>0, <3>1
      <3>3. req'[r].pc = "create" /\ req'[r].phase = req[r].phase /\ req'[r].server = req[r].server
        BY <1>0, <3>2 DEF Request
      <3> QED BY <2>5, <3>3 DEF FindReplaced, At, Progress
    <2>6. CASE CreateReplacement(r) BY <2>1, <2>6 DEF CreateReplacement, At, Progress
    <2>7. CASE RemoveReplaced(r)
      <3>1. CASE Finish(r) BY <2>2, <3>1
      <3>2. CASE Goto(r, "commit") /\ req[r].phase = "apply" BY <2>1, <2>7, <3>2 DEF RemoveReplaced, At, Progress
      <3> QED BY <2>7, <3>1, <3>2 DEF RemoveReplaced
    <2>8. CASE RemoveRefused(r) \/ LoseRemoval(r) BY <2>1, <2>8 DEF RemoveRefused, LoseRemoval, At, Progress
    <2>9. CASE FailReplace(r) BY <2>1, <2>2, <2>9 DEF FailReplace, Refused, At, Progress
    <2>10. CASE FindRefused(r) \/ DropReplacement(r) \/ FailDrop(r) \/ Commit(r) \/ Abort(r)
      BY <2>2, <2>10 DEF FindRefused, DropReplacement, FailDrop, Commit, Abort, Refused
    <2>11. CASE CommitConflict(r) \/ FailCommit(r) BY <2>3, <2>11 DEF CommitConflict, FailCommit
    <2> QED BY <2>4, <2>5, <2>6, <2>7, <2>8, <2>9, <2>10, <2>11 DEF Edit
  <1> QED BY <1>1, <1>2, <1>3, <1>4, <1>5, <1>6

\* What an edit does to the containers: nothing, or one of four things.
EditDocker(r) ==
  LET s == Target(r)
  IN  /\ \A t \in Servers \ {s} : docker'[t].containers = docker[t].containers
      /\ \/ /\ docker'[s].containers = docker[s].containers
            /\ \/ req'[r].pc = "done"
               \/ req[r].pc \in {"ports", "commit"}
               \/ req'[r].pc = "drop"
               \/ /\ req[r].pc = "find"
                  /\ \E c \in docker[s].containers : docker[s].containers = {c} /\ req'[r].found = c.id
         \/ /\ req[r].pc = "create" /\ req'[r].pc = "remove"
            /\ docker'[s].containers = docker[s].containers \cup {Replacement(r)}
         \/ /\ req[r].pc = "remove" /\ req'[r].pc \in {"commit", "done"} /\ Removable(r)
            /\ docker'[s].containers = Without(s, req[r].found)
         \/ /\ req[r].pc = "remove" /\ req'[r].pc = "drop" /\ Removable(r) /\ "lost" \in odd'[s]
            /\ docker'[s].containers = Without(s, req[r].found)
         \/ /\ req[r].pc = "drop" /\ req'[r].pc = "done"
            /\ docker'[s].containers = Without(s, Own(r))

\* Every step of an edit is one of these.
LEMMA EditDockers ==
  ASSUME TypeOK, NEW r \in Requests, Edit(r)
  PROVE  EditDocker(r)
  <1>0. req \in [Requests -> Request] /\ docker \in [Servers -> Resources] BY DEF TypeOK
  <1>1. Target(r) \in Servers BY <1>0 DEF Target, Request
  <1>2. ASSUME NEW C, docker' = [docker EXCEPT ![Target(r)].containers = C]
        PROVE  /\ docker'[Target(r)].containers = C
               /\ \A t \in Servers \ {Target(r)} : docker'[t].containers = docker[t].containers
    BY <1>0, <1>1, <1>2 DEF Resources
  <1>3. ASSUME NEW pc, Goto(r, pc) PROVE req'[r].pc = pc BY <1>0, <1>3 DEF Goto, Request
  <1>4. Finish(r) => req'[r].pc = "done" BY <1>0, FinishDone
  <1>5. CASE CreateReplacement(r)
    <2> DEFINE C == docker[Target(r)].containers \cup {Replacement(r)}
               v == Mounted(docker[Target(r)].volume)
    <2>1. docker' = [docker EXCEPT ![Target(r)] = [@ EXCEPT !.containers = C, !.volume = v]]
      BY <1>5 DEF CreateReplacement
    <2> HIDE DEF C, v
    <2>2. docker'[Target(r)] = [docker[Target(r)] EXCEPT !.containers = C, !.volume = v] BY <1>0, <1>1, <2>1
    <2>3. docker'[Target(r)].containers = C BY <1>0, <1>1, <2>2 DEF Resources
    <2>4. \A t \in Servers \ {Target(r)} : docker'[t].containers = docker[t].containers BY <1>0, <2>1
    <2>5. req[r].pc = "create" /\ req'[r].pc = "remove" BY <1>3, <1>5 DEF CreateReplacement, At
    <2> QED BY <2>3, <2>4, <2>5 DEF EditDocker, C
  <1>6. CASE RemoveReplaced(r)
    <2>1. req[r].pc = "remove" /\ req'[r].pc \in {"commit", "done"} /\ Removable(r)
      BY <1>3, <1>4, <1>6 DEF RemoveReplaced, At
    <2>2. docker' = [docker EXCEPT ![Target(r)].containers = Without(Target(r), req[r].found)]
      BY <1>6 DEF RemoveReplaced
    <2> QED BY <1>2, <2>1, <2>2 DEF EditDocker
  <1>7. CASE LoseRemoval(r)
    <2>1. req[r].pc = "remove" /\ req'[r].pc = "drop" /\ Removable(r) BY <1>3, <1>7 DEF LoseRemoval, At
    <2>2. docker' = [docker EXCEPT ![Target(r)].containers = Without(Target(r), req[r].found)]
      BY <1>7 DEF LoseRemoval
    <2>3. "lost" \in odd'[Target(r)] BY <1>1, <1>7 DEF LoseRemoval, Mark, TypeOK
    <2> QED BY <1>2, <2>1, <2>2, <2>3 DEF EditDocker
  <1>8. CASE DropReplacement(r)
    <2>1. req[r].pc = "drop" /\ req'[r].pc = "done" BY <1>4, <1>8 DEF DropReplacement, Refused, At
    <2>2. docker' = [docker EXCEPT ![Target(r)].containers = Without(Target(r), Own(r))]
      BY <1>8 DEF DropReplacement, Own
    <2> QED BY <1>2, <2>1, <2>2 DEF EditDocker
  <1>9. CASE ~FindReplaced(r) /\ ~CreateReplacement(r) /\ ~RemoveReplaced(r) /\ ~LoseRemoval(r) /\ ~DropReplacement(r)
    <2>1. docker' = docker /\ (req'[r].pc = "done" \/ req[r].pc \in {"ports", "commit"} \/ req'[r].pc = "drop")
      BY <1>3, <1>4, <1>9
      DEF Edit, LoadPorts, FindRefused, RemoveRefused, Commit, CommitConflict, FailReplace, FailDrop, FailCommit,
          Abort, Refused, At
    <2> QED BY <2>1 DEF EditDocker
  <1>10. CASE FindReplaced(r)
    <2>1. PICK c \in ManagedServer(Target(r)) : req' = [req EXCEPT ![r] = [@ EXCEPT !.pc = "create", !.found = c.id]]
      BY <1>10 DEF FindReplaced
    <2>2. req'[r] = [req[r] EXCEPT !.pc = "create", !.found = c.id] BY <1>0, <2>1
    <2>3. req'[r].found = c.id BY <1>0, <2>2 DEF Request
    <2>4. c \in docker[Target(r)].containers /\ docker[Target(r)].containers = {c} BY DEF ManagedServer
    <2>5. docker' = docker /\ req[r].pc = "find" BY <1>10 DEF FindReplaced, At
    <2> QED BY <2>3, <2>4, <2>5 DEF EditDocker
  <1> QED BY <1>5, <1>6, <1>7, <1>8, <1>9, <1>10

\* Handlers of edits keep the invariant: what they remove is settled or their own.
LEMMA EditKeeps ==
  ASSUME KeepInv, NEW r \in Requests, Edit(r)
  PROVE  KeepInv'
  <1> DEFINE s == Target(r)
  <1>0. TypeOK /\ Handlers /\ Names /\ Pending /\ Anchored /\ Provisioned BY DEF KeepInv
  <1>1. TypeOK' BY <1>0, EditTyped DEF Edit
  <1>2. /\ Editing(r) /\ Progress(r) /\ \A q \in Requests \ {r} : req'[q] = req[q]
        /\ job' = job /\ \A t \in Servers : row'[t].status = row[t].status
        /\ \A t \in Servers : odd[t] \subseteq odd'[t]
    BY <1>0, EditFrame
  <1>3. EditDocker(r) BY <1>0, EditDockers
  <1>4. /\ \A t, p : \A q \in Requests : Named(t, q, p) => Named(t, q, p)'
        /\ \A id : Settled(id) => Settled(id)'
    BY <1>2, ProgressKeeps
  <1>5. s \in Servers /\ \A q \in Requests : Target(q) \in Servers /\ req[q].phase \in Phases
    BY <1>0 DEF TypeOK, Request, Target, Phases
  <1>6. \A t \in Servers : Whole(t)' => Whole(t) BY <1>2 DEF Whole, Marks
  <1>7. job[s].pc \in {"done", "gaveUp"} BY <1>0, <1>2 DEF Handlers
  <1>8. \A t \in Servers : t # s => docker'[t].containers = docker[t].containers BY <1>3 DEF EditDocker
  <1>9. Target(r)' = s \/ req'[r].pc = "done" BY <1>2 DEF Progress, Target
  <1>10. \A q \in Requests \ {r} : Target(q)' = Target(q) /\ Own(q)' = Own(q) BY <1>2 DEF Target, Own
  <1>11. Handlers'
    <2> SUFFICES ASSUME NEW q \in Requests
                 PROVE  /\ Editing(q)' => job'[Target(q)'].pc \in {"done", "gaveUp"}
                        /\ Deleting(q)' => "deletion" \in odd'[Target(q)'] /\ job'[Target(q)'].pc # "none"
                        /\ req'[q].pc \in {"idle", "ports", "commit"} => req'[q].phase = "apply"
      BY DEF Handlers
    <2>1. CASE q # r BY <1>0, <1>2, <1>5, <1>10, <2>1 DEF Handlers, Editing, Deleting
    <2>2. CASE q = r BY <1>2, <1>7, <1>9, <2>2 DEF Progress, Editing, Deleting
    <2> QED BY <2>1, <2>2
  <1>12. Provisioned'
    <2>1. \A t \in Servers : docker'[t].containers # docker[t].containers => job[t].pc \in {"done", "gaveUp"}
      BY <1>7, <1>8
    <2> QED BY <1>0, <1>2, <1>6, <2>1 DEF Provisioned
  <1>13. \A t \in Servers : \A c \in docker'[t].containers :
            c \in docker[t].containers \/ (t = s /\ c = Replacement(r) /\ req[r].pc = "create" /\ req'[r].pc = "remove")
    BY <1>3, <1>8 DEF EditDocker, Without
  <1>14. /\ Replacement(r).id = Own(r) /\ Replacement(r).running = FALSE
    BY DEF Replacement, Own
  <1>15. req[r].pc = "create" => \A c \in docker[s].containers : c.id # Own(r)
    BY <1>0, <1>5 DEF Names, Named, Own
  <1>16. Names'
    <2>1. ASSUME NEW t \in Servers, NEW c \in docker'[t].containers, NEW d \in docker'[t].containers, c.id = d.id
          PROVE  c = d
      BY <1>0, <1>13, <1>14, <1>15, <2>1 DEF Names
    <2>2. ASSUME NEW t \in Servers, NEW c \in docker'[t].containers, NEW q \in Requests, NEW p \in Phases, c.id = <<q, p>>
          PROVE  Named(t, q, p)'
      <3>1. CASE c \in docker[t].containers BY <1>0, <1>4, <2>2, <3>1 DEF Names
      <3>2. CASE t = s /\ c = Replacement(r) /\ req[r].pc = "create" /\ req'[r].pc = "remove"
        <4>1. q = r /\ p = req[r].phase BY <1>14, <2>2, <3>2, OwnNames DEF Own
        <4>2. req'[r].phase = req[r].phase BY <1>2, <3>2 DEF Progress
        <4> QED BY <1>9, <3>2, <4>1, <4>2 DEF Named
      <3> QED BY <1>13, <3>1, <3>2
    <2> QED BY <2>1, <2>2 DEF Names
  <1>17. Anchored'
    <2> SUFFICES ASSUME NEW t \in Servers, Whole(t)', job'[t].pc = "done" \/ Replacing(t)'
                 PROVE  \E c \in docker'[t].containers : Settled(c.id)'
      BY DEF Anchored
    <2>1. Whole(t) BY <1>6
    <2>2. ASSUME NEW c \in docker[t].containers, Settled(c.id), c \in docker'[t].containers
          PROVE  \E d \in docker'[t].containers : Settled(d.id)'
      BY <1>4, <2>2
    <2>3. CASE t # s
      <3>1. Replacing(t)' => Replacing(t) BY <1>2, <1>9, <1>10, <2>3 DEF Replacing
      <3>2. PICK c \in docker[t].containers : Settled(c.id) BY <1>0, <1>2, <2>1, <3>1 DEF Anchored
      <3> QED BY <1>8, <2>2, <2>3, <3>2
    <2>4. CASE t = s
      <3>1. ASSUME Replacing(t)', ~Replacing(t) PROVE req[r].pc = "find" /\ req'[r].pc = "create"
        <4>1. req'[r].pc \in {"create", "remove", "drop"} BY <1>2, <1>10, <3>1 DEF Replacing
        <4>2. req[r].pc \notin {"create", "remove", "drop"} BY <2>4, <3>1 DEF Replacing
        <4> QED BY <1>2, <4>1, <4>2 DEF Progress
      <3>2. CASE docker'[s].containers = docker[s].containers
        <4>1. CASE job[s].pc = "done" \/ Replacing(s)
          <5>1. PICK c \in docker[t].containers : Settled(c.id) BY <1>0, <2>1, <2>4, <4>1 DEF Anchored
          <5> QED BY <2>2, <2>4, <3>2, <5>1
        <4>2. CASE ~(job[s].pc = "done" \/ Replacing(s))
          <5>1. req[r].pc = "find" /\ req'[r].pc = "create" BY <1>2, <2>4, <3>1, <4>2
          <5>2. PICK c \in docker[s].containers : docker[s].containers = {c} BY <1>3, <5>1 DEF EditDocker
          <5>3. Settled(c.id) BY <1>5, <2>1, <2>4, <5>2, SoleSettled
          <5> QED BY <2>2, <2>4, <3>2, <5>3
        <4> QED BY <4>1, <4>2
      <3>3. CASE docker'[s].containers # docker[s].containers
        <4>1. req[r].pc \in {"create", "remove", "drop"} BY <1>3, <3>3 DEF EditDocker
        <4>2. PICK c \in docker[s].containers : Settled(c.id) BY <1>0, <1>5, <2>1, <2>4, <4>1 DEF Anchored, Replacing
        <4>3. CASE req[r].pc = "create"
          <5>1. docker'[s].containers = docker[s].containers \cup {Replacement(r)} BY <1>2, <1>3, <3>3, <4>3 DEF EditDocker
          <5> QED BY <2>2, <2>4, <4>2, <5>1
        <4>4. CASE req[r].pc = "drop"
          <5>1. docker'[s].containers = Without(s, Own(r)) BY <1>3, <3>3, <4>4 DEF EditDocker
          <5>2. c.id # Own(r) BY <1>0, <4>2, <4>4, OwnUnsettled
          <5> QED BY <2>2, <2>4, <4>2, <5>1, <5>2 DEF Without
        <4>5. CASE req[r].pc = "remove"
          <5>1. "lost" \notin odd'[s] BY <2>4 DEF Whole, Marks
          <5>2. docker'[s].containers = Without(s, req[r].found) /\ req'[r].pc \in {"commit", "done"}
            BY <1>3, <3>3, <4>5, <5>1 DEF EditDocker
          <5>3. Settled(req[r].found) BY <1>0, <2>1, <2>4, <4>5 DEF Pending
          <5>4. Own(r) # req[r].found BY <1>0, <4>5, <5>3, OwnUnsettled
          <5>5. PICK d \in docker[s].containers : d.id = Own(r) BY <1>0, <2>1, <2>4, <4>5 DEF Pending
          <5>6. d \in docker'[s].containers BY <5>2, <5>4, <5>5 DEF Without
          <5>7. Settled(d.id)'
            <6>1. req'[r].pc = "done" \/ (req'[r].pc = "commit" /\ req'[r].phase = req[r].phase)
              BY <1>2, <4>5, <5>2 DEF Progress
            <6>2. \A q, p : d.id = <<q, p>> => q = r /\ p = req[r].phase BY <5>5, OwnNames DEF Own
            <6> QED BY <6>1, <6>2 DEF Settled
          <5> QED BY <2>4, <5>6, <5>7
        <4> QED BY <4>1, <4>3, <4>4, <4>5
      <3> QED BY <3>2, <3>3
    <2> QED BY <2>3, <2>4
  <1>18. Pending'
    <2> SUFFICES ASSUME NEW q \in Requests, Whole(Target(q))'
                 PROVE  /\ req'[q].pc \in {"create", "remove"} => Settled(req[q].found)'
                        /\ req'[q].pc = "remove" => \E c \in docker'[Target(q)'].containers : c.id = Own(q)'
                        /\ req'[q].pc \in {"remove", "drop"} =>
                             \A c \in docker'[Target(q)'].containers : c.id = Own(q)' => c.running = FALSE
      BY DEF Pending
    <2>1. CASE q # r
      <3>1. req'[q] = req[q] /\ Target(q)' = Target(q) /\ Own(q)' = Own(q) /\ Whole(Target(q))
        BY <1>2, <1>5, <1>6, <1>10, <2>1 DEF Whole, Marks
      <3>2. \A id : id = req[q].found /\ req[q].pc \in {"create", "remove"} => Settled(id)'
        BY <1>0, <1>4, <3>1 DEF Pending
      <3>3. Own(q) # Own(r) BY <2>1, OwnNames DEF Own
      <3>4. ASSUME req[q].pc = "remove" PROVE \E c \in docker'[Target(q)].containers : c.id = Own(q)
        <4>1. PICK c \in docker[Target(q)].containers : c.id = Own(q) BY <1>0, <3>1, <3>4 DEF Pending
        <4>2. ~Settled(Own(q)) BY <1>0, <3>4, OwnUnsettled
        <4>3. Target(q) = s /\ req[r].pc = "remove" => Own(q) # req[r].found BY <1>0, <3>1, <4>2 DEF Pending
        <4>4. c \in docker'[Target(q)].containers
          <5>1. CASE Target(q) # s BY <1>5, <1>8, <4>1, <5>1
          <5>2. CASE Target(q) = s
            <6>1. c.id # Own(r) /\ (req[r].pc = "remove" => c.id # req[r].found) BY <3>3, <4>1, <4>3, <5>2
            <6>2. \/ docker'[s].containers = docker[s].containers
                  \/ docker'[s].containers = docker[s].containers \cup {Replacement(r)}
                  \/ req[r].pc = "remove" /\ docker'[s].containers = Without(s, req[r].found)
                  \/ docker'[s].containers = Without(s, Own(r))
              BY <1>3 DEF EditDocker
            <6> QED BY <4>1, <5>2, <6>1, <6>2 DEF Without
          <5> QED BY <5>1, <5>2
        <4> QED BY <4>1, <4>4
      <3>5. ASSUME req[q].pc \in {"remove", "drop"}, NEW c \in docker'[Target(q)].containers, c.id = Own(q)
            PROVE  c.running = FALSE
        <4>1. c \in docker[Target(q)].containers BY <1>5, <1>13, <1>14, <3>3, <3>5
        <4> QED BY <1>0, <3>1, <3>5, <4>1 DEF Pending
      <3>6. req'[q].pc \in {"create", "remove"} => Settled(req[q].found)' BY <3>1, <3>2 DEF Settled
      <3> QED BY <3>1, <3>4, <3>5, <3>6
    <2>2. CASE q = r
      <3> SUFFICES ASSUME req'[r].pc \in {"create", "remove", "drop"}
                   PROVE  /\ req'[r].pc \in {"create", "remove"} => Settled(req[r].found)'
                          /\ req'[r].pc = "remove" => \E c \in docker'[Target(r)'].containers : c.id = Own(r)'
                          /\ req'[r].pc \in {"remove", "drop"} =>
                               \A c \in docker'[Target(r)'].containers : c.id = Own(r)' => c.running = FALSE
        BY <2>2
      <3>1. Target(r)' = s /\ Own(r)' = Own(r) /\ Whole(s)
        BY <1>2, <1>5, <1>6, <1>9, <2>2 DEF Progress, Own, Whole
      <3>2. CASE req'[r].pc = "create"
        <4>1. req[r].pc = "find" BY <1>2, <3>2 DEF Progress
        <4>2. PICK c \in docker[s].containers : docker[s].containers = {c} /\ req'[r].found = c.id
          BY <1>3, <3>2, <4>1 DEF EditDocker
        <4>3. Settled(c.id)' BY <1>4, <1>5, <3>1, <4>2, SoleSettled
        <4> QED BY <3>2, <4>2, <4>3 DEF Settled
      <3>3. CASE req'[r].pc = "remove"
        <4>1. req[r].pc = "create" /\ req'[r].found = req[r].found BY <1>2, <3>3 DEF Progress
        <4>2. docker'[s].containers = docker[s].containers \cup {Replacement(r)} BY <1>3, <3>3, <4>1 DEF EditDocker
        <4>3. \A id : id = req[r].found => Settled(id)' BY <1>0, <1>4, <3>1, <4>1 DEF Pending
        <4>4. \A c \in docker'[s].containers : c.id = Own(r) => c.running = FALSE BY <1>14, <1>15, <4>1, <4>2
        <4>5. Settled(req[r].found)' BY <4>1, <4>3 DEF Settled
        <4> QED BY <1>14, <3>1, <3>3, <4>2, <4>4, <4>5
      <3>4. CASE req'[r].pc = "drop"
        <4>1. req[r].pc = "remove" BY <1>2, <3>4 DEF Progress
        <4>2. \A c \in docker[s].containers : c.id = Own(r) => c.running = FALSE BY <1>0, <3>1, <4>1 DEF Pending
        <4>3. docker'[s].containers \subseteq docker[s].containers BY <1>3, <3>4, <4>1 DEF EditDocker, Without
        <4> QED BY <3>1, <3>4, <4>2, <4>3
      <3> QED BY <3>2, <3>3, <3>4
    <2> QED BY <2>1, <2>2
  <1> QED BY <1>1, <1>11, <1>12, <1>16, <1>17, <1>18 DEF KeepInv

-----------------------------------------------------------------------------
(* The steps of creation and provisioning, as far as containers are        *)
(* concerned.                                                              *)

\* A container with its running flag set.
Started(c) == [c EXCEPT !.running = TRUE]

ProvisionShape(s) ==
  /\ req' = req /\ job[s].pc \notin {"done", "gaveUp"}
  /\ \A t \in Servers \ {s} : docker'[t] = docker[t] /\ job'[t] = job[t] /\ row'[t] = row[t]
  /\ \A t \in Servers : Marks(t)' = Marks(t)
  /\ \/ /\ job'[s].pc \in {"queued", "find", "volume", "network", "installer", "wait", "owner", "create", "error"}
        /\ row'[s].status = "installing" \/ (job[s].pc # "none" /\ row'[s].status = row[s].status)
        /\ docker'[s].containers \subseteq docker[s].containers
        /\ job[s].pc # "start" => docker'[s].containers = docker[s].containers
     \/ /\ job[s].pc = "create" /\ job'[s].pc = "start" /\ row'[s].status = row[s].status
        /\ docker[s].containers = {}
        /\ docker'[s].containers = {[id |-> s, config |-> job[s].config, running |-> FALSE]}
     \/ /\ job[s].pc \in {"find", "start"} /\ job'[s].pc = "ok" /\ row'[s].status = row[s].status
        /\ \/ docker'[s].containers = docker[s].containers /\ (job[s].pc = "start" \/ docker[s].containers # {})
           \/ \E c \in docker[s].containers :
                docker'[s].containers = (docker[s].containers \ {c}) \cup {Started(c)}
     \/ /\ job[s].pc = "ok" /\ job'[s].pc = "done" /\ row'[s].status \in {"stopped", "running"}
        /\ docker'[s].containers = docker[s].containers
     \/ /\ job[s].pc = "error" /\ job'[s].pc = "gaveUp" /\ row'[s].status = "failed"
        /\ docker'[s].containers = docker[s].containers

\* A mark that is neither a deletion nor a lost removal leaves the marks that count.
LEMMA MarkKept ==
  ASSUME TypeOK, NEW s \in Servers, NEW what \in SUBSET {"overlap", "cut", "left"}, Mark(s, what)
  PROVE  \A t \in Servers : Marks(t)' = Marks(t)
  <1>1. odd \in [Servers -> SUBSET {"overlap", "deletion", "cut", "left", "lost"}] BY DEF TypeOK
  <1>2. \A t \in Servers : odd'[t] = odd[t] \/ odd'[t] = odd[t] \cup what BY <1>1 DEF Mark
  <1>3. \A t \in Servers : odd'[t] \cap {"deletion", "lost"} = odd[t] \cap {"deletion", "lost"} BY <1>2
  <1> QED BY <1>3 DEF Marks

\* A mark is on its own server.
LEMMA MarkOwn ==
  ASSUME TypeOK, NEW s \in Servers, NEW what, Mark(s, what)
  PROVE  odd'[s] = odd[s] \cup what /\ \A t \in Servers \ {s} : odd'[t] = odd[t]
  BY DEF TypeOK, Mark

\* A fault of provisioning leaves the handlers, the rows and the other servers, moves the
\* call on to where it goes without the fault, and marks the server.  Of the server's
\* containers it removes at most the one that could not be started, and the volume only
\* when no container is left.
LEMMA FaultDoes ==
  ASSUME TypeOK, NEW s \in Servers, ProvisionFault(s)
  PROVE  /\ row' = row
         /\ job[s].pc \in {"find", "volume", "network", "installer", "wait", "owner", "create", "start", "ok"}
         /\ job'[s].pc \in {"owner", "create", "error", "queued"} /\ job'[s].config = job[s].config
         /\ \A t \in Servers \ {s} : docker'[t] = docker[t] /\ job'[t] = job[t] /\ odd'[t] = odd[t]
         /\ odd[s] \subseteq odd'[s] /\ odd'[s] # {}
         /\ \A t \in Servers : Marks(t)' = Marks(t)
         /\ docker'[s].containers \subseteq docker[s].containers
         /\ job[s].pc # "start" => docker'[s].containers = docker[s].containers
         /\ docker'[s].containers # {} /\ docker[s].volume # "none" => docker'[s].volume # "none"
  <1>0. job \in [Servers -> Job] /\ docker \in [Servers -> Resources] BY DEF TypeOK
  <1>1. PICK what \in SUBSET {"overlap", "cut", "left"} : what # {} /\ Mark(s, what)
    BY DEF ProvisionFault, LeaveInstaller, LeaveInitializer, FailCleanup, LoseAnswer
  <1>2. /\ odd[s] \subseteq odd'[s] /\ odd'[s] # {} /\ \A t \in Servers \ {s} : odd'[t] = odd[t]
        /\ \A t \in Servers : Marks(t)' = Marks(t)
    BY <1>1, MarkOwn, MarkKept
  <1>3. /\ row' = row
        /\ job[s].pc \in {"find", "volume", "network", "installer", "wait", "owner", "create", "start", "ok"}
    BY DEF ProvisionFault, LeaveInstaller, LeaveInitializer, FailCleanup, LoseAnswer, Provisioning
  <1>4. PICK pc \in {"owner", "create", "error", "queued"} : job' = [job EXCEPT ![s].pc = pc]
    BY DEF ProvisionFault, LeaveInstaller, LeaveInitializer, FailCleanup, LoseAnswer
  <1>5. job'[s].pc = pc /\ job'[s].config = job[s].config /\ \A t \in Servers \ {s} : job'[t] = job[t]
    BY <1>0, <1>4 DEF Job
  <1>6. /\ \A t \in Servers \ {s} : docker'[t] = docker[t]
        /\ docker'[s].containers \subseteq docker[s].containers
        /\ job[s].pc # "start" => docker'[s].containers = docker[s].containers
        /\ docker'[s].containers # {} /\ docker[s].volume # "none" => docker'[s].volume # "none"
    <2>1. CASE LoseAnswer(s) BY <2>1 DEF LoseAnswer
    <2>2. CASE LeaveInstaller(s)
      <3>1. docker' = [docker EXCEPT ![s].volume = "installed"] BY <2>2 DEF LeaveInstaller
      <3> QED BY <1>0, <3>1 DEF Resources
    <2>3. CASE LeaveInitializer(s)
      <3> DEFINE h == docker[s].helper \cup {"initializer"}
                 v == Mounted(docker[s].volume)
      <3>1. docker' = [docker EXCEPT ![s] = [@ EXCEPT !.helper = h, !.volume = v]] BY <2>3 DEF LeaveInitializer
      <3>2. v # "none" BY DEF Mounted
      <3> HIDE DEF h, v
      <3>3. docker'[s] = [docker[s] EXCEPT !.helper = h, !.volume = v] BY <1>0, <3>1
      <3>4. docker'[s].containers = docker[s].containers /\ docker'[s].volume = v BY <1>0, <3>3 DEF Resources
      <3> QED BY <1>0, <3>1, <3>2, <3>4
    <2>4. CASE FailCleanup(s)
      <3>1. PICK left \in CleanedPartly(s) : docker' = [docker EXCEPT ![s] = left] BY <2>4 DEF FailCleanup
      <3>2. docker'[s] = left /\ \A t \in Servers \ {s} : docker'[t] = docker[t] BY <1>0, <3>1
      <3>3. /\ left.containers \in {docker[s].containers, Cleaned(s).containers}
            /\ left.volume = docker[s].volume \/ left.containers = {}
        BY <3>1 DEF CleanedPartly
      <3>4. Cleaned(s).containers = {c \in docker[s].containers : ~(c.id = s /\ job[s].pc = "start")}
        BY DEF Cleaned, CleanedAfter
      <3>5. Cleaned(s).containers \subseteq docker[s].containers BY <3>4
      <3>6. job[s].pc # "start" => Cleaned(s).containers = docker[s].containers BY <3>4
      <3> QED BY <3>2, <3>3, <3>5, <3>6
    <2> QED BY <2>1, <2>2, <2>3, <2>4 DEF ProvisionFault
  <1> QED BY <1>2, <1>3, <1>5, <1>6

\* Every step of creation and provisioning has that shape.
LEMMA ProvisionShapes ==
  ASSUME KeepInv, NEW s \in Servers,
         (\E start \in BOOLEAN : CreateServer(s, start)) \/ Provision(s) \/ ProvisionFault(s)
  PROVE  ProvisionShape(s)
  <1>0. /\ TypeOK /\ row \in [Servers -> Row] /\ job \in [Servers -> Job] /\ docker \in [Servers -> Resources]
    BY DEF KeepInv, TypeOK
  <1>r. req' = req BY RequestsKept
  <1>j. ASSUME NEW pc, job' = [job EXCEPT ![s].pc = pc]
        PROVE  job'[s].pc = pc /\ \A t \in Servers \ {s} : job'[t] = job[t]
    BY <1>0, <1>j DEF Job
  <1>o. UNCHANGED odd => \A t \in Servers : Marks(t)' = Marks(t) BY DEF Marks
  <1>1. ASSUME NEW start \in BOOLEAN, CreateServer(s, start) PROVE ProvisionShape(s)
    <2>1. PICK ports \in Allocation(HostPorts \ AllocatedPorts) :
             row' = [row EXCEPT ![s] = [@ EXCEPT !.status = "installing", !.start = start,
                                                 !.config = TemplateConfig(ports)]]
      BY <1>1 DEF CreateServer
    <2> DEFINE k == TemplateConfig(ports)
    <2>2. row' = [row EXCEPT ![s] = [@ EXCEPT !.status = "installing", !.start = start, !.config = k]] BY <2>1
    <2> HIDE DEF k
    <2>3. row'[s] = [row[s] EXCEPT !.status = "installing", !.start = start, !.config = k] BY <1>0, <2>2
    <2>4. row'[s].status = "installing" BY <1>0, <2>3 DEF Row
    <2>5. \A t \in Servers \ {s} : row'[t] = row[t] BY <1>0, <2>2
    <2>6. job' = [job EXCEPT ![s].pc = "queued"] /\ docker' = docker /\ UNCHANGED odd BY <1>1 DEF CreateServer
    <2>7. job[s].pc = "none" BY <1>1 DEF CreateServer, KeepInv, Provisioned
    <2> QED BY <1>j, <1>o, <1>r, <2>4, <2>5, <2>6, <2>7 DEF ProvisionShape
  <1>2. ASSUME NEW from, NEW to, ProvisionStep(s, from, to)
        PROVE  /\ job[s].pc = from /\ job'[s].pc = to /\ row' = row
               /\ \A t \in Servers \ {s} : job'[t] = job[t]
               /\ \A t \in Servers : Marks(t)' = Marks(t)
    BY <1>2, <1>j, <1>o DEF ProvisionStep, Provisioning
  <1>3. ASSUME job[s].pc \notin {"none", "done", "gaveUp", "start"}, row' = row,
               job'[s].pc \in {"queued", "find", "volume", "network", "installer", "wait", "owner", "create", "error"},
               \A t \in Servers \ {s} : job'[t] = job[t], \A t \in Servers \ {s} : docker'[t] = docker[t],
               \A t \in Servers : Marks(t)' = Marks(t), docker'[s].containers = docker[s].containers
        PROVE  ProvisionShape(s)
    BY <1>3, <1>r DEF ProvisionShape
  <1>4. CASE ClaimProvision(s)
    <2> DEFINE a == job[s].attempts + 1
               k == row[s].config
               b == row[s].start
    <2>1. job' = [job EXCEPT ![s] = [@ EXCEPT !.pc = "find", !.attempts = a, !.config = k, !.start = b]]
      BY <1>4 DEF ClaimProvision
    <2> HIDE DEF a, k, b
    <2>2. job'[s] = [job[s] EXCEPT !.pc = "find", !.attempts = a, !.config = k, !.start = b] BY <1>0, <2>1
    <2>3. job'[s].pc = "find" BY <1>0, <2>2 DEF Job
    <2>4. \A t \in Servers \ {s} : job'[t] = job[t] BY <1>0, <2>1
    <2>5. \A t \in Servers : Marks(t)' = Marks(t) BY <1>0, <1>4, MarkKept DEF ClaimProvision
    <2>6. job[s].pc = "queued" /\ row' = row /\ docker' = docker BY <1>4 DEF ClaimProvision
    <2> QED BY <1>3, <2>3, <2>4, <2>5, <2>6
  <1>5. CASE FindUnprovisioned(s) BY <1>2, <1>3, <1>5 DEF FindUnprovisioned
  <1>6. ASSUME NEW x, docker' = [docker EXCEPT ![s] = x], x.containers = docker[s].containers
        PROVE  docker'[s].containers = docker[s].containers /\ \A t \in Servers \ {s} : docker'[t] = docker[t]
    BY <1>0, <1>6
  <1>7. /\ \A v : [docker[s] EXCEPT !.volume = v].containers = docker[s].containers
        /\ \A v : [docker[s] EXCEPT !.network = v].containers = docker[s].containers
        /\ \A v, w : [docker[s] EXCEPT !.helper = v, !.volume = w].containers = docker[s].containers
    BY <1>0 DEF Resources
  <1>8. CASE CreateVolume(s)
    <2> DEFINE v == IF docker[s].volume = "none" THEN "empty" ELSE docker[s].volume
    <2>1. docker' = [docker EXCEPT ![s] = [docker[s] EXCEPT !.volume = v]] BY <1>0, <1>8 DEF CreateVolume
    <2>2. ProvisionStep(s, "volume", "network") BY <1>8 DEF CreateVolume
    <2> HIDE DEF v
    <2> QED BY <1>2, <1>3, <1>6, <1>7, <2>1, <2>2
  <1>9. CASE CreateNetwork(s)
    <2>1. docker' = [docker EXCEPT ![s] = [docker[s] EXCEPT !.network = TRUE]] BY <1>0, <1>9 DEF CreateNetwork
    <2>2. ProvisionStep(s, "network", "installer") BY <1>9 DEF CreateNetwork
    <2> QED BY <1>2, <1>3, <1>6, <1>7, <2>1, <2>2
  <1>10. CASE StartInstaller(s)
    <2> DEFINE v == Mounted(docker[s].volume)
    <2>1. docker' = [docker EXCEPT ![s] = [docker[s] EXCEPT !.helper = docker[s].helper \cup {"installer"}, !.volume = v]]
      BY <1>0, <1>10 DEF StartInstaller
    <2>2. ProvisionStep(s, "installer", "wait") BY <1>10 DEF StartInstaller
    <2> HIDE DEF v
    <2> QED BY <1>2, <1>3, <1>6, <1>7, <2>1, <2>2
  <1>11. CASE SkipInstaller(s)
    <2> DEFINE v == IF docker[s].volume = "none" THEN docker[s].volume ELSE "installed"
    <2>1. docker' = [docker EXCEPT ![s] = [docker[s] EXCEPT !.volume = v]] BY <1>0, <1>11 DEF SkipInstaller
    <2>2. ProvisionStep(s, "installer", "owner") BY <1>11 DEF SkipInstaller
    <2> HIDE DEF v
    <2> QED BY <1>2, <1>3, <1>6, <1>7, <2>1, <2>2
  <1>12. CASE FinishInstaller(s)
    <2>1. docker' = [docker EXCEPT ![s] = [docker[s] EXCEPT !.helper = docker[s].helper \ {"installer"}, !.volume = "installed"]]
      BY <1>0, <1>12 DEF FinishInstaller
    <2>2. ProvisionStep(s, "wait", "owner") BY <1>12 DEF FinishInstaller
    <2> QED BY <1>2, <1>3, <1>6, <1>7, <2>1, <2>2
  <1>13. CASE InitializeOwnership(s)
    <2> DEFINE v == Mounted(docker[s].volume)
    <2>1. docker' = [docker EXCEPT ![s] = [docker[s] EXCEPT !.volume = v]] BY <1>0, <1>13 DEF InitializeOwnership
    <2>2. ProvisionStep(s, "owner", "create") BY <1>13 DEF InitializeOwnership
    <2> HIDE DEF v
    <2> QED BY <1>2, <1>3, <1>6, <1>7, <2>1, <2>2
  <1>14. CASE CreateRuntime(s)
    <2> DEFINE v == Mounted(docker[s].volume)
               C == {[id |-> s, config |-> job[s].config, running |-> FALSE]}
    <2>1. docker' = [docker EXCEPT ![s] = [docker[s] EXCEPT !.containers = C, !.volume = v]]
      BY <1>0, <1>14 DEF CreateRuntime
    <2>2. ProvisionStep(s, "create", "start") /\ docker[s].containers = {} BY <1>14 DEF CreateRuntime
    <2> HIDE DEF v, C
    <2>3. docker'[s] = [docker[s] EXCEPT !.containers = C, !.volume = v] BY <1>0, <2>1
    <2>4. docker'[s].containers = C BY <1>0, <2>3 DEF Resources
    <2>5. \A t \in Servers \ {s} : docker'[t] = docker[t] BY <1>0, <2>1
    <2> QED BY <1>2, <1>r, <2>2, <2>4, <2>5 DEF ProvisionShape, C
  <1>15. ASSUME NEW state, Answers(s, state)
         PROVE  job'[s].pc = "ok" /\ \A t \in Servers \ {s} : job'[t] = job[t]
    <2>1. job'[s] = [job[s] EXCEPT !.pc = "ok", !.state = state] BY <1>0, <1>15 DEF Answers
    <2>2. job'[s].pc = "ok" BY <1>0, <2>1 DEF Job
    <2> QED BY <1>0, <1>15, <2>2 DEF Answers
  <1>16. CASE FindProvisioned(s)
    <2>1. PICK c \in ManagedServer(s) : Answers(s, IF c.running THEN "running" ELSE "stopped")
      BY <1>16 DEF FindProvisioned
    <2>2. docker[s].containers # {} BY DEF ManagedServer
    <2>3. job[s].pc = "find" /\ row' = row /\ docker' = docker /\ UNCHANGED odd
      BY <1>16 DEF FindProvisioned, Provisioning
    <2> QED BY <1>15, <1>o, <1>r, <2>1, <2>2, <2>3 DEF ProvisionShape
  <1>17. CASE StartRuntime(s)
    <2>1. /\ job[s].pc = "start" /\ row' = row /\ UNCHANGED odd
          /\ job'[s].pc = "ok" /\ \A t \in Servers \ {s} : job'[t] = job[t]
      BY <1>15, <1>17 DEF StartRuntime, Provisioning
    <2>2. CASE docker' = docker BY <1>o, <1>r, <2>1, <2>2 DEF ProvisionShape
    <2>3. ASSUME NEW c \in docker[s].containers, docker' = Runs(s, c) PROVE ProvisionShape(s)
      <3> DEFINE C == (docker[s].containers \ {c}) \cup {Started(c)}
      <3>1. docker' = [docker EXCEPT ![s].containers = C] BY <2>3 DEF Runs, Started
      <3> HIDE DEF C
      <3>2. docker'[s].containers = C BY <1>0, <3>1 DEF Resources
      <3>3. \A t \in Servers \ {s} : docker'[t] = docker[t] BY <1>0, <3>1
      <3> QED BY <1>o, <1>r, <2>1, <2>3, <3>2, <3>3 DEF ProvisionShape, C
    <2> QED BY <1>17, <2>2, <2>3 DEF StartRuntime
  <1>18. CASE FailProvision(s)
    <2>1. /\ job[s].pc \in {"find", "volume", "network", "installer", "wait", "owner", "create", "start"}
          /\ job' = [job EXCEPT ![s].pc = "error"] /\ docker' = [docker EXCEPT ![s] = Cleaned(s)]
          /\ row' = row /\ UNCHANGED odd
      BY <1>18 DEF FailProvision
    <2>2. Cleaned(s).containers = {c \in docker[s].containers : ~(c.id = s /\ job[s].pc = "start")}
      BY DEF Cleaned, CleanedAfter
    <2>3. docker'[s] = Cleaned(s) /\ \A t \in Servers \ {s} : docker'[t] = docker[t] BY <1>0, <2>1
    <2>4. /\ docker'[s].containers \subseteq docker[s].containers
          /\ job[s].pc # "start" => docker'[s].containers = docker[s].containers
      BY <2>2, <2>3
    <2> QED BY <1>j, <1>o, <1>r, <2>1, <2>3, <2>4 DEF ProvisionShape
  <1>19. ASSUME NEW to, row' = [row EXCEPT ![s] = [@ EXCEPT !.status = to, !.version = NextVersion(s)]]
         PROVE  row'[s].status = to /\ \A t \in Servers \ {s} : row'[t] = row[t]
    <2> DEFINE v == NextVersion(s)
    <2>1. row'[s] = [row[s] EXCEPT !.status = to, !.version = v] BY <1>0, <1>19
    <2> HIDE DEF v
    <2>2. row'[s].status = to BY <1>0, <2>1 DEF Row
    <2> QED BY <1>0, <1>19, <2>2
  <1>20. CASE MarkProvisionSucceeded(s)
    <2>1. job[s].state \in {"stopped", "running"} BY <1>0 DEF Job
    <2>2. job[s].pc = "ok" /\ docker' = docker /\ UNCHANGED odd /\ job' = [job EXCEPT ![s].pc = "done"]
      BY <1>20 DEF MarkProvisionSucceeded, Provisioning
    <2>3. row'[s].status = job[s].state /\ \A t \in Servers \ {s} : row'[t] = row[t]
      BY <1>19, <1>20 DEF MarkProvisionSucceeded
    <2> QED BY <1>j, <1>o, <1>r, <2>1, <2>2, <2>3 DEF ProvisionShape
  <1>21. CASE MarkProvisionFailed(s)
    <2>1. job[s].pc = "error" /\ docker' = docker /\ UNCHANGED odd /\ job' = [job EXCEPT ![s].pc = "gaveUp"]
      BY <1>21 DEF MarkProvisionFailed, Provisioning
    <2>2. row'[s].status = "failed" /\ \A t \in Servers \ {s} : row'[t] = row[t]
      BY <1>19, <1>21 DEF MarkProvisionFailed
    <2> QED BY <1>j, <1>o, <1>r, <2>1, <2>2 DEF ProvisionShape
  <1>22. CASE RetryProvision(s)
    <2>1. /\ job[s].pc = "error" /\ docker' = docker /\ row' = row /\ job' = [job EXCEPT ![s].pc = "queued"]
          /\ UNCHANGED odd
      BY <1>22 DEF RetryProvision, Provisioning
    <2> QED BY <1>3, <1>j, <1>o, <2>1
  <1>23. CASE ProvisionFault(s) BY <1>0, <1>r, <1>23, FaultDoes DEF ProvisionShape
  <1> QED
    BY <1>1, <1>4, <1>5, <1>8, <1>9, <1>10, <1>11, <1>12, <1>13, <1>14, <1>16, <1>17, <1>18, <1>20, <1>21, <1>22,
       <1>23
    DEF Provision

\* A handler that stays as it was keeps what it stands for.
LEMMA HandlersSame ==
  ASSUME req' = req
  PROVE  /\ \A q : Target(q)' = Target(q) /\ Own(q)' = Own(q)
         /\ \A q : (Editing(q)' <=> Editing(q)) /\ (Deleting(q)' <=> Deleting(q))
         /\ \A s, q, p : Named(s, q, p)' <=> Named(s, q, p)
         /\ \A s : Replacing(s)' <=> Replacing(s)
         /\ \A id : Settled(id)' <=> Settled(id)
  <1>1. \A q : /\ Target(q)' = Target(q) /\ Own(q)' = Own(q)
               /\ (Editing(q)' <=> Editing(q)) /\ (Deleting(q)' <=> Deleting(q))
    BY DEF Target, Own, Editing, Deleting
  <1>2. \A s, q, p : Named(s, q, p)' <=> Named(s, q, p) BY <1>1 DEF Named
  <1>3. \A s : Replacing(s)' <=> Replacing(s) BY <1>1 DEF Replacing
  <1>4. \A id : Settled(id)' <=> Settled(id) BY DEF Settled
  <1> QED BY <1>1, <1>2, <1>3, <1>4

\* Creation and provisioning keep the invariant: no edit is of a server at work, so
\* that all its containers are settled when it is done.
LEMMA ProvisionKeeps ==
  ASSUME KeepInv, NEW s \in Servers, ProvisionShape(s), TypeOK'
  PROVE  KeepInv'
  <1>0. TypeOK /\ Handlers /\ Names /\ Pending /\ Anchored /\ Provisioned BY DEF KeepInv
  <1>1. /\ req' = req /\ job[s].pc \notin {"done", "gaveUp"}
        /\ \A t \in Servers \ {s} : docker'[t] = docker[t] /\ job'[t] = job[t] /\ row'[t] = row[t]
        /\ \A t \in Servers : Whole(t)' <=> Whole(t)
    BY DEF ProvisionShape, Whole
  <1>2. \A q \in Requests : Target(q) = s => ~Editing(q) BY <1>0, <1>1 DEF Handlers
  <1>3. \A q \in Requests : Target(q) \in Servers BY <1>0 DEF TypeOK, Request, Target
  <1>4. Provisioned'
    <2> SUFFICES ASSUME NEW t \in Servers
                 PROVE  /\ job'[t].pc = "none" <=> row'[t].status = "none"
                        /\ job'[t].pc \notin {"none", "done", "gaveUp"} => row'[t].status \in {"installing", "deleting"}
                        /\ job'[t].pc = "start" => \A c \in docker'[t].containers : c.running = FALSE
                        /\ job'[t].pc \in {"start", "ok"} /\ Whole(t)' => docker'[t].containers # {}
      BY DEF Provisioned
    <2>1. CASE t # s BY <1>0, <1>1, <2>1 DEF Provisioned
    <2>2. CASE t = s
      <3>1. /\ job[s].pc = "none" <=> row[s].status = "none"
            /\ job[s].pc # "none" => row[s].status \in {"installing", "deleting"}
            /\ job[s].pc \in {"start", "ok"} /\ Whole(s) => docker[s].containers # {}
        BY <1>0, <1>1 DEF Provisioned
      <3>2. CASE /\ job[s].pc = "create" /\ job'[s].pc = "start" /\ row'[s].status = row[s].status
                 /\ docker'[s].containers = {[id |-> s, config |-> job[s].config, running |-> FALSE]}
        BY <2>2, <3>1, <3>2
      <3>3. CASE job'[s].pc # "start" BY <1>1, <2>2, <3>1, <3>3 DEF ProvisionShape
      <3> QED BY <3>2, <3>3 DEF ProvisionShape
    <2> QED BY <2>1, <2>2
  <1>5. Handlers'
    <2>1. \A t \in Servers : job[t].pc \in {"done", "gaveUp"} => job'[t] = job[t] BY <1>1
    <2>2. \A t \in Servers : job[t].pc # "none" => job'[t].pc # "none" BY <1>1 DEF ProvisionShape
    <2>3. \A t \in Servers : "deletion" \in odd[t] => "deletion" \in odd'[t]
      BY DEF ProvisionShape, Marks
    <2> QED BY <1>0, <1>1, <1>3, <2>1, <2>2, <2>3, HandlersSame DEF Handlers
  <1>6. \A c \in docker'[s].containers :
          \/ c \in docker[s].containers
          \/ c.id = s /\ docker'[s].containers = {c}
          \/ \E b \in docker[s].containers :
               /\ c.id = b.id
               /\ docker'[s].containers = (docker[s].containers \ {b}) \cup {c}
    <2>1. \A c \in docker[s].containers : Started(c).id = c.id BY <1>0 DEF TypeOK, Resources, Container, Started
    <2>2. CASE docker'[s].containers \subseteq docker[s].containers BY <2>2
    <2>3. ASSUME docker'[s].containers = {[id |-> s, config |-> job[s].config, running |-> FALSE]},
                 NEW c \in docker'[s].containers
          PROVE  c.id = s /\ docker'[s].containers = {c}
      <3>1. c = [id |-> s, config |-> job[s].config, running |-> FALSE] BY <2>3
      <3>2. c.id = s BY <3>1
      <3> QED BY <2>3, <3>1, <3>2
    <2>4. ASSUME NEW b \in docker[s].containers,
                 docker'[s].containers = (docker[s].containers \ {b}) \cup {Started(b)},
                 NEW c \in docker'[s].containers
          PROVE  \/ c \in docker[s].containers
                 \/ c.id = b.id /\ docker'[s].containers = (docker[s].containers \ {b}) \cup {c}
      BY <2>1, <2>4
    <2> QED BY <2>2, <2>3, <2>4 DEF ProvisionShape
  <1>7. Names'
    <2>1. ASSUME NEW t \in Servers, NEW c \in docker'[t].containers, NEW d \in docker'[t].containers, c.id = d.id
          PROVE  c = d
      <3>1. CASE t # s BY <1>0, <1>1, <2>1, <3>1 DEF Names
      <3>2. CASE t = s BY <1>0, <1>6, <2>1, <3>2 DEF Names
      <3> QED BY <3>1, <3>2
    <2>2. ASSUME NEW t \in Servers, NEW c \in docker'[t].containers, NEW q \in Requests, NEW p \in Phases, c.id = <<q, p>>
          PROVE  Named(t, q, p)'
      <3>1. CASE t # s BY <1>0, <1>1, <2>2, <3>1, HandlersSame DEF Names
      <3>2. CASE t = s
        <4>1. c.id # s BY <2>2, OwnNames
        <4>2. \E b \in docker[s].containers : c.id = b.id BY <1>6, <2>2, <3>2, <4>1
        <4> QED BY <1>0, <1>1, <2>2, <3>2, <4>2, HandlersSame DEF Names
      <3> QED BY <3>1, <3>2
    <2> QED BY <2>1, <2>2 DEF Names
  <1>8. Pending'
    <2> SUFFICES ASSUME NEW q \in Requests, Whole(Target(q))', req[q].pc \in {"create", "remove", "drop"}
                 PROVE  /\ req[q].pc \in {"create", "remove"} => Settled(req[q].found)
                        /\ req[q].pc = "remove" => \E c \in docker'[Target(q)].containers : c.id = Own(q)
                        /\ req[q].pc \in {"remove", "drop"} =>
                             \A c \in docker'[Target(q)].containers : c.id = Own(q) => c.running = FALSE
      <3>1. \A q \in Requests : Settled(req[q].found)' <=> Settled(req[q].found) BY <1>1 DEF Settled
      <3> QED BY <1>1, <3>1, HandlersSame DEF Pending
    <2>1. Target(q) # s BY <1>2 DEF Editing
    <2>2. Whole(Target(q)) BY <1>1, <1>3 DEF Whole, Marks, Target
    <2> QED BY <1>0, <1>1, <1>3, <2>1, <2>2, HandlersSame DEF Pending
  <1>9. Anchored'
    <2> SUFFICES ASSUME NEW t \in Servers, Whole(t)', job'[t].pc = "done" \/ Replacing(t)'
                 PROVE  \E c \in docker'[t].containers : Settled(c.id)'
      BY DEF Anchored
    <2>1. CASE t # s BY <1>0, <1>1, <2>1, HandlersSame DEF Anchored
    <2>2. CASE t = s
      <3>1. ~Replacing(s) BY <1>2 DEF Replacing, Editing
      <3>2. job'[s].pc = "done" BY <1>1, <2>2, <3>1, HandlersSame
      <3>3. job[s].pc = "ok" /\ docker'[s].containers = docker[s].containers BY <3>2 DEF ProvisionShape
      <3>4. PICK c \in docker[s].containers : TRUE BY <1>0, <1>1, <2>2, <3>3 DEF Provisioned
      <3>5. \A q \in Requests, p \in Phases : c.id = <<q, p>> => req[q].pc = "done"
        BY <1>0, <1>2 DEF Names, Named, Editing
      <3>6. Settled(c.id) BY <3>5 DEF Settled
      <3> QED BY <1>1, <2>2, <3>3, <3>6, HandlersSame
    <2> QED BY <2>1, <2>2
  <1> QED BY <1>4, <1>5, <1>7, <1>8, <1>9 DEF KeepInv

-----------------------------------------------------------------------------
(* Power, as far as containers are concerned: at most the only container   *)
(* is started or stopped.                                                  *)

PowerShape(s) ==
  /\ req' = req /\ job' = job
  /\ \A t \in Servers \ {s} : docker'[t] = docker[t] /\ row'[t] = row[t]
  /\ \A t \in Servers : Marks(t)' = Marks(t)
  /\ row[s].status \notin {"none", "installing", "deleting"}
  /\ row'[s].status \notin {"none", "installing", "deleting"}
  /\ \/ docker'[s].containers = docker[s].containers
     \/ \E c \in docker[s].containers : \E d :
          docker[s].containers = {c} /\ docker'[s].containers = {d} /\ d.id = c.id

\* Every power step has that shape.
LEMMA PowerShapes ==
  ASSUME TypeOK, NEW s \in Servers, Power(s)
  PROVE  PowerShape(s)
  <1>0. row \in [Servers -> Row] /\ docker \in [Servers -> Resources] BY DEF TypeOK
  <1>1. req' = req BY RequestsKept
  <1>2. ASSUME NEW from, NEW to, RequestPower(s, from, to), "none" \notin from, "installing" \notin from,
               "deleting" \notin from, to \notin {"none", "installing", "deleting"}
        PROVE  PowerShape(s)
    <2> DEFINE v == NextVersion(s)
               n == row[s].powers + 1
    <2>1. row' = [row EXCEPT ![s] = [@ EXCEPT !.status = to, !.version = v, !.powers = n]]
      BY <1>2 DEF RequestPower
    <2> HIDE DEF v, n
    <2>2. row'[s] = [row[s] EXCEPT !.status = to, !.version = v, !.powers = n] BY <1>0, <2>1
    <2>3. row'[s].status = to BY <1>0, <2>2 DEF Row
    <2>4. \A t \in Servers \ {s} : row'[t] = row[t] BY <1>0, <2>1
    <2>5. \A t \in Servers : Marks(t)' = Marks(t) BY <1>2, MarkKept DEF RequestPower
    <2> QED BY <1>1, <1>2, <2>3, <2>4, <2>5 DEF RequestPower, PowerShape
  <1>3. ASSUME NEW from, NEW to, FinishPower(s, from, to), from \in {"starting", "stopping"},
               to \in {"stopped", "running", "failed"}, \A t \in Servers \ {s} : docker'[t] = docker[t],
               \/ docker'[s].containers = docker[s].containers
               \/ \E c \in docker[s].containers : \E d :
                    docker[s].containers = {c} /\ docker'[s].containers = {d} /\ d.id = c.id
        PROVE  PowerShape(s)
    <2> DEFINE v == NextVersion(s)
    <2>1. row' = [row EXCEPT ![s] = [@ EXCEPT !.status = to, !.version = v]] BY <1>3 DEF FinishPower
    <2> HIDE DEF v
    <2>2. row'[s] = [row[s] EXCEPT !.status = to, !.version = v] BY <1>0, <2>1
    <2>3. row'[s].status = to BY <1>0, <2>2 DEF Row
    <2>4. \A t \in Servers \ {s} : row'[t] = row[t] BY <1>0, <2>1
    <2>5. job' = job /\ row[s].status = from /\ \A t \in Servers : Marks(t)' = Marks(t) BY <1>3 DEF FinishPower, Marks
    <2> QED BY <1>1, <1>3, <2>3, <2>4, <2>5 DEF PowerShape
  <1>4. ASSUME NEW c \in ManagedServer(s), NEW d, d = [c EXCEPT !.running = TRUE] \/ d = [c EXCEPT !.running = FALSE],
               docker' = [docker EXCEPT ![s].containers = {d}]
        PROVE  /\ \A t \in Servers \ {s} : docker'[t] = docker[t]
               /\ docker'[s].containers = {d} /\ d.id = c.id
               /\ c \in docker[s].containers /\ docker[s].containers = {c}
    <2>1. c \in docker[s].containers /\ docker[s].containers = {c} BY DEF ManagedServer
    <2>2. c \in Container BY <1>0, <2>1 DEF Resources
    <2>3. d.id = c.id BY <1>4, <2>2 DEF Container
    <2>4. docker'[s].containers = {d} BY <1>0, <1>4 DEF Resources
    <2> QED BY <1>0, <1>4, <2>1, <2>3, <2>4
  <1>5. CASE Start(s) \/ Stop(s) BY <1>2, <1>5 DEF Start, Stop
  <1>6. CASE FinishStart(s)
    <2>1. CASE docker' = docker BY <1>3, <1>6, <2>1 DEF FinishStart
    <2>2. ASSUME NEW c \in ManagedServer(s), docker' = Runs(s, c), FinishPower(s, "starting", "running")
          PROVE  PowerShape(s)
      <3> DEFINE d == [c EXCEPT !.running = TRUE]
      <3>1. docker[s].containers = {c} BY DEF ManagedServer
      <3>2. (docker[s].containers \ {c}) \cup {d} = {d} BY <3>1
      <3>3. docker' = [docker EXCEPT ![s].containers = (docker[s].containers \ {c}) \cup {d}] BY <2>2 DEF Runs
      <3>4. docker' = [docker EXCEPT ![s].containers = {d}] BY <3>2, <3>3
      <3> QED BY <1>3, <1>4, <2>2, <3>4
    <2> QED BY <1>6, <2>1, <2>2 DEF FinishStart
  <1>7. CASE FinishStop(s)
    <2>1. CASE docker' = docker BY <1>3, <1>7, <2>1 DEF FinishStop
    <2>2. ASSUME NEW c \in ManagedServer(s), FinishPower(s, "stopping", "stopped"),
                 docker' = [docker EXCEPT ![s].containers = {[c EXCEPT !.running = FALSE]}]
          PROVE  PowerShape(s)
      BY <1>3, <1>4, <2>2
    <2> QED BY <1>7, <2>1, <2>2 DEF FinishStop
  <1> QED BY <1>5, <1>6, <1>7 DEF Power

\* Power keeps the invariant: the only container of a server is settled, so that no
\* edit's own container is started.
LEMMA PowerKeeps ==
  ASSUME KeepInv, NEW s \in Servers, PowerShape(s), TypeOK'
  PROVE  KeepInv'
  <1>0. TypeOK /\ Handlers /\ Names /\ Pending /\ Anchored /\ Provisioned BY DEF KeepInv
  <1>1. /\ req' = req /\ job' = job
        /\ \A t \in Servers \ {s} : docker'[t] = docker[t] /\ row'[t] = row[t]
        /\ \A t \in Servers : Whole(t)' <=> Whole(t)
    BY DEF PowerShape, Whole
  <1>2. job[s].pc \in {"done", "gaveUp"} BY <1>0 DEF Provisioned, PowerShape
  <1>3. \A q \in Requests : Target(q) \in Servers /\ req[q].phase \in Phases
    BY <1>0 DEF TypeOK, Request, Target, Phases
  <1>4. Provisioned'
    <2>1. row[s].status # "none" /\ row'[s].status # "none" BY DEF PowerShape
    <2> QED BY <1>0, <1>1, <1>2, <2>1 DEF Provisioned
  <1>5. Handlers'
    <2>1. \A t \in Servers : "deletion" \in odd[t] => "deletion" \in odd'[t] BY DEF PowerShape, Marks
    <2> QED BY <1>0, <1>1, <1>3, <2>1, HandlersSame DEF Handlers
  <1>6. \A t \in Servers : \A d \in docker'[t].containers : \E c \in docker[t].containers : d.id = c.id
    BY <1>1 DEF PowerShape
  <1>7. \A t \in Servers : \A c \in docker[t].containers : \E d \in docker'[t].containers : d.id = c.id
    BY <1>1 DEF PowerShape
  <1>8. Names'
    <2>1. ASSUME NEW t \in Servers, NEW c \in docker'[t].containers, NEW d \in docker'[t].containers, c.id = d.id
          PROVE  c = d
      BY <1>0, <1>1, <2>1 DEF Names, PowerShape
    <2>2. ASSUME NEW t \in Servers, NEW c \in docker'[t].containers, NEW q \in Requests, NEW p \in Phases, c.id = <<q, p>>
          PROVE  Named(t, q, p)'
      BY <1>0, <1>1, <1>6, <2>2, HandlersSame DEF Names
    <2> QED BY <2>1, <2>2 DEF Names
  <1>9. Pending'
    <2> SUFFICES ASSUME NEW q \in Requests, Whole(Target(q))', req[q].pc \in {"create", "remove", "drop"}
                 PROVE  /\ req[q].pc \in {"create", "remove"} => Settled(req[q].found)
                        /\ req[q].pc = "remove" => \E c \in docker'[Target(q)].containers : c.id = Own(q)
                        /\ req[q].pc \in {"remove", "drop"} =>
                             \A c \in docker'[Target(q)].containers : c.id = Own(q) => c.running = FALSE
      <3>1. \A q \in Requests : Settled(req[q].found)' <=> Settled(req[q].found) BY <1>1 DEF Settled
      <3> QED BY <1>1, <3>1, HandlersSame DEF Pending
    <2>1. Whole(Target(q)) BY <1>1, <1>3 DEF Whole, Marks, Target
    <2>2. ASSUME req[q].pc = "remove" PROVE \E c \in docker'[Target(q)].containers : c.id = Own(q)
      BY <1>0, <1>3, <1>7, <2>1, <2>2 DEF Pending
    <2>3. ASSUME req[q].pc \in {"remove", "drop"}, NEW c \in docker'[Target(q)].containers, c.id = Own(q)
          PROVE  c.running = FALSE
      <3>1. CASE c \in docker[Target(q)].containers BY <1>0, <1>3, <2>1, <2>3, <3>1 DEF Pending
      <3>2. CASE c \notin docker[Target(q)].containers
        <4>1. Target(q) = s BY <1>1, <1>3, <2>3, <3>2
        <4>2. PICK b \in docker[s].containers : docker[s].containers = {b} /\ c.id = b.id
          BY <2>3, <3>2, <4>1 DEF PowerShape
        <4>3. Settled(b.id) BY <2>1, <4>1, <4>2, SoleSettled
        <4>4. ~Settled(Own(q)) BY <1>0, <2>3, OwnUnsettled
        <4> QED BY <2>3, <4>2, <4>3, <4>4
      <3> QED BY <3>1, <3>2
    <2> QED BY <1>0, <1>3, <2>1, <2>2, <2>3 DEF Pending
  <1>10. Anchored'
    <2> SUFFICES ASSUME NEW t \in Servers, Whole(t)', job'[t].pc = "done" \/ Replacing(t)'
                 PROVE  \E c \in docker'[t].containers : Settled(c.id)'
      BY DEF Anchored
    <2>1. PICK c \in docker[t].containers : Settled(c.id) BY <1>0, <1>1, HandlersSame DEF Anchored
    <2>2. PICK d \in docker'[t].containers : d.id = c.id BY <1>7
    <2> QED BY <1>1, <2>1, <2>2, HandlersSame
  <1> QED BY <1>4, <1>5, <1>8, <1>9, <1>10 DEF KeepInv

-----------------------------------------------------------------------------
(* Beginnings, deletions and crashes.                                      *)

\* A step that makes no container, removes none of a whole server, and takes no edit
\* into a replacement keeps the invariant.
LEMMA CalmKeeps ==
  ASSUME KeepInv, TypeOK', Provisioned', Handlers',
         \A t \in Servers : docker'[t].containers \subseteq docker[t].containers,
         \A t \in Servers : Whole(t)' => Whole(t) /\ docker'[t].containers = docker[t].containers,
         \A t \in Servers : job'[t].pc = "done" => job[t].pc = "done",
         \A q \in Requests : req'[q].pc \in {"create", "remove", "drop"} => req'[q] = req[q],
         \A t, p : \A q \in Requests : Named(t, q, p) => Named(t, q, p)',
         \A id : Settled(id) => Settled(id)'
  PROVE  KeepInv'
  <1>0. TypeOK /\ Handlers /\ Names /\ Pending /\ Anchored /\ Provisioned BY DEF KeepInv
  <1>1. Names' BY <1>0 DEF Names
  <1>2. Pending'
    <2> SUFFICES ASSUME NEW q \in Requests, Whole(Target(q))', req'[q].pc \in {"create", "remove", "drop"}
                 PROVE  /\ req'[q].pc \in {"create", "remove"} => Settled(req[q].found)'
                        /\ req'[q].pc = "remove" => \E c \in docker'[Target(q)'].containers : c.id = Own(q)'
                        /\ req'[q].pc \in {"remove", "drop"} =>
                             \A c \in docker'[Target(q)'].containers : c.id = Own(q)' => c.running = FALSE
      BY DEF Pending
    <2>1. req'[q] = req[q] BY <1>0
    <2>2. Target(q)' = Target(q) /\ Own(q)' = Own(q) /\ Target(q) \in Servers
      BY <1>0, <2>1 DEF Target, Own, TypeOK, Request
    <2>3. Whole(Target(q)) /\ docker'[Target(q)].containers = docker[Target(q)].containers
      <3>1. \A t \in Servers : t = Target(q) => Whole(t)' BY <2>2 DEF Whole, Marks
      <3> QED BY <2>2, <3>1
    <2>4. \A id : id = req[q].found /\ req[q].pc \in {"create", "remove"} => Settled(id)' BY <1>0, <2>3 DEF Pending
    <2>5. req'[q].pc \in {"create", "remove"} => Settled(req[q].found)' BY <2>1, <2>4 DEF Settled
    <2> QED BY <1>0, <2>1, <2>2, <2>3, <2>5 DEF Pending
  <1>3. Anchored'
    <2>1. \A t \in Servers : Replacing(t)' => Replacing(t) BY DEF Replacing, Target
    <2> QED BY <1>0, <2>1 DEF Anchored
  <1> QED BY <1>1, <1>2, <1>3 DEF KeepInv

\* Beginning an edit or a deletion keeps the invariant: no container has the new name.
LEMMA BeginKeeps ==
  ASSUME KeepInv, NEW r \in Requests, Begin(r)
  PROVE  KeepInv'
  <1>0. TypeOK /\ Handlers /\ Names /\ Pending /\ Anchored /\ Provisioned BY DEF KeepInv
  <1>t. /\ req \in [Requests -> Request] /\ odd \in [Servers -> SUBSET {"overlap", "deletion", "cut", "left", "lost"}]
    BY <1>0 DEF TypeOK
  <1>1. TypeOK' BY <1>0, BeginTyped
  <1>2. \A q \in Requests \ {r} : req'[q] = req[q] BY <1>0, OwnRequest
  <1>3. /\ req[r].pc = "idle" /\ req'[r].pc \in {"ports", "dHelpers"} /\ req'[r].phase = "apply"
        /\ row' = row /\ job' = job /\ docker' = docker
        /\ \A t \in Servers : odd[t] \subseteq odd'[t]
        /\ req'[r].server \in Servers
        /\ req'[r].pc = "ports" => job[req'[r].server].pc \in {"done", "gaveUp"}
        /\ req'[r].pc = "dHelpers" => "deletion" \in odd'[req'[r].server] /\ job[req'[r].server].pc # "none"
    <2>1. PICK s \in Servers : (\E kind \in EditKinds : LoadRow(r, s, kind)) \/ BeginDelete(r, s)
      BY ContainersAssumption DEF Begin, EditKinds
    <2>2. ASSUME NEW kind \in EditKinds, LoadRow(r, s, kind)
          PROVE  /\ req[r].pc = "idle" /\ req'[r].pc = "ports" /\ req'[r].phase = "apply" /\ req'[r].server = s
                 /\ row' = row /\ job' = job /\ docker' = docker
                 /\ \A t \in Servers : odd[t] \subseteq odd'[t]
                 /\ job[s].pc \in {"done", "gaveUp"}
      <3>1. req'[r] = NewRequest("ports", kind, s, row[s].version, row[s].config) BY <1>t, <2>2 DEF LoadRow
      <3>2. req'[r].pc = "ports" /\ req'[r].phase = "apply" /\ req'[r].server = s BY <3>1 DEF NewRequest
      <3>3. \A t \in Servers : odd[t] \subseteq odd'[t] BY <1>t, <2>2 DEF LoadRow, Mark
      <3>4. job[s].pc \in {"done", "gaveUp"} BY <1>0, <2>2 DEF LoadRow, Provisioned
      <3> QED BY <2>2, <3>2, <3>3, <3>4 DEF LoadRow, At
    <2>3. ASSUME BeginDelete(r, s)
          PROVE  /\ req[r].pc = "idle" /\ req'[r].pc = "dHelpers" /\ req'[r].phase = "apply" /\ req'[r].server = s
                 /\ row' = row /\ job' = job /\ docker' = docker
                 /\ \A t \in Servers : odd[t] \subseteq odd'[t]
                 /\ "deletion" \in odd'[s] /\ job[s].pc # "none"
      <3>1. req'[r] = NewRequest("dHelpers", "delete", s, 0, NoConfig) BY <1>t, <2>3 DEF BeginDelete
      <3>2. req'[r].pc = "dHelpers" /\ req'[r].phase = "apply" /\ req'[r].server = s BY <3>1 DEF NewRequest
      <3>3. \A t \in Servers : odd[t] \subseteq odd'[t] BY <1>t, <2>3 DEF BeginDelete, Mark
      <3>4. "deletion" \in odd'[s] BY <1>t, <2>3 DEF BeginDelete, Mark
      <3>5. job[s].pc # "none" BY <1>0, <2>3 DEF BeginDelete, Provisioned
      <3> QED BY <2>3, <3>2, <3>3, <3>4, <3>5 DEF BeginDelete, At
    <2> QED BY <2>1, <2>2, <2>3
  <1>4. \A t \in Servers : Whole(t)' => Whole(t) BY <1>3 DEF Whole, Marks
  <1>5. req[r].phase = "apply" BY <1>0, <1>3 DEF Handlers
  <1>6. \A t, p : \A q \in Requests : Named(t, q, p) => Named(t, q, p)'
    <2>1. \A t, p : ~Named(t, r, p) BY <1>3, <1>5 DEF Named, Editing
    <2>2. \A t, p : \A q \in Requests \ {r} : Named(t, q, p) => Named(t, q, p)' BY <1>2 DEF Named, Target, Editing
    <2> QED BY <2>1, <2>2
  <1>7. \A id : Settled(id) => Settled(id)'
    <2>1. \A id : Settled(id) => \A p \in Phases : id # <<r, p>> BY <1>3, <1>5 DEF Settled
    <2> QED BY <1>2, <2>1 DEF Settled
  <1>8. Provisioned' BY <1>0, <1>3, <1>4 DEF Provisioned
  <1>9. Handlers'
    <2> SUFFICES ASSUME NEW q \in Requests
                 PROVE  /\ Editing(q)' => job'[Target(q)'].pc \in {"done", "gaveUp"}
                        /\ Deleting(q)' => "deletion" \in odd'[Target(q)'] /\ job'[Target(q)'].pc # "none"
                        /\ req'[q].pc \in {"idle", "ports", "commit"} => req'[q].phase = "apply"
      BY DEF Handlers
    <2>1. CASE q # r
      <3>1. Target(q) \in Servers BY <1>t DEF Target, Request
      <3> QED BY <1>0, <1>2, <1>3, <2>1, <3>1 DEF Handlers, Editing, Deleting, Target
    <2>2. CASE q = r BY <1>3, <2>2 DEF Editing, Deleting, Target
    <2> QED BY <2>1, <2>2
  <1> QED BY <1>1, <1>2, <1>3, <1>4, <1>6, <1>7, <1>8, <1>9, CalmKeeps

\* The steps of a deletion.
Delete(r) ==
  \/ DeleteHelpers(r) \/ DeleteContainer(r) \/ DeleteNetwork(r) \/ DeleteVolume(r)
  \/ DeleteRefused(r) \/ FailDelete(r) \/ FinalizeDeletion(r)

\* A deletion goes on to its next call or ends; it touches the containers and the
\* status of its own server only, and makes no container.
LEMMA DeleteFrame ==
  ASSUME TypeOK, NEW r \in Requests, Delete(r)
  PROVE  /\ Deleting(r) /\ odd' = odd /\ job' = job
         /\ \A q \in Requests \ {r} : req'[q] = req[q]
         /\ \/ req'[r].pc = "done"
            \/ Deleting(r)' /\ req'[r].server = req[r].server /\ req'[r].phase = req[r].phase
         /\ \A t \in Servers : docker'[t].containers \subseteq docker[t].containers
         /\ \A t \in Servers \ {Target(r)} : docker'[t] = docker[t] /\ row'[t] = row[t]
         /\ row'[Target(r)].status \in {row[Target(r)].status, "deleting"}
  <1>0. req \in [Requests -> Request] /\ docker \in [Servers -> Resources] /\ row \in [Servers -> Row] BY DEF TypeOK
  <1>1. Target(r) \in Servers BY <1>0 DEF Target, Request
  <1>2. \A q \in Requests \ {r} : req'[q] = req[q] BY OwnRequest DEF Delete, Handle, Disturb
  <1>3. odd' = odd /\ job' = job
    BY DEF Delete, DeleteHelpers, DeleteContainer, DeleteNetwork, DeleteVolume, DeleteStep, DeleteRefused,
       FailDelete, FinalizeDeletion
  <1>4. Deleting(r)
    BY DEF Delete, DeleteHelpers, DeleteContainer, DeleteNetwork, DeleteVolume, DeleteStep, DeleteRefused,
       FailDelete, FinalizeDeletion, At, Deleting
  <1>5. ASSUME NEW pc, Goto(r, pc)
        PROVE  req'[r].pc = pc /\ req'[r].server = req[r].server /\ req'[r].phase = req[r].phase
    BY <1>0, <1>5 DEF Goto, Request
  <1>6. ASSUME NEW from, NEW to \in {"dContainer", "dNetwork", "dVolume", "dFinal"}, NEW x,
               DeleteStep(r, from, to, x), x.containers \subseteq docker[Target(r)].containers
        PROVE  /\ Deleting(r)' /\ req'[r].server = req[r].server /\ req'[r].phase = req[r].phase
               /\ \A t \in Servers : docker'[t].containers \subseteq docker[t].containers
               /\ \A t \in Servers \ {Target(r)} : docker'[t] = docker[t] /\ row'[t] = row[t]
               /\ row'[Target(r)].status = row[Target(r)].status
    <2>1. Goto(r, to) /\ row' = row /\ docker' = [docker EXCEPT ![Target(r)] = x] BY <1>6 DEF DeleteStep
    <2>2. docker'[Target(r)] = x /\ \A t \in Servers \ {Target(r)} : docker'[t] = docker[t] BY <1>0, <1>1, <2>1
    <2> QED BY <1>5, <1>6, <2>1, <2>2 DEF Deleting
  <1>7. CASE DeleteHelpers(r) \/ DeleteContainer(r) \/ DeleteNetwork(r) \/ DeleteVolume(r)
    <2>1. /\ [docker[Target(r)] EXCEPT !.helper = {}].containers = docker[Target(r)].containers
          /\ [docker[Target(r)] EXCEPT !.network = FALSE].containers = docker[Target(r)].containers
          /\ [docker[Target(r)] EXCEPT !.volume = "none"].containers = docker[Target(r)].containers
      BY <1>0, <1>1 DEF Resources
    <2>2. [docker[Target(r)] EXCEPT !.containers = @ \ ManagedServer(Target(r))].containers
            = docker[Target(r)].containers \ ManagedServer(Target(r))
      BY <1>0, <1>1 DEF Resources
    <2> QED BY <1>2, <1>3, <1>4, <1>6, <1>7, <2>1, <2>2
        DEF DeleteHelpers, DeleteContainer, DeleteNetwork, DeleteVolume
  <1>8. CASE DeleteRefused(r) \/ FailDelete(r)
    <2>1. row' = row /\ docker' = docker /\ req'[r].pc = "done" BY <1>0, <1>8, FinishDone DEF DeleteRefused, FailDelete
    <2> QED BY <1>2, <1>3, <1>4, <2>1
  <1>9. CASE FinalizeDeletion(r)
    <2>1. docker' = docker /\ req'[r].pc = "done" BY <1>0, <1>9, FinishDone DEF FinalizeDeletion
    <2>2. CASE row' = row BY <1>2, <1>3, <1>4, <2>1, <2>2
    <2>3. CASE row' # row
      <3> DEFINE s == Target(r)
                 v == NextVersion(s)
      <3>1. row' = [row EXCEPT ![s] = [@ EXCEPT !.status = "deleting", !.deleted = TRUE, !.version = v]]
        BY <1>9, <2>3 DEF FinalizeDeletion
      <3> HIDE DEF v, s
      <3>2. s \in Servers BY <1>1 DEF s
      <3>3. row'[s] = [row[s] EXCEPT !.status = "deleting", !.deleted = TRUE, !.version = v] BY <1>0, <3>1, <3>2
      <3>4. row'[s].status = "deleting" BY <1>0, <3>2, <3>3 DEF Row
      <3>5. \A t \in Servers \ {s} : row'[t] = row[t] BY <1>0, <3>1
      <3> QED BY <1>2, <1>3, <1>4, <2>1, <3>4, <3>5 DEF s
    <2> QED BY <2>2, <2>3
  <1> QED BY <1>7, <1>8, <1>9 DEF Delete

\* Deletions keep the invariant: their server is marked.
LEMMA DeleteKeeps ==
  ASSUME KeepInv, NEW r \in Requests, Delete(r)
  PROVE  KeepInv'
  <1>0. TypeOK /\ Handlers /\ Names /\ Pending /\ Anchored /\ Provisioned BY DEF KeepInv
  <1>t. req \in [Requests -> Request] BY <1>0 DEF TypeOK
  <1>1. TypeOK' BY <1>0, DeleteTyped DEF Delete
  <1>2. /\ Deleting(r) /\ odd' = odd /\ job' = job
        /\ \A q \in Requests \ {r} : req'[q] = req[q]
        /\ \/ req'[r].pc = "done"
           \/ Deleting(r)' /\ req'[r].server = req[r].server /\ req'[r].phase = req[r].phase
        /\ \A t \in Servers : docker'[t].containers \subseteq docker[t].containers
        /\ \A t \in Servers \ {Target(r)} : docker'[t] = docker[t] /\ row'[t] = row[t]
        /\ row'[Target(r)].status \in {row[Target(r)].status, "deleting"}
    BY <1>0, DeleteFrame
  <1>3. "deletion" \in odd[Target(r)] /\ job[Target(r)].pc # "none" /\ Target(r) \in Servers
    BY <1>0, <1>2, <1>t DEF Handlers, Target, Request
  <1>4. \A t \in Servers : Whole(t)' => Whole(t) /\ t # Target(r) BY <1>2, <1>3 DEF Whole, Marks
  <1>5. \A t, p : \A q \in Requests : Named(t, q, p) => Named(t, q, p)'
    <2>1. \A t, p : ~Named(t, r, p) BY <1>2 DEF Named, Editing, Deleting
    <2>2. \A t, p : \A q \in Requests \ {r} : Named(t, q, p) => Named(t, q, p)' BY <1>2 DEF Named, Target, Editing
    <2> QED BY <2>1, <2>2
  <1>6. \A id : Settled(id) => Settled(id)'
    <2> SUFFICES ASSUME NEW id, Settled(id), NEW q \in Requests, NEW p \in Phases, id = <<q, p>>
                 PROVE  \/ req'[q].pc = "done"
                        \/ p = req'[q].phase /\ req'[q].pc = "commit"
                        \/ p = "apply" /\ req'[q].phase = "undo"
      BY DEF Settled
    <2>1. \/ req[q].pc = "done"
          \/ p = req[q].phase /\ req[q].pc = "commit"
          \/ p = "apply" /\ req[q].phase = "undo"
      BY DEF Settled
    <2> QED BY <1>2, <2>1 DEF Deleting
  <1>7. Provisioned' BY <1>0, <1>2, <1>3, <1>4 DEF Provisioned
  <1>8. Handlers'
    <2> SUFFICES ASSUME NEW q \in Requests
                 PROVE  /\ Editing(q)' => job'[Target(q)'].pc \in {"done", "gaveUp"}
                        /\ Deleting(q)' => "deletion" \in odd'[Target(q)'] /\ job'[Target(q)'].pc # "none"
                        /\ req'[q].pc \in {"idle", "ports", "commit"} => req'[q].phase = "apply"
      BY DEF Handlers
    <2>1. CASE q # r BY <1>0, <1>2, <2>1 DEF Handlers, Editing, Deleting, Target
    <2>2. CASE q = r BY <1>2, <1>3, <2>2 DEF Editing, Deleting, Target
    <2> QED BY <2>1, <2>2
  <1>9. \A q \in Requests : req'[q].pc \in {"create", "remove", "drop"} => req'[q] = req[q] BY <1>2 DEF Deleting
  <1> QED BY <1>1, <1>2, <1>4, <1>5, <1>6, <1>7, <1>8, <1>9, CalmKeeps

\* So does a crash of the engine, which ends replacements and provisioning.
LEMMA CrashKeeps ==
  ASSUME KeepInv, EngineCrash
  PROVE  KeepInv'
  <1>0. TypeOK /\ Handlers /\ Names /\ Pending /\ Anchored /\ Provisioned BY DEF KeepInv
  <1>t. /\ req \in [Requests -> Request] /\ job \in [Servers -> Job]
        /\ odd \in [Servers -> SUBSET {"overlap", "deletion", "cut", "left", "lost"}]
    BY <1>0 DEF TypeOK
  <1>1. TypeOK' BY <1>0, CrashTyped
  <1>2. row' = row /\ docker' = docker BY DEF EngineCrash
  <1>3. \A q \in Requests : IF req[q].pc \in EngineCalls THEN req'[q].pc = "done" ELSE req'[q] = req[q]
    BY DEF EngineCrash, Idle, NewRequest
  <1>4. \A t \in Servers : IF AtWork(t) /\ job[t].pc \notin {"ok", "error"} THEN job'[t].pc = "error" ELSE job'[t] = job[t]
    BY <1>t DEF EngineCrash, Job
  <1>5. \A t \in Servers : odd'[t] = odd[t] \/ odd'[t] = odd[t] \cup {"cut"} BY DEF EngineCrash
  <1>6. \A t \in Servers : Whole(t)' <=> Whole(t) BY <1>5 DEF Whole, Marks
  <1>7. \A t, p : \A q \in Requests : Named(t, q, p) => Named(t, q, p)' BY <1>3 DEF Named, Target, Editing
  <1>8. \A id : Settled(id) => Settled(id)' BY <1>3 DEF Settled
  <1>9. Provisioned'
    <2>1. \A t \in Servers : job'[t] = job[t] \/ (job'[t].pc = "error" /\ job[t].pc \notin {"none", "done", "gaveUp"})
      BY <1>4 DEF AtWork
    <2> QED BY <1>0, <1>2, <1>6, <2>1 DEF Provisioned
  <1>10. Handlers'
    <2> SUFFICES ASSUME NEW q \in Requests
                 PROVE  /\ Editing(q)' => job'[Target(q)'].pc \in {"done", "gaveUp"}
                        /\ Deleting(q)' => "deletion" \in odd'[Target(q)'] /\ job'[Target(q)'].pc # "none"
                        /\ req'[q].pc \in {"idle", "ports", "commit"} => req'[q].phase = "apply"
      BY DEF Handlers
    <2>1. CASE req'[q].pc = "done" BY <2>1 DEF Editing, Deleting
    <2>2. CASE req'[q] = req[q]
      <3>1. Target(q)' = Target(q) /\ Target(q) \in Servers BY <1>t, <2>2 DEF Target, Request
      <3>2. /\ job[Target(q)].pc \in {"done", "gaveUp"} => job'[Target(q)] = job[Target(q)]
            /\ job[Target(q)].pc # "none" => job'[Target(q)].pc # "none"
        BY <1>4, <3>1 DEF AtWork
      <3> QED BY <1>0, <1>5, <2>2, <3>1, <3>2 DEF Handlers, Editing, Deleting
    <2> QED BY <1>3, <2>1, <2>2
  <1>11. \A t \in Servers : job'[t].pc = "done" => job[t].pc = "done" BY <1>4
  <1>12. \A q \in Requests : req'[q].pc \in {"create", "remove", "drop"} => req'[q] = req[q] BY <1>3
  <1> QED BY <1>1, <1>2, <1>6, <1>7, <1>8, <1>9, <1>10, <1>11, <1>12, CalmKeeps

-----------------------------------------------------------------------------
(* The container of a provisioned server, and one that runs, is kept.      *)

\* The servers that exist at the start have their container.
LEMMA KeepInit == Init => KeepInv
  <1> SUFFICES ASSUME Init PROVE KeepInv OBVIOUS
  <1>1. TypeOK BY InitTyped
  <1>2. \A r \in Requests : req[r].pc = "idle" /\ req[r].phase = "apply" BY DEF Init, Idle, NewRequest
  <1>3. \A s \in Servers :
          /\ s \in Existing => /\ job[s].pc = "done" /\ row[s].status = "stopped"
                              /\ docker[s].containers = {[id |-> s, config |-> FirstConfig(s), running |-> FALSE]}
          /\ s \notin Existing => job[s].pc = "none" /\ row[s].status = "none" /\ docker[s].containers = {}
    BY DEF Init, Nothing
  <1>4. \A s \in Servers : \A c \in docker[s].containers : c.id = s BY <1>3
  <1>5. Provisioned BY <1>3 DEF Provisioned
  <1>6. Handlers BY <1>2 DEF Handlers, Editing, Deleting
  <1>7. Names
    <2>1. \A s \in Servers : \A c, d \in docker[s].containers : c = d BY <1>3
    <2>2. ASSUME NEW s \in Servers, NEW c \in docker[s].containers, NEW r \in Requests, NEW p \in Phases
          PROVE  c.id # <<r, p>>
      <3>1. c.id = s BY <1>4
      <3>2. s # <<r, p>> BY OwnNames
      <3> QED BY <3>1, <3>2
    <2> QED BY <2>1, <2>2 DEF Names
  <1>8. Pending BY <1>2 DEF Pending
  <1>9. Anchored
    <2>1. \A s \in Servers : Settled(s) BY OwnNames DEF Settled
    <2>2. \A s \in Servers : ~Replacing(s) BY <1>2 DEF Replacing
    <2>3. \A s \in Servers : job[s].pc = "done" => docker[s].containers # {} BY <1>3
    <2> QED BY <1>4, <2>1, <2>2, <2>3 DEF Anchored
  <1> QED BY <1>1, <1>5, <1>6, <1>7, <1>8, <1>9 DEF KeepInv

\* Every step keeps the invariant.
LEMMA KeepStep == KeepInv /\ [Next]_vars => KeepInv'
  <1> SUFFICES ASSUME KeepInv, [Next]_vars PROVE KeepInv' OBVIOUS
  <1>0. TypeOK /\ TypeOK' BY NextTyped DEF KeepInv
  <1>1. CASE UNCHANGED vars
    <2>1. /\ req' = req /\ row' = row /\ job' = job /\ docker' = docker /\ odd' = odd BY <1>1 DEF vars
    <2>2. \A t : Whole(t)' <=> Whole(t) BY <2>1 DEF Whole, Marks
    <2>3. Provisioned' /\ Handlers' BY <2>1, <2>2, HandlersSame DEF KeepInv, Provisioned, Handlers
    <2> QED BY <1>0, <2>1, <2>2, <2>3, HandlersSame, CalmKeeps
  <1>2. ASSUME NEW s \in Servers,
               \/ \E start \in BOOLEAN : CreateServer(s, start)
               \/ Provision(s) \/ ProvisionFault(s) \/ Power(s)
        PROVE  KeepInv'
    BY <1>0, <1>2, ProvisionShapes, ProvisionKeeps, PowerShapes, PowerKeeps
  <1>3. ASSUME NEW r \in Requests, Begin(r) \/ Handle(r) \/ Disturb(r)
        PROVE  KeepInv'
    BY <1>3, BeginKeeps, EditKeeps, DeleteKeeps DEF Handle, Disturb, Edit, Delete
  <1>4. CASE EngineCrash BY <1>4, CrashKeeps
  <1> QED BY <1>1, <1>2, <1>3, <1>4 DEF Next

\* A provisioned server has a container in every state, whatever edits, power requests,
\* crashes and aborts are at work on it (replaceRuntimeContainer and its callers): of
\* the containers that edits may still drop, none is the last.
THEOREM ContainerKept == Spec => []KeepsContainer
  <1>1. KeepInv => KeepsContainer BY DEF KeepInv, Anchored, KeepsContainer, Whole, Marks
  <1> QED BY <1>1, KeepInit, KeepStep, PTL DEF Spec

\* A step keeps every container that runs.
LEMMA RunningStep ==
  ASSUME KeepInv, [Next]_vars, NEW s \in Servers, NEW c \in docker[s].containers, c.running, Whole(s)
  PROVE  \E d \in docker'[s].containers : d.id = c.id
  <1>0. TypeOK /\ Handlers /\ Names /\ Pending /\ Provisioned BY DEF KeepInv
  <1>r. c.running # FALSE BY <1>0 DEF TypeOK, Resources, Container
  <1>1. CASE docker'[s].containers = docker[s].containers BY <1>1
  <1>2. ASSUME NEW t \in Servers,
               (\E start \in BOOLEAN : CreateServer(t, start)) \/ Provision(t) \/ ProvisionFault(t)
        PROVE  \E d \in docker'[s].containers : d.id = c.id
    <2>1. ProvisionShape(t) BY <1>2, ProvisionShapes
    <2>2. CASE t # s BY <2>1, <2>2 DEF ProvisionShape
    <2>3. CASE t = s
      <3>1. job[s].pc # "start" BY <1>0, <1>r DEF Provisioned
      <3>2. c \in Container BY <1>0 DEF TypeOK, Resources
      <3>3. Started(c).id = c.id BY <3>2 DEF Started, Container
      <3> QED BY <2>1, <2>3, <3>1, <3>3 DEF ProvisionShape
    <2> QED BY <2>2, <2>3
  <1>3. ASSUME NEW t \in Servers, Power(t) PROVE \E d \in docker'[s].containers : d.id = c.id
    <2>1. PowerShape(t) BY <1>0, <1>3, PowerShapes
    <2>2. CASE t # s BY <2>1, <2>2 DEF PowerShape
    <2>3. CASE t = s
      <3>1. ASSUME NEW b, NEW d, docker[s].containers = {b}, docker'[s].containers = {d}, d.id = b.id
            PROVE  \E e \in docker'[s].containers : e.id = c.id
        BY <3>1
      <3> QED BY <1>1, <2>1, <2>3, <3>1 DEF PowerShape
    <2> QED BY <2>2, <2>3
  <1>4. ASSUME NEW r \in Requests, Edit(r) PROVE \E d \in docker'[s].containers : d.id = c.id
    <2>1. EditDocker(r) BY <1>0, <1>4, EditDockers
    <2>2. CASE Target(r) # s \/ docker[s].containers \subseteq docker'[s].containers BY <2>1, <2>2 DEF EditDocker
    <2>3. CASE Target(r) = s /\ Removable(r) /\ docker'[s].containers = Without(s, req[r].found)
      <3>1. PICK b \in docker[s].containers : b.id = req[r].found /\ ~b.running BY <2>3 DEF Removable, Found
      <3>2. c # b BY <3>1
      <3>3. c.id # req[r].found BY <1>0, <3>1, <3>2 DEF Names
      <3> QED BY <2>3, <3>3 DEF Without
    <2>4. CASE Target(r) = s /\ req[r].pc = "drop" /\ docker'[s].containers = Without(s, Own(r))
      <3>1. c.id # Own(r) BY <1>0, <1>r, <2>4 DEF Pending
      <3> QED BY <2>4, <3>1 DEF Without
    <2> QED BY <2>1, <2>2, <2>3, <2>4 DEF EditDocker
  <1>5. ASSUME NEW r \in Requests, Delete(r) PROVE docker'[s].containers = docker[s].containers
    <2>1. Deleting(r) /\ \A t \in Servers \ {Target(r)} : docker'[t] = docker[t] BY <1>0, <1>5, DeleteFrame
    <2>2. Target(r) # s BY <1>0, <2>1 DEF Handlers, Whole, Marks
    <2> QED BY <2>1, <2>2
  <1>6. ASSUME NEW r \in Requests, Begin(r) PROVE docker' = docker BY <1>6 DEF Begin, LoadRow, BeginDelete
  <1>7. ASSUME NEW r \in Requests, Begin(r) \/ Handle(r) \/ Disturb(r)
        PROVE  \E d \in docker'[s].containers : d.id = c.id
    <2>1. Begin(r) \/ Edit(r) \/ Delete(r) BY <1>7 DEF Handle, Disturb, Edit, Delete
    <2> QED BY <1>1, <1>4, <1>5, <1>6, <2>1
  <1>8. CASE EngineCrash \/ UNCHANGED vars BY <1>1, <1>8 DEF EngineCrash, vars
  <1> QED BY <1>2, <1>3, <1>7, <1>8 DEF Next

\* Until a deletion begins or a removal is taken for a failed one, no step removes a
\* container that runs: what an edit removes does not run at that moment, and its own
\* replacement, removed by force, was never started.
THEOREM RunningContainerKept == Spec => RunningKept
  <1>1. KeepInv /\ [Next]_vars =>
          [\A s \in Servers : \A c \in docker[s].containers :
              c.running /\ odd[s] \cap {"deletion", "lost"} = {}
                => \E d \in docker'[s].containers : d.id = c.id]_vars
    BY RunningStep DEF Whole, Marks
  <1> QED BY <1>1, KeepInit, KeepStep, PTL DEF Spec, RunningKept
-----------------------------------------------------------------------------
(* The resources of one server: what is left of them, and whether the row  *)
(* describes the container.  All is said of one server at a time.          *)

\* The handler r is at work on s.
On(r, s) == InFlight(r) /\ Target(r) = s

\* The resources besides the runtime containers, in this state and in the next.
Has(s, network, volume, helper) ==
  docker[s].network = network /\ docker[s].volume = volume /\ docker[s].helper = helper

Empty(s) == docker[s].containers = {} /\ Has(s, FALSE, "none", {})

\* A step that is not about s.
Untouched(s) ==
  /\ row'[s] = row[s] /\ job'[s] = job[s] /\ docker'[s] = docker[s] /\ odd'[s] = odd[s]
  /\ \A q \in Requests : (On(q, s)' <=> On(q, s)) /\ (On(q, s) => req'[q] = req[q])

\* A container mounts the volume, which exists.
MountsAt(s) == docker[s].containers # {} => docker[s].volume # "none"

\* As long as nothing overlapped, one handler at most is at work on s, and neither
\* provisioning nor power meanwhile; a deletion has removed what it is past; and
\* nothing is left of a deleted server, nor done to it.
AloneAt(s) ==
  "overlap" \notin odd[s] =>
    /\ \A q, r \in Requests : On(q, s) /\ On(r, s) => q = r
    /\ Busy(s) => ~AtWork(s) /\ ~Powering(s)
    /\ row[s].deleted = TRUE => ~Busy(s) /\ ~AtWork(s) /\ ~Powering(s) /\ Empty(s)
    /\ \A r \in Requests : On(r, s) =>
         /\ req[r].pc \in {"dContainer", "dNetwork", "dVolume"} => docker[s].helper = {}
         /\ req[r].pc = "dVolume" => docker[s].network = FALSE
         /\ req[r].pc = "dFinal" => Empty(s)

\* The container provisioning makes, when it runs and when it does not.
Runtime(s, running) == [id |-> s, config |-> row[s].config, running |-> running]

\* As long as nothing odd happened, what provisioning has made up to each of its steps.
BuildingAt(s) ==
  /\ job[s].pc \in {"find", "volume", "network", "installer", "wait", "owner", "create", "start", "ok"}
       => job[s].config = row[s].config
  /\ odd[s] = {} =>
     /\ job[s].pc \in {"none", "queued", "find", "volume", "error", "gaveUp"} => Empty(s)
     /\ job[s].pc \in {"network", "installer", "wait", "owner", "create"} => docker[s].containers = {}
     /\ job[s].pc = "network" => Has(s, FALSE, "empty", {})
     /\ job[s].pc = "installer" => Has(s, TRUE, "empty", {})
     /\ job[s].pc = "wait" => Has(s, TRUE, "empty", {"installer"})
     /\ job[s].pc \in {"owner", "create", "start", "ok"} => Has(s, TRUE, "installed", {})
     /\ job[s].pc = "start" => docker[s].containers = {Runtime(s, FALSE)}
     /\ job[s].pc = "ok" => \/ docker[s].containers = {Runtime(s, TRUE)} /\ job[s].state = "running"
                            \/ docker[s].containers = {Runtime(s, FALSE)} /\ job[s].state = "stopped"
     /\ job[s].pc = "gaveUp" => row[s].status # "stopped"
     /\ job[s].pc = "done" => docker[s].network = TRUE /\ docker[s].volume = "installed"

\* The container that an edit is to replace is the one its row describes; the one that a
\* rollback replaces need not be.
Fits(r, c) == req[r].phase = "apply" => Describes(Target(r), c)

\* What an edit finds and leaves in Docker at each of its steps.
Replaces(r) ==
  LET s == Target(r)
  IN  /\ req[r].pc \in {"ports", "find", "create"} =>
           \E c \in docker[s].containers :
             /\ docker[s].containers = {c} /\ Fits(r, c) /\ c.running = FALSE
             /\ req[r].pc = "create" => c.id = req[r].found
      /\ req[r].pc \in {"remove", "drop"} =>
           \E c \in docker[s].containers :
             /\ docker[s].containers = {c, Replacement(r)} /\ Fits(r, c) /\ c.running = FALSE
             /\ c.id = req[r].found /\ c.id # Own(r)
      /\ req[r].pc = "commit" => docker[s].containers = {Replacement(r)}

\* The only container of s is the one its row describes.
Described(s) ==
  \E c \in docker[s].containers :
    /\ docker[s].containers = {c} /\ Describes(s, c)
    /\ row[s].status \in {"stopped", "starting", "failed"} => c.running = FALSE
    /\ row[s].status = "running" => c.running = TRUE

\* As long as nothing odd happened it is, when no handler is at work; and an edit finds
\* the row as it has read it.
MatchingAt(s) ==
  odd[s] = {} =>
    /\ job[s].pc = "done" /\ ~Busy(s) => Described(s)
    /\ \A r \in Requests : On(r, s) =>
         /\ Editing(r) /\ job[s].pc = "done" /\ row[s].status = "stopped"
         /\ req[r].version = row[s].version /\ Replaces(r)

LeftAt(s) == MountsAt(s) /\ AloneAt(s) /\ BuildingAt(s) /\ MatchingAt(s)

LeftInv == KeepInv /\ VersionVouches /\ \A s \in Servers : LeftAt(s)

-----------------------------------------------------------------------------
(* Steps that are about another server.                                    *)

\* Nothing changes for a server that a step is not about.
LEMMA UntouchedKeeps ==
  ASSUME NEW s \in Servers, LeftAt(s), Untouched(s)
  PROVE  LeftAt(s)'
  <1>1. /\ row'[s] = row[s] /\ job'[s] = job[s] /\ docker'[s] = docker[s] /\ odd'[s] = odd[s]
        /\ \A q \in Requests : (On(q, s)' <=> On(q, s)) /\ (On(q, s) => req'[q] = req[q])
    BY DEF Untouched
  <1>2. Busy(s)' <=> Busy(s)
    <2>1. Busy(s) <=> \E q \in Requests : On(q, s) BY DEF Busy, On, Target
    <2>2. Busy(s)' <=> \E q \in Requests : On(q, s)' BY DEF Busy, On, Target
    <2> QED BY <1>1, <2>1, <2>2
  <1>3. MountsAt(s)' BY <1>1 DEF LeftAt, MountsAt
  <1>4. AloneAt(s)' BY <1>1, <1>2 DEF LeftAt, AloneAt, AtWork, Powering, Empty, Has
  <1>5. BuildingAt(s)' BY <1>1 DEF LeftAt, BuildingAt, Empty, Has, Runtime
  <1>6. MatchingAt(s)'
    <2>1. Described(s)' <=> Described(s) BY <1>1 DEF Described, Describes
    <2>2. ASSUME NEW q \in Requests, On(q, s), Replaces(q) PROVE Replaces(q)'
      <3>1. req'[q] = req[q] /\ Target(q) = s /\ Target(q)' = s BY <1>1, <2>2 DEF On, Target
      <3>2. Replacement(q)' = Replacement(q) /\ Own(q)' = Own(q)
        BY <1>1, <3>1 DEF Replacement, Asked, Own
      <3>3. \A c : Fits(q, c)' <=> Fits(q, c) BY <1>1, <3>1 DEF Fits, Describes
      <3> QED BY <1>1, <2>2, <3>1, <3>2, <3>3 DEF Replaces
    <2>3. \A q \in Requests : On(q, s) => (Editing(q)' <=> Editing(q)) BY <1>1 DEF Editing
    <2> QED BY <1>1, <1>2, <2>1, <2>2, <2>3 DEF LeftAt, MatchingAt
  <1> QED BY <1>3, <1>4, <1>5, <1>6 DEF LeftAt

\* Creation and provisioning mark nothing, but for the claim of an event and for faults.
LEMMA Unmarked ==
  ASSUME NEW s \in Servers, (\E start \in BOOLEAN : CreateServer(s, start)) \/ Provision(s), ~ClaimProvision(s)
  PROVE  odd' = odd
  <1>1. (\E start \in BOOLEAN : CreateServer(s, start)) => odd' = odd BY DEF CreateServer
  <1>2. FindProvisioned(s) \/ FindUnprovisioned(s) \/ CreateVolume(s) \/ CreateNetwork(s) => odd' = odd
    BY DEF FindProvisioned, FindUnprovisioned, CreateVolume, CreateNetwork, ProvisionStep
  <1>3. StartInstaller(s) \/ SkipInstaller(s) \/ FinishInstaller(s) \/ InitializeOwnership(s) => odd' = odd
    BY DEF StartInstaller, SkipInstaller, FinishInstaller, InitializeOwnership, ProvisionStep
  <1>4. CreateRuntime(s) \/ StartRuntime(s) \/ FailProvision(s) \/ MarkProvisionSucceeded(s) => odd' = odd
    BY DEF CreateRuntime, StartRuntime, FailProvision, MarkProvisionSucceeded, ProvisionStep
  <1>5. RetryProvision(s) \/ MarkProvisionFailed(s) => odd' = odd BY DEF RetryProvision, MarkProvisionFailed
  <1> QED BY <1>1, <1>2, <1>3, <1>4, <1>5 DEF Provision

\* An edit is about one server.
LEMMA EditOwn ==
  ASSUME TypeOK, NEW r \in Requests, Edit(r), NEW s \in Servers, Target(r) # s
  PROVE  row'[s] = row[s] /\ docker'[s] = docker[s] /\ odd'[s] = odd[s]
  <1>0. /\ req \in [Requests -> Request] /\ row \in [Servers -> Row]
        /\ docker \in [Servers -> Resources] /\ Target(r) \in Servers
    BY DEF TypeOK, Target, Request
  <1>1. docker'[s] = docker[s]
    <2>1. ASSUME NEW x, docker' = [docker EXCEPT ![Target(r)] = x] PROVE docker'[s] = docker[s]
      BY <1>0, <2>1
    <2>2. ASSUME NEW C, docker' = [docker EXCEPT ![Target(r)].containers = C] PROVE docker'[s] = docker[s]
      BY <1>0, <2>2
    <2>3. CASE CreateReplacement(r) BY <2>1, <2>3 DEF CreateReplacement
    <2>4. CASE RemoveReplaced(r) BY <2>2, <2>4 DEF RemoveReplaced
    <2>5. CASE DropReplacement(r) BY <2>2, <2>5 DEF DropReplacement
    <2>6. CASE LoseRemoval(r) BY <2>2, <2>6 DEF LoseRemoval
    <2>7. CASE ~CreateReplacement(r) /\ ~RemoveReplaced(r) /\ ~DropReplacement(r) /\ ~LoseRemoval(r)
      <3>1. (\E ports \in SUBSET HostPorts : LoadPorts(r, ports)) => docker' = docker BY DEF LoadPorts
      <3>2. FindReplaced(r) \/ FindRefused(r) \/ RemoveRefused(r) \/ Commit(r) => docker' = docker
        BY DEF FindReplaced, FindRefused, RemoveRefused, Commit
      <3>3. CommitConflict(r) \/ FailReplace(r) \/ FailDrop(r) \/ FailCommit(r) \/ Abort(r) => docker' = docker
        BY DEF CommitConflict, FailReplace, FailDrop, FailCommit, Abort
      <3> QED BY <2>7, <3>1, <3>2, <3>3 DEF Edit
    <2> QED BY <2>3, <2>4, <2>5, <2>6, <2>7
  <1>2. row'[s] = row[s]
    <2>1. ASSUME NEW x, row' = [row EXCEPT ![Target(r)] = x] PROVE row'[s] = row[s] BY <1>0, <2>1
    <2>2. CASE Commit(r) BY <2>1, <2>2 DEF Commit
    <2>3. CASE ~Commit(r)
      <3>1. (\E ports \in SUBSET HostPorts : LoadPorts(r, ports)) => row' = row BY DEF LoadPorts
      <3>2. FindReplaced(r) \/ FindRefused(r) \/ CreateReplacement(r) \/ RemoveReplaced(r) => row' = row
        BY DEF FindReplaced, FindRefused, CreateReplacement, RemoveReplaced
      <3>3. RemoveRefused(r) \/ DropReplacement(r) \/ CommitConflict(r) \/ FailReplace(r) => row' = row
        BY DEF RemoveRefused, DropReplacement, CommitConflict, FailReplace
      <3>4. LoseRemoval(r) \/ FailDrop(r) \/ FailCommit(r) \/ Abort(r) => row' = row
        BY DEF LoseRemoval, FailDrop, FailCommit, Abort
      <3> QED BY <2>3, <3>1, <3>2, <3>3, <3>4 DEF Edit
    <2> QED BY <2>2, <2>3
  <1>3. odd'[s] = odd[s]
    <2>1. ASSUME NEW what, Mark(Target(r), what) PROVE odd'[s] = odd[s] BY <1>0, <2>1, MarkOwn
    <2>2. Refused(r) => odd'[s] = odd[s] BY <2>1 DEF Refused
    <2>3. CASE LoseRemoval(r) BY <2>1, <2>3 DEF LoseRemoval
    <2>4. CASE FailDrop(r) \/ Abort(r) BY <2>1, <2>4 DEF FailDrop, Abort
    <2>5. CASE FindRefused(r) \/ DropReplacement(r) \/ FailReplace(r)
      BY <2>2, <2>5 DEF FindRefused, DropReplacement, FailReplace
    <2>6. CASE ~LoseRemoval(r) /\ ~FailDrop(r) /\ ~Abort(r) /\ ~FindRefused(r) /\ ~DropReplacement(r) /\ ~FailReplace(r)
      <3>1. (\E ports \in SUBSET HostPorts : LoadPorts(r, ports)) => odd' = odd BY DEF LoadPorts
      <3>2. FindReplaced(r) \/ CreateReplacement(r) \/ RemoveReplaced(r) \/ RemoveRefused(r) => odd' = odd
        BY DEF FindReplaced, CreateReplacement, RemoveReplaced, RemoveRefused
      <3>3. Commit(r) \/ CommitConflict(r) \/ FailCommit(r) => odd' = odd
        BY DEF Commit, CommitConflict, FailCommit
      <3> QED BY <2>6, <3>1, <3>2, <3>3 DEF Edit
    <2> QED BY <2>3, <2>4, <2>5, <2>6
  <1> QED BY <1>1, <1>2, <1>3

\* Creation, provisioning and power are about one server.
LEMMA OtherServers ==
  ASSUME KeepInv, NEW s \in Servers, NEW t \in Servers \ {s},
         \/ \E start \in BOOLEAN : CreateServer(t, start)
         \/ Provision(t) \/ ProvisionFault(t) \/ Power(t)
  PROVE  Untouched(s)
  <1>0. TypeOK BY DEF KeepInv
  <1>1. req' = req BY RequestsKept
  <1>2. row'[s] = row[s] /\ job'[s] = job[s] /\ docker'[s] = docker[s]
    <2>1. CASE ProvisionShape(t) BY <2>1 DEF ProvisionShape
    <2>2. CASE PowerShape(t) BY <2>2 DEF PowerShape
    <2> QED BY <1>0, <2>1, <2>2, ProvisionShapes, PowerShapes
  <1>3. odd'[s] = odd[s]
    <2>1. CASE UNCHANGED odd BY <2>1
    <2>2. ASSUME NEW what, Mark(t, what) PROVE odd'[s] = odd[s] BY <1>0, <2>2, MarkOwn
    <2>3. CASE ClaimProvision(t) BY <2>2, <2>3 DEF ClaimProvision
    <2>4. CASE ProvisionFault(t) BY <1>0, <2>4, FaultDoes
    <2>5. ASSUME NEW from, NEW to, RequestPower(t, from, to) PROVE odd'[s] = odd[s]
      BY <2>2, <2>5 DEF RequestPower
    <2>6. CASE Power(t)
      BY <2>1, <2>5, <2>6 DEF Power, Start, Stop, FinishStart, FinishStop, FinishPower
    <2>7. CASE ~ClaimProvision(t) /\ ~ProvisionFault(t) /\ ~Power(t) BY <2>1, <2>7, Unmarked
    <2> QED BY <2>3, <2>4, <2>6, <2>7
  <1>4. \A q \in Requests : On(q, s)' <=> On(q, s) BY <1>1 DEF On, InFlight, Target
  <1> QED BY <1>1, <1>2, <1>3, <1>4 DEF Untouched

\* A handler is at work on one server.
LEMMA OtherHandlers ==
  ASSUME KeepInv, NEW s \in Servers, NEW r \in Requests, Edit(r) \/ Delete(r), Target(r) # s
  PROVE  Untouched(s)
  <1>0. /\ TypeOK /\ Handlers /\ req \in [Requests -> Request] /\ row \in [Servers -> Row]
        /\ docker \in [Servers -> Resources] /\ Target(r) \in Servers
    BY DEF KeepInv, TypeOK, Target, Request
  <1>1. CASE Delete(r)
    <2>1. /\ Deleting(r) /\ odd' = odd /\ job' = job
          /\ \A q \in Requests \ {r} : req'[q] = req[q]
          /\ req'[r].pc = "done" \/ req'[r].server = req[r].server
          /\ docker'[s] = docker[s] /\ row'[s] = row[s]
      BY <1>0, <1>1, DeleteFrame
    <2>2. \A q \in Requests : On(q, s)' <=> On(q, s) BY <2>1 DEF On, InFlight, Target
    <2> QED BY <2>1, <2>2 DEF Untouched, On
  <1>2. CASE Edit(r)
    <2>1. /\ Progress(r) /\ \A q \in Requests \ {r} : req'[q] = req[q]
          /\ job' = job
      BY <1>0, <1>2, EditFrame
    <2>2. req'[r].pc = "done" \/ req'[r].server = req[r].server BY <2>1 DEF Progress
    <2>3. \A q \in Requests : On(q, s)' <=> On(q, s) BY <2>1, <2>2 DEF On, InFlight, Target
    <2>4. row'[s] = row[s] /\ docker'[s] = docker[s] /\ odd'[s] = odd[s] BY <1>0, <1>2, EditOwn
    <2> QED BY <2>1, <2>3, <2>4 DEF Untouched, On
  <1> QED BY <1>1, <1>2

-----------------------------------------------------------------------------
(* Provisioning and what it leaves.                                        *)

\* A busy server has a handler at work on it.
LEMMA BusyOn == \A s : Busy(s) <=> \E r \in Requests : On(r, s)
BY DEF Busy, On, Target

\* With no handler at work on a server that is not deleted there is nothing to say.
LEMMA QuietAlone ==
  ASSUME NEW s \in Servers, "overlap" \notin odd'[s] => ~Busy(s)' /\ row'[s].deleted = FALSE
  PROVE  AloneAt(s)'
  <1>1. Busy(s)' <=> \E r \in Requests : On(r, s)' BY DEF Busy, On, Target
  <1> QED BY <1>1 DEF AloneAt

\* A step of provisioning from one place to another that leaves these resources.
Built(s, from, to, C, n, v, h) ==
  /\ job[s].pc = from /\ job'[s].pc = to /\ job'[s].config = job[s].config
  /\ row'[s] = row[s] /\ odd'[s] = odd[s]
  /\ docker'[s].containers = C /\ docker'[s].network = n /\ docker'[s].volume = v /\ docker'[s].helper = h

\* What each step of provisioning makes.
LEMMA Builds ==
  ASSUME TypeOK, NEW s \in Servers
  PROVE  LET d == docker[s]
             C == d.containers
         IN  /\ FindUnprovisioned(s) => Built(s, "find", "volume", C, d.network, d.volume, d.helper)
             /\ CreateVolume(s) => Built(s, "volume", "network", C, d.network, Mounted(d.volume), d.helper)
             /\ CreateNetwork(s) => Built(s, "network", "installer", C, TRUE, d.volume, d.helper)
             /\ StartInstaller(s) =>
                  Built(s, "installer", "wait", C, d.network, Mounted(d.volume), d.helper \cup {"installer"})
             /\ SkipInstaller(s) =>
                  Built(s, "installer", "owner", C, d.network,
                        IF d.volume = "none" THEN "none" ELSE "installed", d.helper)
             /\ FinishInstaller(s) =>
                  Built(s, "wait", "owner", C, d.network, "installed", d.helper \ {"installer"})
             /\ InitializeOwnership(s) => Built(s, "owner", "create", C, d.network, Mounted(d.volume), d.helper)
             /\ CreateRuntime(s) =>
                  /\ Built(s, "create", "start", {[id |-> s, config |-> job[s].config, running |-> FALSE]},
                           d.network, Mounted(d.volume), d.helper)
                  /\ C = {}
             /\ RetryProvision(s) => Built(s, "error", "queued", C, d.network, d.volume, d.helper)
             /\ FailProvision(s) =>
                  Built(s, job[s].pc, "error", Cleaned(s).containers, Cleaned(s).network, Cleaned(s).volume,
                        Cleaned(s).helper)
  <1>0. job \in [Servers -> Job] /\ docker \in [Servers -> Resources] BY DEF TypeOK
  <1>1. ASSUME NEW pc, job' = [job EXCEPT ![s].pc = pc]
        PROVE  job'[s].pc = pc /\ job'[s].config = job[s].config
    BY <1>0, <1>1 DEF Job
  <1>2. ASSUME NEW from, NEW to, ProvisionStep(s, from, to)
        PROVE  /\ job[s].pc = from /\ job'[s].pc = to /\ job'[s].config = job[s].config
               /\ row'[s] = row[s] /\ odd'[s] = odd[s]
    BY <1>1, <1>2 DEF ProvisionStep, Provisioning
  <1>v. ASSUME NEW v, docker' = [docker EXCEPT ![s] = [docker[s] EXCEPT !.volume = v]]
        PROVE  /\ docker'[s].containers = docker[s].containers /\ docker'[s].network = docker[s].network
               /\ docker'[s].volume = v /\ docker'[s].helper = docker[s].helper
    <2>1. docker'[s] = [docker[s] EXCEPT !.volume = v] BY <1>0, <1>v
    <2> QED BY <1>0, <2>1 DEF Resources
  <1>n. ASSUME NEW n, docker' = [docker EXCEPT ![s] = [docker[s] EXCEPT !.network = n]]
        PROVE  /\ docker'[s].containers = docker[s].containers /\ docker'[s].network = n
               /\ docker'[s].volume = docker[s].volume /\ docker'[s].helper = docker[s].helper
    <2>1. docker'[s] = [docker[s] EXCEPT !.network = n] BY <1>0, <1>n
    <2> QED BY <1>0, <2>1 DEF Resources
  <1>h. ASSUME NEW h, NEW v, docker' = [docker EXCEPT ![s] = [docker[s] EXCEPT !.helper = h, !.volume = v]]
        PROVE  /\ docker'[s].containers = docker[s].containers /\ docker'[s].network = docker[s].network
               /\ docker'[s].volume = v /\ docker'[s].helper = h
    <2>1. docker'[s] = [docker[s] EXCEPT !.helper = h, !.volume = v] BY <1>0, <1>h
    <2> QED BY <1>0, <2>1 DEF Resources
  <1>c. ASSUME NEW C, NEW v, docker' = [docker EXCEPT ![s] = [docker[s] EXCEPT !.containers = C, !.volume = v]]
        PROVE  /\ docker'[s].containers = C /\ docker'[s].network = docker[s].network
               /\ docker'[s].volume = v /\ docker'[s].helper = docker[s].helper
    <2>1. docker'[s] = [docker[s] EXCEPT !.containers = C, !.volume = v] BY <1>0, <1>c
    <2> QED BY <1>0, <2>1 DEF Resources
  <1>5. ASSUME FindUnprovisioned(s)
        PROVE  Built(s, "find", "volume", docker[s].containers, docker[s].network, docker[s].volume, docker[s].helper)
    BY <1>2, <1>5 DEF FindUnprovisioned, Built
  <1>6. ASSUME CreateVolume(s)
        PROVE  Built(s, "volume", "network", docker[s].containers, docker[s].network, Mounted(docker[s].volume),
                     docker[s].helper)
    <2> DEFINE v == Mounted(docker[s].volume)
    <2>1. docker' = [docker EXCEPT ![s] = [docker[s] EXCEPT !.volume = v]] BY <1>0, <1>6 DEF CreateVolume, Mounted
    <2>2. ProvisionStep(s, "volume", "network") BY <1>6 DEF CreateVolume
    <2> HIDE DEF v
    <2>3. Built(s, "volume", "network", docker[s].containers, docker[s].network, v, docker[s].helper)
      BY <1>2, <1>v, <2>1, <2>2 DEF Built
    <2> QED BY <2>3 DEF v
  <1>7. ASSUME CreateNetwork(s)
        PROVE  Built(s, "network", "installer", docker[s].containers, TRUE, docker[s].volume, docker[s].helper)
    <2>1. docker' = [docker EXCEPT ![s] = [docker[s] EXCEPT !.network = TRUE]] BY <1>0, <1>7 DEF CreateNetwork
    <2>2. ProvisionStep(s, "network", "installer") BY <1>7 DEF CreateNetwork
    <2> QED BY <1>2, <1>n, <2>1, <2>2 DEF Built
  <1>8. ASSUME StartInstaller(s)
        PROVE  Built(s, "installer", "wait", docker[s].containers, docker[s].network, Mounted(docker[s].volume),
                     docker[s].helper \cup {"installer"})
    <2> DEFINE v == Mounted(docker[s].volume)
    <2>1. docker' = [docker EXCEPT ![s] = [docker[s] EXCEPT !.helper = docker[s].helper \cup {"installer"}, !.volume = v]]
      BY <1>0, <1>8 DEF StartInstaller
    <2>2. ProvisionStep(s, "installer", "wait") BY <1>8 DEF StartInstaller
    <2> HIDE DEF v
    <2>3. Built(s, "installer", "wait", docker[s].containers, docker[s].network, v,
                docker[s].helper \cup {"installer"})
      BY <1>2, <1>h, <2>1, <2>2 DEF Built
    <2> QED BY <2>3 DEF v
  <1>9. ASSUME SkipInstaller(s)
        PROVE  Built(s, "installer", "owner", docker[s].containers, docker[s].network,
                     IF docker[s].volume = "none" THEN "none" ELSE "installed", docker[s].helper)
    <2> DEFINE v == IF docker[s].volume = "none" THEN "none" ELSE "installed"
    <2>1. docker' = [docker EXCEPT ![s] = [docker[s] EXCEPT !.volume = v]] BY <1>0, <1>9 DEF SkipInstaller
    <2>2. ProvisionStep(s, "installer", "owner") BY <1>9 DEF SkipInstaller
    <2> HIDE DEF v
    <2>3. Built(s, "installer", "owner", docker[s].containers, docker[s].network, v, docker[s].helper)
      BY <1>2, <1>v, <2>1, <2>2 DEF Built
    <2> QED BY <2>3 DEF v
  <1>10. ASSUME FinishInstaller(s)
         PROVE  Built(s, "wait", "owner", docker[s].containers, docker[s].network, "installed",
                      docker[s].helper \ {"installer"})
    <2>1. docker' = [docker EXCEPT ![s] = [docker[s] EXCEPT !.helper = docker[s].helper \ {"installer"}, !.volume = "installed"]]
      BY <1>0, <1>10 DEF FinishInstaller
    <2>2. ProvisionStep(s, "wait", "owner") BY <1>10 DEF FinishInstaller
    <2> QED BY <1>2, <1>h, <2>1, <2>2 DEF Built
  <1>11. ASSUME InitializeOwnership(s)
         PROVE  Built(s, "owner", "create", docker[s].containers, docker[s].network, Mounted(docker[s].volume),
                      docker[s].helper)
    <2> DEFINE v == Mounted(docker[s].volume)
    <2>1. docker' = [docker EXCEPT ![s] = [docker[s] EXCEPT !.volume = v]] BY <1>0, <1>11 DEF InitializeOwnership
    <2>2. ProvisionStep(s, "owner", "create") BY <1>11 DEF InitializeOwnership
    <2> HIDE DEF v
    <2>3. Built(s, "owner", "create", docker[s].containers, docker[s].network, v, docker[s].helper)
      BY <1>2, <1>v, <2>1, <2>2 DEF Built
    <2> QED BY <2>3 DEF v
  <1>12. ASSUME CreateRuntime(s)
         PROVE  /\ Built(s, "create", "start", {[id |-> s, config |-> job[s].config, running |-> FALSE]},
                         docker[s].network, Mounted(docker[s].volume), docker[s].helper)
                /\ docker[s].containers = {}
    <2> DEFINE v == Mounted(docker[s].volume)
               C == {[id |-> s, config |-> job[s].config, running |-> FALSE]}
    <2>1. docker' = [docker EXCEPT ![s] = [docker[s] EXCEPT !.containers = C, !.volume = v]]
      BY <1>0, <1>12 DEF CreateRuntime
    <2>2. ProvisionStep(s, "create", "start") /\ docker[s].containers = {} BY <1>12 DEF CreateRuntime
    <2> HIDE DEF v, C
    <2>3. Built(s, "create", "start", C, docker[s].network, v, docker[s].helper)
      BY <1>2, <1>c, <2>1, <2>2 DEF Built
    <2> QED BY <2>2, <2>3 DEF v, C
  <1>13. ASSUME RetryProvision(s)
         PROVE  Built(s, "error", "queued", docker[s].containers, docker[s].network, docker[s].volume, docker[s].helper)
    BY <1>1, <1>13 DEF RetryProvision, Provisioning, Built
  <1>14. ASSUME FailProvision(s)
         PROVE  Built(s, job[s].pc, "error", Cleaned(s).containers, Cleaned(s).network, Cleaned(s).volume,
                      Cleaned(s).helper)
    <2> DEFINE x == Cleaned(s)
    <2>1. docker' = [docker EXCEPT ![s] = x] /\ job' = [job EXCEPT ![s].pc = "error"] /\ row' = row /\ odd' = odd
      BY <1>14 DEF FailProvision
    <2> HIDE DEF x
    <2>3. docker'[s] = x BY <1>0, <2>1
    <2>2. Built(s, job[s].pc, "error", x.containers, x.network, x.volume, x.helper)
      BY <1>1, <2>1, <2>3 DEF Built
    <2> QED BY <2>2 DEF x
  <1> QED BY <1>5, <1>6, <1>7, <1>8, <1>9, <1>10, <1>11, <1>12, <1>13, <1>14

\* A container is its name, its configuration and whether it runs.
LEMMA SameContainer ==
  \A c, d \in Container : c.id = d.id /\ c.config = d.config /\ c.running = d.running => c = d
BY DEF Container

\* A failed provision call of a server nothing odd happened to leaves nothing.
LEMMA CleanedEmpty ==
  ASSUME TypeOK, NEW s \in Servers, BuildingAt(s), odd[s] = {},
         job[s].pc \in {"find", "volume", "network", "installer", "wait", "owner", "create", "start"}
  PROVE  /\ Cleaned(s).containers = {} /\ Cleaned(s).network = FALSE
         /\ Cleaned(s).volume = "none" /\ Cleaned(s).helper = {}
  <1> DEFINE C == {c \in docker[s].containers : ~(c.id = s /\ job[s].pc = "start")}
             h == IF job[s].pc = "wait" THEN docker[s].helper \ {"installer"} ELSE docker[s].helper
             n == docker[s].network /\ (job[s].pc \in {"installer", "wait", "owner", "create", "start"}
                                          => \E c \in C : c.running)
             v == IF job[s].pc \in {"find", "volume"} \/ h # {} \/ C # {} THEN docker[s].volume ELSE "none"
  <1>1. Cleaned(s) = [containers |-> C, helper |-> h, network |-> n, volume |-> v] BY DEF Cleaned, CleanedAfter
  <1>2. C = {}
    <2>1. Runtime(s, FALSE).id = s BY DEF Runtime
    <2>2. CASE job[s].pc = "start" BY <2>1, <2>2 DEF BuildingAt
    <2>3. CASE job[s].pc # "start"
      <3>1. docker[s].containers = {} BY <2>3 DEF BuildingAt, Empty
      <3> QED BY <3>1
    <2> QED BY <2>2, <2>3
  <1>3. h = {} BY DEF BuildingAt, Empty, Has
  <1>4. n = FALSE
    <2>1. job[s].pc \in {"find", "volume", "network"} => docker[s].network = FALSE BY DEF BuildingAt, Empty, Has
    <2> HIDE DEF h, C
    <2> QED BY <1>2, <1>3, <2>1
  <1>5. v = "none"
    <2>1. job[s].pc \in {"find", "volume"} => docker[s].volume = "none" BY DEF BuildingAt, Empty, Has
    <2> HIDE DEF h, C
    <2> QED BY <1>2, <1>3, <2>1
  <1> HIDE DEF h, C, n, v
  <1> QED BY <1>1, <1>2, <1>3, <1>4, <1>5

\* Nobody else is at work on a server that provisioning works on; until it is done the
\* row has no container to describe.
LEMMA WorkAlone ==
  ASSUME KeepInv, NEW s \in Servers, LeftAt(s), AtWork(s), req' = req, odd[s] \subseteq odd'[s],
         row'[s].deleted = row[s].deleted
  PROVE  /\ AloneAt(s)'
         /\ odd'[s] = {} => ~Busy(s)'
         /\ job'[s].pc # "done" => MatchingAt(s)'
  <1>1. row[s].deleted \in BOOLEAN BY DEF KeepInv, TypeOK, Row
  <1>2. "overlap" \notin odd'[s] => ~Busy(s) /\ row'[s].deleted = FALSE BY <1>1 DEF LeftAt, AloneAt
  <1>3. Busy(s)' <=> Busy(s) BY DEF Busy, InFlight
  <1>4. Busy(s)' <=> \E q \in Requests : On(q, s)' BY DEF Busy, On, Target
  <1>5. AloneAt(s)' BY <1>2, <1>3, QuietAlone
  <1> QED BY <1>2, <1>3, <1>4, <1>5 DEF MatchingAt

\* Creation and provisioning keep what is said of their server: at each step of a call
\* that nothing interferes with it has made just what it removes when it fails.
LEMMA ProvisionLeft ==
  ASSUME KeepInv, NEW s \in Servers, LeftAt(s),
         (\E start \in BOOLEAN : CreateServer(s, start)) \/ Provision(s) \/ ProvisionFault(s)
  PROVE  LeftAt(s)'
  <1>0. /\ TypeOK /\ Provisioned /\ job \in [Servers -> Job] /\ row \in [Servers -> Row]
        /\ docker \in [Servers -> Resources] /\ docker[s] \in Resources
        /\ MountsAt(s) /\ AloneAt(s) /\ BuildingAt(s) /\ MatchingAt(s)
    BY DEF KeepInv, TypeOK, LeftAt
  <1>r. req' = req BY RequestsKept
  <1>t. docker[s].volume \in {"none", "empty", "installed"} BY <1>0 DEF Resources
  <1>b. ASSUME NEW from \in {"find", "volume", "network", "installer", "wait", "owner", "create", "start", "error"},
               NEW to, to # "done", NEW C, NEW n, NEW v, NEW h, Built(s, from, to, C, n, v, h)
        PROVE  AloneAt(s)' /\ MatchingAt(s)'
    BY <1>b, <1>r, WorkAlone DEF Built, AtWork
  <1>1. CASE FindUnprovisioned(s)
    <2>1. Built(s, "find", "volume", docker[s].containers, docker[s].network, docker[s].volume, docker[s].helper)
      BY <1>0, <1>1, Builds
    <2>2. MountsAt(s)' BY <1>0, <2>1 DEF Built, MountsAt
    <2>3. BuildingAt(s)' BY <1>0, <2>1 DEF Built, BuildingAt, Empty, Has
    <2> QED BY <1>b, <2>1, <2>2, <2>3 DEF LeftAt
  <1>2. CASE CreateVolume(s)
    <2>1. Built(s, "volume", "network", docker[s].containers, docker[s].network, Mounted(docker[s].volume),
                docker[s].helper)
      BY <1>0, <1>2, Builds
    <2>2. MountsAt(s)' BY <1>0, <2>1 DEF Built, MountsAt, Mounted
    <2>3. BuildingAt(s)' BY <1>0, <2>1 DEF Built, BuildingAt, Empty, Has, Mounted
    <2> QED BY <1>b, <2>1, <2>2, <2>3 DEF LeftAt
  <1>3. CASE CreateNetwork(s)
    <2>1. Built(s, "network", "installer", docker[s].containers, TRUE, docker[s].volume, docker[s].helper)
      BY <1>0, <1>3, Builds
    <2>2. MountsAt(s)' BY <1>0, <2>1 DEF Built, MountsAt
    <2>3. BuildingAt(s)' BY <1>0, <2>1 DEF Built, BuildingAt, Empty, Has
    <2> QED BY <1>b, <2>1, <2>2, <2>3 DEF LeftAt
  <1>4. CASE StartInstaller(s)
    <2>1. Built(s, "installer", "wait", docker[s].containers, docker[s].network, Mounted(docker[s].volume),
                     docker[s].helper \cup {"installer"})
      BY <1>0, <1>4, Builds
    <2>2. MountsAt(s)' BY <1>0, <2>1 DEF Built, MountsAt, Mounted
    <2>3. BuildingAt(s)' BY <1>0, <2>1 DEF Built, BuildingAt, Empty, Has, Mounted
    <2> QED BY <1>b, <2>1, <2>2, <2>3 DEF LeftAt
  <1>5. CASE SkipInstaller(s)
    <2>1. Built(s, "installer", "owner", docker[s].containers, docker[s].network,
                IF docker[s].volume = "none" THEN "none" ELSE "installed", docker[s].helper)
      BY <1>0, <1>5, Builds
    <2>2. MountsAt(s)' BY <1>0, <2>1 DEF Built, MountsAt
    <2>3. BuildingAt(s)' BY <1>0, <2>1 DEF Built, BuildingAt, Empty, Has
    <2> QED BY <1>b, <2>1, <2>2, <2>3 DEF LeftAt
  <1>6. CASE FinishInstaller(s)
    <2>1. Built(s, "wait", "owner", docker[s].containers, docker[s].network, "installed",
                      docker[s].helper \ {"installer"})
      BY <1>0, <1>6, Builds
    <2>2. MountsAt(s)' BY <2>1 DEF Built, MountsAt
    <2>3. BuildingAt(s)' BY <1>0, <2>1 DEF Built, BuildingAt, Empty, Has
    <2> QED BY <1>b, <2>1, <2>2, <2>3 DEF LeftAt
  <1>7. CASE InitializeOwnership(s)
    <2>1. Built(s, "owner", "create", docker[s].containers, docker[s].network, Mounted(docker[s].volume),
                docker[s].helper)
      BY <1>0, <1>7, Builds
    <2>2. MountsAt(s)' BY <1>0, <2>1 DEF Built, MountsAt, Mounted
    <2>3. BuildingAt(s)' BY <1>0, <2>1 DEF Built, BuildingAt, Empty, Has, Mounted
    <2> QED BY <1>b, <2>1, <2>2, <2>3 DEF LeftAt
  <1>8. CASE CreateRuntime(s)
    <2>1. /\ Built(s, "create", "start", {[id |-> s, config |-> job[s].config, running |-> FALSE]},
                   docker[s].network, Mounted(docker[s].volume), docker[s].helper)
          /\ docker[s].containers = {}
      BY <1>0, <1>8, Builds
    <2>2. MountsAt(s)' BY <2>1 DEF Built, MountsAt, Mounted
    <2>3. job[s].config = row[s].config BY <1>0, <2>1 DEF Built, BuildingAt
    <2>4. Runtime(s, FALSE)' = [id |-> s, config |-> job[s].config, running |-> FALSE]
      BY <2>1, <2>3 DEF Built, Runtime
    <2>5. BuildingAt(s)' BY <1>0, <2>1, <2>3, <2>4 DEF Built, BuildingAt, Empty, Has, Mounted
    <2> QED BY <1>b, <2>1, <2>2, <2>5 DEF LeftAt
  <1>9. CASE RetryProvision(s)
    <2>1. Built(s, "error", "queued", docker[s].containers, docker[s].network, docker[s].volume, docker[s].helper)
      BY <1>0, <1>9, Builds
    <2>2. MountsAt(s)' BY <1>0, <2>1 DEF Built, MountsAt
    <2>3. BuildingAt(s)' BY <1>0, <2>1 DEF Built, BuildingAt, Empty, Has
    <2> QED BY <1>b, <2>1, <2>2, <2>3 DEF LeftAt
  <1>10. CASE FailProvision(s)
    <2>1. Built(s, job[s].pc, "error", Cleaned(s).containers, Cleaned(s).network, Cleaned(s).volume, Cleaned(s).helper)
      BY <1>0, <1>10, Builds
    <2>2. job[s].pc \in {"find", "volume", "network", "installer", "wait", "owner", "create", "start"}
      BY <1>10 DEF FailProvision
    <2>3. MountsAt(s)'
      <3>1. Cleaned(s).containers # {} => docker[s].containers # {} /\ Cleaned(s).volume = docker[s].volume
        BY DEF Cleaned, CleanedAfter
      <3> QED BY <1>0, <2>1, <3>1 DEF Built, MountsAt
    <2>4. BuildingAt(s)'
      <3>1. odd'[s] = {} => Empty(s)' BY <1>0, <2>1, <2>2, CleanedEmpty DEF Built, Empty, Has
      <3> QED BY <2>1, <3>1 DEF Built, BuildingAt
    <2> QED BY <1>b, <2>1, <2>2, <2>3, <2>4 DEF LeftAt
  <1>11. CASE ClaimProvision(s)
    <2> DEFINE a == job[s].attempts + 1
               k == row[s].config
               b == row[s].start
    <2>1. /\ job' = [job EXCEPT ![s] = [@ EXCEPT !.pc = "find", !.attempts = a, !.config = k, !.start = b]]
          /\ job[s].pc = "queued" /\ row' = row /\ docker' = docker /\ row[s].deleted = FALSE
      BY <1>0, <1>11 DEF ClaimProvision, Row
    <2> HIDE DEF a, k, b
    <2>2. job'[s] = [job[s] EXCEPT !.pc = "find", !.attempts = a, !.config = k, !.start = b] BY <1>0, <2>1
    <2>3. job'[s].pc = "find" /\ job'[s].config = k BY <1>0, <2>2 DEF Job
    <2>4. odd'[s] = odd[s] \cup IF Busy(s) THEN {"overlap"} ELSE {} BY <1>0, <1>11, MarkOwn DEF ClaimProvision
    <2>5. Busy(s)' <=> Busy(s) BY <1>r DEF Busy, InFlight
    <2>6. MountsAt(s)' BY <1>0, <2>1 DEF MountsAt
    <2>7. AloneAt(s)' BY <2>1, <2>4, <2>5, QuietAlone
    <2>8. BuildingAt(s)' BY <1>0, <2>1, <2>3, <2>4 DEF BuildingAt, Empty, Has, k
    <2>9. MatchingAt(s)'
      <3>1. Busy(s)' <=> \E q \in Requests : On(q, s)' BY DEF Busy, On, Target
      <3> QED BY <2>3, <2>4, <2>5, <3>1 DEF MatchingAt
    <2> QED BY <2>6, <2>7, <2>8, <2>9 DEF LeftAt
  <1>a. ASSUME NEW state, Answers(s, state)
        PROVE  job'[s].pc = "ok" /\ job'[s].config = job[s].config /\ job'[s].state = state
    <2>1. job'[s] = [job[s] EXCEPT !.pc = "ok", !.state = state] BY <1>0, <1>a DEF Answers
    <2> QED BY <1>0, <2>1 DEF Job
  <1>12. CASE FindProvisioned(s)
    <2>1. /\ job[s].pc = "find" /\ docker[s].containers # {} /\ row' = row /\ docker' = docker /\ odd' = odd
          /\ job'[s].pc = "ok" /\ job'[s].config = job[s].config
      BY <1>12, <1>a DEF FindProvisioned, Provisioning, ManagedServer
    <2>2. odd'[s] # {} BY <1>0, <2>1 DEF BuildingAt, Empty
    <2>3. AloneAt(s)' /\ MatchingAt(s)' BY <1>r, <2>1, WorkAlone DEF AtWork
    <2>4. MountsAt(s)' BY <1>0, <2>1 DEF MountsAt
    <2>5. BuildingAt(s)' BY <1>0, <2>1, <2>2 DEF BuildingAt
    <2> QED BY <2>3, <2>4, <2>5 DEF LeftAt
  <1>13. CASE StartRuntime(s)
    <2>1. /\ job[s].pc = "start" /\ row' = row /\ odd' = odd
          /\ job'[s].pc = "ok" /\ job'[s].config = job[s].config
          /\ \/ docker' = docker /\ job'[s].state = "stopped"
             \/ /\ \E c \in docker[s].containers : docker' = Runs(s, c)
                /\ job'[s].state = "running"
      BY <1>13, <1>a DEF StartRuntime, Provisioning
    <2>2. AloneAt(s)' /\ MatchingAt(s)' BY <1>r, <2>1, WorkAlone DEF AtWork
    <2>3. CASE docker' = docker /\ job'[s].state = "stopped"
      <3>1. MountsAt(s)' BY <1>0, <2>3 DEF MountsAt
      <3>2. BuildingAt(s)' BY <1>0, <2>1, <2>3 DEF BuildingAt, Has, Runtime
      <3> QED BY <2>2, <3>1, <3>2 DEF LeftAt
    <2>4. ASSUME NEW c \in docker[s].containers, docker' = Runs(s, c), job'[s].state = "running"
          PROVE  LeftAt(s)'
      <3> DEFINE C == (docker[s].containers \ {c}) \cup {Started(c)}
      <3>1. docker' = [docker EXCEPT ![s].containers = C] BY <2>4 DEF Runs, Started
      <3> HIDE DEF C
      <3>2. /\ docker'[s].containers = C /\ docker'[s].network = docker[s].network
            /\ docker'[s].volume = docker[s].volume /\ docker'[s].helper = docker[s].helper
        BY <1>0, <3>1 DEF Resources
      <3>3. MountsAt(s)' BY <1>0, <2>4, <3>2 DEF MountsAt
      <3>4. ASSUME odd[s] = {} PROVE C = {Runtime(s, TRUE)} /\ Has(s, TRUE, "installed", {})
        <4>1. docker[s].containers = {Runtime(s, FALSE)} /\ Has(s, TRUE, "installed", {})
          BY <1>0, <2>1, <3>4 DEF BuildingAt
        <4>2. c = Runtime(s, FALSE) BY <2>4, <4>1
        <4>3. Started(c) = Runtime(s, TRUE)
          <5>1. row[s].config \in Config /\ c \in Container BY <1>0, <2>4 DEF Row, Resources
          <5>2. Started(c) \in Container /\ Runtime(s, TRUE) \in Container
            BY <5>1 DEF Started, Runtime, Container, ContainerId
          <5>3. Started(c).id = c.id /\ Started(c).config = c.config /\ Started(c).running = TRUE
            BY <5>1 DEF Started, Container
          <5>4. /\ c.id = s /\ c.config = row[s].config
                /\ Runtime(s, TRUE).id = s /\ Runtime(s, TRUE).config = row[s].config
                /\ Runtime(s, TRUE).running = TRUE
            BY <4>2 DEF Runtime
          <5> QED BY <5>2, <5>3, <5>4, SameContainer
        <4> QED BY <4>1, <4>2, <4>3 DEF C
      <3>5. Runtime(s, TRUE)' = Runtime(s, TRUE) BY <2>1 DEF Runtime
      <3>6. BuildingAt(s)' BY <1>0, <2>1, <2>4, <3>2, <3>4, <3>5 DEF BuildingAt, Has
      <3> QED BY <2>2, <3>3, <3>6 DEF LeftAt
    <2> QED BY <2>1, <2>3, <2>4
  <1>w. ASSUME NEW to, row' = [row EXCEPT ![s] = [@ EXCEPT !.status = to, !.version = NextVersion(s)]]
        PROVE  row'[s].status = to /\ row'[s].config = row[s].config /\ row'[s].deleted = row[s].deleted
    <2> DEFINE v == NextVersion(s)
    <2>1. row'[s] = [row[s] EXCEPT !.status = to, !.version = v] BY <1>0, <1>w
    <2> HIDE DEF v
    <2> QED BY <1>0, <2>1 DEF Row
  <1>j. ASSUME NEW pc, job' = [job EXCEPT ![s].pc = pc]
        PROVE  job'[s].pc = pc /\ job'[s].config = job[s].config /\ job'[s].state = job[s].state
    BY <1>0, <1>j DEF Job
  <1>14. CASE MarkProvisionSucceeded(s)
    <2>1. /\ job[s].pc = "ok" /\ docker' = docker /\ odd' = odd
          /\ row'[s].status = job[s].state /\ row'[s].config = row[s].config /\ row'[s].deleted = row[s].deleted
          /\ job'[s].pc = "done" /\ job'[s].config = job[s].config
      BY <1>14, <1>w, <1>j DEF MarkProvisionSucceeded, Provisioning
    <2>2. AloneAt(s)' /\ (odd'[s] = {} => ~Busy(s)') BY <1>r, <2>1, WorkAlone DEF AtWork
    <2>3. MountsAt(s)' BY <1>0, <2>1 DEF MountsAt
    <2>4. BuildingAt(s)' BY <1>0, <2>1 DEF BuildingAt, Has
    <2>5. MatchingAt(s)'
      <3>1. Busy(s)' <=> \E q \in Requests : On(q, s)' BY DEF Busy, On, Target
      <3>2. ASSUME odd[s] = {} PROVE Described(s)'
        <4>1. \/ docker[s].containers = {Runtime(s, TRUE)} /\ job[s].state = "running"
              \/ docker[s].containers = {Runtime(s, FALSE)} /\ job[s].state = "stopped"
          BY <1>0, <2>1, <3>2 DEF BuildingAt
        <4>2. \A b : Runtime(s, b).config = row[s].config /\ Runtime(s, b).running = b BY DEF Runtime
        <4>3. \A c : c.config = row[s].config => Describes(s, c)' BY <2>1 DEF Describes
        <4>4. PICK b \in BOOLEAN : docker[s].containers = {Runtime(s, b)} /\ job[s].state = (IF b THEN "running" ELSE "stopped")
          BY <4>1
        <4>5. PICK c : c = Runtime(s, b) OBVIOUS
        <4>6. c \in docker'[s].containers /\ docker'[s].containers = {c} /\ c.running = b /\ Describes(s, c)'
          BY <2>1, <4>2, <4>3, <4>4, <4>5
        <4>7. row'[s].status = IF b THEN "running" ELSE "stopped" BY <2>1, <4>4
        <4> QED BY <4>6, <4>7 DEF Described
      <3> QED BY <2>1, <2>2, <3>1, <3>2 DEF MatchingAt
    <2> QED BY <2>2, <2>3, <2>4, <2>5 DEF LeftAt
  <1>15. CASE MarkProvisionFailed(s)
    <2>1. /\ job[s].pc = "error" /\ docker' = docker /\ odd' = odd
          /\ row'[s].status = "failed" /\ row'[s].config = row[s].config /\ row'[s].deleted = row[s].deleted
          /\ job'[s].pc = "gaveUp" /\ job'[s].config = job[s].config
      BY <1>15, <1>w, <1>j DEF MarkProvisionFailed, Provisioning
    <2>2. AloneAt(s)' /\ MatchingAt(s)' BY <1>r, <2>1, WorkAlone DEF AtWork
    <2>3. MountsAt(s)' BY <1>0, <2>1 DEF MountsAt
    <2>4. BuildingAt(s)' BY <1>0, <2>1 DEF BuildingAt, Empty, Has
    <2> QED BY <2>2, <2>3, <2>4 DEF LeftAt
  <1>16. CASE ProvisionFault(s)
    <2>1. /\ row' = row /\ odd[s] \subseteq odd'[s] /\ odd'[s] # {}
          /\ job[s].pc \in {"find", "volume", "network", "installer", "wait", "owner", "create", "start", "ok"}
          /\ job'[s].pc \in {"owner", "create", "error", "queued"} /\ job'[s].config = job[s].config
          /\ docker'[s].containers \subseteq docker[s].containers
          /\ docker'[s].containers # {} /\ docker[s].volume # "none" => docker'[s].volume # "none"
      BY <1>0, <1>16, FaultDoes
    <2>2. AloneAt(s)' /\ MatchingAt(s)' BY <1>r, <2>1, WorkAlone DEF AtWork
    <2>3. MountsAt(s)' BY <1>0, <2>1 DEF MountsAt
    <2>4. BuildingAt(s)' BY <1>0, <2>1 DEF BuildingAt
    <2> QED BY <2>2, <2>3, <2>4 DEF LeftAt
  <1>17. ASSUME NEW start \in BOOLEAN, CreateServer(s, start) PROVE LeftAt(s)'
    <2>1. PICK ports \in Allocation(HostPorts \ AllocatedPorts) :
             row' = [row EXCEPT ![s] = [@ EXCEPT !.status = "installing", !.start = start,
                                                 !.config = TemplateConfig(ports)]]
      BY <1>17 DEF CreateServer
    <2> DEFINE k == TemplateConfig(ports)
    <2>2. row' = [row EXCEPT ![s] = [@ EXCEPT !.status = "installing", !.start = start, !.config = k]] BY <2>1
    <2> HIDE DEF k
    <2>3. row'[s] = [row[s] EXCEPT !.status = "installing", !.start = start, !.config = k] BY <1>0, <2>2
    <2>4. row'[s].status = "installing" /\ row'[s].deleted = row[s].deleted BY <1>0, <2>3 DEF Row
    <2>5. job' = [job EXCEPT ![s].pc = "queued"] /\ docker' = docker /\ odd' = odd /\ row[s].status = "none"
      BY <1>17 DEF CreateServer
    <2>6. job[s].pc = "none" /\ job'[s].pc = "queued" BY <1>0, <1>j, <2>5 DEF Provisioned
    <2>7. \A q : (On(q, s)' <=> On(q, s)) /\ req'[q] = req[q] BY <1>r DEF On, InFlight, Target
    <2>8. Busy(s)' <=> Busy(s) BY <1>r DEF Busy, InFlight
    <2>9. MountsAt(s)' BY <1>0, <2>5 DEF MountsAt
    <2>10. AloneAt(s)' BY <1>0, <2>4, <2>5, <2>6, <2>7, <2>8 DEF AloneAt, AtWork, Powering, Empty, Has
    <2>11. BuildingAt(s)' BY <1>0, <2>5, <2>6 DEF BuildingAt, Empty, Has
    <2>12. MatchingAt(s)' BY <1>0, <2>5, <2>6, <2>7 DEF MatchingAt
    <2> QED BY <2>9, <2>10, <2>11, <2>12 DEF LeftAt
  <1> QED
    BY <1>1, <1>2, <1>3, <1>4, <1>5, <1>6, <1>7, <1>8, <1>9, <1>10, <1>11, <1>12, <1>13, <1>14, <1>15, <1>16, <1>17
    DEF Provision

-----------------------------------------------------------------------------
(* Power and what it leaves.                                               *)

\* Power requests and their answers keep what is said of their server: one that nothing
\* overlaps finds the container as the status says, and leaves it so.
LEMMA PowerLeft ==
  ASSUME KeepInv, NEW s \in Servers, LeftAt(s), Power(s)
  PROVE  LeftAt(s)'
  <1>0. /\ TypeOK /\ Provisioned /\ job \in [Servers -> Job] /\ row \in [Servers -> Row]
        /\ docker \in [Servers -> Resources] /\ docker[s] \in Resources
        /\ MountsAt(s) /\ AloneAt(s) /\ BuildingAt(s) /\ MatchingAt(s)
    BY DEF KeepInv, TypeOK, LeftAt
  <1>r. req' = req BY RequestsKept
  <1>d. row[s].deleted \in BOOLEAN BY <1>0 DEF Row
  <1>c. \A c \in docker[s].containers : c \in Container BY <1>0 DEF Resources
  <1>b. Busy(s)' <=> Busy(s) BY <1>r DEF Busy, InFlight
  <1>n. Busy(s)' <=> \E q \in Requests : On(q, s)' BY DEF Busy, On, Target
  <1>m. ASSUME "overlap" \notin odd'[s] => ~Busy(s) /\ row'[s].deleted = FALSE,
               odd'[s] = {} /\ job'[s].pc = "done" => Described(s)'
        PROVE  AloneAt(s)' /\ MatchingAt(s)'
    BY <1>b, <1>m, <1>n, QuietAlone DEF MatchingAt
  <1>1. ASSUME NEW from, NEW to \in {"starting", "stopping"}, RequestPower(s, from, to),
               to = "starting" => from = {"stopped", "failed"}
        PROVE  LeftAt(s)'
    <2> DEFINE v == NextVersion(s)
               p == row[s].powers + 1
    <2>1. /\ row' = [row EXCEPT ![s] = [@ EXCEPT !.status = to, !.version = v, !.powers = p]]
          /\ job' = job /\ docker' = docker /\ row[s].status \in from /\ row[s].deleted = FALSE
      BY <1>1, <1>d DEF RequestPower
    <2>2. odd'[s] = odd[s] \cup IF Busy(s) \/ AtWork(s) THEN {"overlap"} ELSE {}
      BY <1>0, <1>1, MarkOwn DEF RequestPower
    <2> HIDE DEF v, p
    <2>3. row'[s] = [row[s] EXCEPT !.status = to, !.version = v, !.powers = p] BY <1>0, <2>1
    <2>4. row'[s].status = to /\ row'[s].config = row[s].config /\ row'[s].deleted = FALSE BY <1>0, <2>1, <2>3 DEF Row
    <2>5. ASSUME odd'[s] = {}, job'[s].pc = "done" PROVE Described(s)'
      <3>1. Described(s) BY <1>0, <2>1, <2>2, <2>5 DEF MatchingAt
      <3>2. \A c : Describes(s, c) => Describes(s, c)' BY <2>4 DEF Describes
      <3> QED BY <1>1, <2>1, <2>4, <3>1, <3>2 DEF Described
    <2>6. AloneAt(s)' /\ MatchingAt(s)' BY <1>m, <2>2, <2>4, <2>5
    <2>7. MountsAt(s)' BY <1>0, <2>1 DEF MountsAt
    <2>8. BuildingAt(s)' BY <1>0, <2>1, <2>2, <2>4 DEF BuildingAt, Empty, Has, Runtime
    <2> QED BY <2>6, <2>7, <2>8 DEF LeftAt
  <1>2. CASE Start(s) \/ Stop(s) BY <1>1, <1>2 DEF Start, Stop
  <1>3. ASSUME NEW from \in {"starting", "stopping"}, NEW to \in {"stopped", "running", "failed"},
               FinishPower(s, from, to)
        PROVE  /\ row'[s].status = to /\ row'[s].config = row[s].config /\ row'[s].deleted = row[s].deleted
               /\ job' = job /\ odd' = odd /\ job[s].pc \in {"done", "gaveUp"} /\ row[s].status = from
               /\ "overlap" \notin odd'[s] => ~Busy(s) /\ row'[s].deleted = FALSE
    <2> DEFINE v == NextVersion(s)
    <2>1. /\ row' = [row EXCEPT ![s] = [@ EXCEPT !.status = to, !.version = v]]
          /\ row[s].status = from /\ job' = job /\ odd' = odd
      BY <1>3 DEF FinishPower
    <2> HIDE DEF v
    <2>2. row'[s] = [row[s] EXCEPT !.status = to, !.version = v] BY <1>0, <2>1
    <2>3. row'[s].status = to /\ row'[s].config = row[s].config /\ row'[s].deleted = row[s].deleted
      BY <1>0, <2>2 DEF Row
    <2>4. job[s].pc \in {"done", "gaveUp"} BY <1>0, <2>1 DEF Provisioned
    <2>5. "overlap" \notin odd'[s] => ~Busy(s) /\ row'[s].deleted = FALSE
      BY <1>0, <1>d, <2>1, <2>3 DEF AloneAt, Powering
    <2> QED BY <2>1, <2>3, <2>4, <2>5
  <1>4. ASSUME NEW c \in ManagedServer(s), NEW b \in BOOLEAN, docker'[s].containers = {[c EXCEPT !.running = b]},
               docker'[s].network = docker[s].network, docker'[s].volume = docker[s].volume,
               NEW from \in {"starting", "stopping"}, FinishPower(s, from, IF b THEN "running" ELSE "stopped")
        PROVE  LeftAt(s)'
    <2> DEFINE to == IF b THEN "running" ELSE "stopped"
    <2>1. /\ row'[s].status = to /\ row'[s].config = row[s].config /\ row'[s].deleted = row[s].deleted
          /\ job' = job /\ odd' = odd /\ job[s].pc \in {"done", "gaveUp"} /\ row[s].status = from
          /\ "overlap" \notin odd'[s] => ~Busy(s) /\ row'[s].deleted = FALSE
      BY <1>3, <1>4
    <2>2. c \in docker[s].containers /\ docker[s].containers = {c} BY <1>4 DEF ManagedServer
    <2> DEFINE d == [c EXCEPT !.running = b]
    <2>3. d.id = c.id /\ d.config = c.config /\ d.running = b BY <1>c, <2>2 DEF Container
    <2>4. docker'[s].containers = {d} BY <1>4
    <2> HIDE DEF d
    <2>5. ASSUME odd'[s] = {} PROVE job[s].pc = "done" /\ Described(s)'
      <3>1. odd[s] = {} /\ ~Busy(s) BY <2>1, <2>5
      <3>2. job[s].pc = "done" BY <1>0, <2>1, <2>2, <3>1 DEF BuildingAt, Empty
      <3>3. Describes(s, c) BY <1>0, <2>2, <3>1, <3>2 DEF MatchingAt, Described
      <3>4. \A e : e = d => Describes(s, e)' BY <2>1, <2>3, <3>3 DEF Describes
      <3> QED BY <2>1, <2>3, <2>4, <3>2, <3>4 DEF Described
    <2>6. AloneAt(s)' /\ MatchingAt(s)' BY <1>m, <2>1, <2>5
    <2>7. MountsAt(s)' BY <1>0, <1>4, <2>2 DEF MountsAt
    <2>8. BuildingAt(s)' BY <1>0, <1>4, <2>1, <2>5 DEF BuildingAt
    <2> QED BY <2>6, <2>7, <2>8 DEF LeftAt
  <1>5. ASSUME NEW from \in {"starting", "stopping"}, NEW to \in {"failed", "running"}, FinishPower(s, from, to),
               docker' = docker, to = "failed" => from = "starting", to = "running" => ManagedServer(s) = {}
        PROVE  LeftAt(s)'
    <2>1. /\ row'[s].status = to /\ row'[s].config = row[s].config /\ row'[s].deleted = row[s].deleted
          /\ job' = job /\ odd' = odd /\ job[s].pc \in {"done", "gaveUp"} /\ row[s].status = from
          /\ "overlap" \notin odd'[s] => ~Busy(s) /\ row'[s].deleted = FALSE
      BY <1>3, <1>5
    <2>2. ASSUME odd'[s] = {}, job'[s].pc = "done" PROVE Described(s)'
      <3>1. Described(s) BY <1>0, <2>1, <2>2 DEF MatchingAt
      <3>2. ManagedServer(s) # {} BY <3>1 DEF Described, ManagedServer
      <3>3. \A c : Describes(s, c) => Describes(s, c)' BY <2>1 DEF Describes
      <3> QED BY <1>5, <2>1, <3>1, <3>2, <3>3 DEF Described
    <2>3. AloneAt(s)' /\ MatchingAt(s)' BY <1>m, <2>1, <2>2
    <2>4. MountsAt(s)' BY <1>0, <1>5 DEF MountsAt
    <2>5. BuildingAt(s)' BY <1>0, <1>5, <2>1 DEF BuildingAt, Empty, Has
    <2> QED BY <2>3, <2>4, <2>5 DEF LeftAt
  <1>6. ASSUME NEW C, docker' = [docker EXCEPT ![s].containers = C]
        PROVE  /\ docker'[s].containers = C /\ docker'[s].network = docker[s].network
               /\ docker'[s].volume = docker[s].volume
    BY <1>0, <1>6 DEF Resources
  <1>7. CASE FinishStart(s)
    <2>1. CASE \E c \in ManagedServer(s) : docker' = Runs(s, c) /\ FinishPower(s, "starting", "running")
      <3>1. PICK c \in ManagedServer(s) : docker' = Runs(s, c) /\ FinishPower(s, "starting", "running") BY <2>1
      <3> DEFINE d == [c EXCEPT !.running = TRUE]
      <3>2. docker' = [docker EXCEPT ![s].containers = (docker[s].containers \ {c}) \cup {d}] BY <3>1 DEF Runs
      <3>3. docker[s].containers = {c} BY DEF ManagedServer
      <3> HIDE DEF d
      <3>4. /\ docker'[s].containers = {d} /\ docker'[s].network = docker[s].network
            /\ docker'[s].volume = docker[s].volume
        BY <1>6, <3>2, <3>3
      <3> QED BY <1>4, <3>1, <3>4 DEF d
    <2>2. CASE FinishPower(s, "starting", "failed") /\ docker' = docker BY <1>5, <2>2
    <2> QED BY <1>7, <2>1, <2>2 DEF FinishStart
  <1>8. CASE FinishStop(s)
    <2>1. CASE \E c \in ManagedServer(s) :
                 /\ docker' = [docker EXCEPT ![s].containers = {[c EXCEPT !.running = FALSE]}]
                 /\ FinishPower(s, "stopping", "stopped")
      <3>1. PICK c \in ManagedServer(s) :
                 /\ docker' = [docker EXCEPT ![s].containers = {[c EXCEPT !.running = FALSE]}]
                 /\ FinishPower(s, "stopping", "stopped")
        BY <2>1
      <3> DEFINE d == [c EXCEPT !.running = FALSE]
      <3>2. docker' = [docker EXCEPT ![s].containers = {d}] BY <3>1
      <3> HIDE DEF d
      <3>3. /\ docker'[s].containers = {d} /\ docker'[s].network = docker[s].network
            /\ docker'[s].volume = docker[s].volume
        BY <1>6, <3>2
      <3> QED BY <1>4, <3>1, <3>3 DEF d
    <2>2. CASE ManagedServer(s) = {} /\ FinishPower(s, "stopping", "running") /\ docker' = docker BY <1>5, <2>2
    <2> QED BY <1>8, <2>1, <2>2 DEF FinishStop
  <1> QED BY <1>2, <1>7, <1>8 DEF Power

-----------------------------------------------------------------------------
(* Handlers begin.                                                         *)

\* The handler that begins is at work on its server from then on, and was not before.
LEMMA BeginOwn ==
  ASSUME TypeOK, NEW r \in Requests, NEW s \in Servers,
         BeginDelete(r, s) \/ \E kind \in EditKinds : LoadRow(r, s, kind)
  PROVE  /\ row' = row /\ job' = job /\ docker' = docker
         /\ \A t \in Servers \ {s} : odd'[t] = odd[t]
         /\ \A q \in Requests \ {r} : req'[q] = req[q]
         /\ \A t : ~On(r, t)
         /\ On(r, s)' /\ req'[r].server = s /\ req'[r].phase = "apply"
         /\ \/ req'[r].pc = "dHelpers"
            \/ req'[r].pc = "ports" /\ req'[r].version = row[s].version /\ row[s].status = "stopped"
  <1>0. req \in [Requests -> Request] BY DEF TypeOK
  <1>1. row' = row /\ job' = job /\ docker' = docker /\ req[r].pc = "idle" BY DEF BeginDelete, LoadRow, At
  <1>2. \A t \in Servers \ {s} : odd'[t] = odd[t] BY MarkOwn DEF BeginDelete, LoadRow
  <1>3. ASSUME NEW x, req' = [req EXCEPT ![r] = x] PROVE req'[r] = x /\ \A q \in Requests \ {r} : req'[q] = req[q]
    BY <1>0, <1>3
  <1>4. CASE BeginDelete(r, s)
    <2>1. req' = [req EXCEPT ![r] = NewRequest("dHelpers", "delete", s, 0, NoConfig)] BY <1>4 DEF BeginDelete
    <2>2. req'[r] = NewRequest("dHelpers", "delete", s, 0, NoConfig) /\ \A q \in Requests \ {r} : req'[q] = req[q]
      BY <1>3, <2>1
    <2>3. req'[r].pc = "dHelpers" /\ req'[r].server = s /\ req'[r].phase = "apply" BY <2>2 DEF NewRequest
    <2> QED BY <1>1, <1>2, <2>2, <2>3 DEF On, InFlight, Target
  <1>5. ASSUME NEW kind \in EditKinds, LoadRow(r, s, kind)
        PROVE  /\ req'[r].pc = "ports" /\ req'[r].server = s /\ req'[r].phase = "apply"
               /\ req'[r].version = row[s].version /\ row[s].status = "stopped"
               /\ \A q \in Requests \ {r} : req'[q] = req[q]
    <2>1. req' = [req EXCEPT ![r] = NewRequest("ports", kind, s, row[s].version, row[s].config)]
      BY <1>5 DEF LoadRow
    <2>2. /\ req'[r] = NewRequest("ports", kind, s, row[s].version, row[s].config)
          /\ \A q \in Requests \ {r} : req'[q] = req[q]
      BY <1>3, <2>1
    <2>3. /\ req'[r].pc = "ports" /\ req'[r].server = s /\ req'[r].phase = "apply"
          /\ req'[r].version = row[s].version
      BY <2>2 DEF NewRequest
    <2> QED BY <1>5, <2>2, <2>3 DEF LoadRow
  <1>6. CASE \E kind \in EditKinds : LoadRow(r, s, kind) BY <1>1, <1>2, <1>5, <1>6 DEF On, InFlight, Target
  <1> QED BY <1>4, <1>6

\* Handlers that begin keep what is said of every server: the one that meets no other
\* work finds the server stopped, with the container that the row describes.
LEMMA BeginLeft ==
  ASSUME KeepInv, NEW s \in Servers, LeftAt(s), NEW r \in Requests, Begin(r)
  PROVE  LeftAt(s)'
  <1>0. /\ TypeOK /\ Provisioned /\ row \in [Servers -> Row] /\ job \in [Servers -> Job]
        /\ MountsAt(s) /\ AloneAt(s) /\ BuildingAt(s) /\ MatchingAt(s)
    BY DEF KeepInv, LeftAt, TypeOK
  <1>1. PICK t \in Servers : BeginDelete(r, t) \/ \E kind \in EditKinds : LoadRow(r, t, kind)
    BY ContainersAssumption DEF Begin, EditKinds
  <1>2. /\ row' = row /\ job' = job /\ docker' = docker
        /\ \A u \in Servers \ {t} : odd'[u] = odd[u]
        /\ \A q \in Requests \ {r} : req'[q] = req[q]
        /\ \A u : ~On(r, u)
        /\ On(r, t)' /\ req'[r].server = t /\ req'[r].phase = "apply"
        /\ \/ req'[r].pc = "dHelpers"
           \/ req'[r].pc = "ports" /\ req'[r].version = row[t].version /\ row[t].status = "stopped"
    BY <1>0, <1>1, BeginOwn
  <1>3. \A q \in Requests \ {r} : \A u : On(q, u)' <=> On(q, u) BY <1>2 DEF On, InFlight, Target
  <1>4. CASE t # s
    <2>1. ~On(r, s)' BY <1>2, <1>4 DEF On, Target
    <2> QED BY <1>2, <1>3, <1>4, <2>1, UntouchedKeeps DEF Untouched
  <1>5. CASE t = s
    <2>1. /\ odd[s] \subseteq odd'[s] /\ row[s].deleted = FALSE
          /\ "overlap" \notin odd'[s] => ~Busy(s) /\ ~AtWork(s) /\ ~Powering(s)
          /\ odd'[s] = {} => req'[r].pc = "ports"
      <3>1. row[s].deleted \in BOOLEAN BY <1>0 DEF Row
      <3>2. CASE BeginDelete(r, s)
        <4>1. odd'[s] = odd[s] \cup ({"deletion"} \cup IF Busy(s) \/ AtWork(s) \/ Powering(s) THEN {"overlap"} ELSE {})
          BY <1>0, <3>2, MarkOwn DEF BeginDelete
        <4> QED BY <3>1, <3>2, <4>1 DEF BeginDelete
      <3>3. ASSUME NEW kind \in EditKinds, LoadRow(r, s, kind)
            PROVE  /\ odd[s] \subseteq odd'[s] /\ row[s].deleted = FALSE
                   /\ "overlap" \notin odd'[s] => ~Busy(s) /\ ~AtWork(s) /\ ~Powering(s)
                   /\ req'[r].pc = "ports"
        <4>1. odd'[s] = odd[s] \cup IF Busy(s) \/ AtWork(s) THEN {"overlap"} ELSE {}
          BY <1>0, <3>3, MarkOwn DEF LoadRow
        <4>2. req'[r] = NewRequest("ports", kind, s, row[s].version, row[s].config)
          BY <1>0, <3>3 DEF LoadRow, TypeOK
        <4>3. req'[r].pc = "ports" BY <4>2 DEF NewRequest
        <4> QED BY <3>1, <3>3, <4>1, <4>3 DEF LoadRow, Powering
      <3> QED BY <1>1, <1>5, <3>2, <3>3
    <2>2. MountsAt(s)' BY <1>0, <1>2 DEF MountsAt
    <2>3. BuildingAt(s)' BY <1>0, <1>2, <2>1 DEF BuildingAt, Empty, Has, Runtime
    <2>4. Busy(s) <=> \E q \in Requests : On(q, s) BY BusyOn
    <2>5. \A q \in Requests \ {r} : "overlap" \notin odd'[s] => ~On(q, s)' BY <1>3, <2>1, <2>4
    <2>6. AloneAt(s)'
      <3>1. AtWork(s)' <=> AtWork(s) BY <1>2 DEF AtWork
      <3>2. Powering(s)' <=> Powering(s) BY <1>2 DEF Powering
      <3> QED BY <1>2, <2>1, <2>5, <3>1, <3>2 DEF AloneAt
    <2>7. MatchingAt(s)'
      <3> SUFFICES ASSUME odd'[s] = {} 
                   PROVE  /\ job'[s].pc = "done" /\ ~Busy(s)' => Described(s)'
                          /\ \A q \in Requests : On(q, s)' =>
                               /\ Editing(q)' /\ job'[s].pc = "done" /\ row'[s].status = "stopped"
                               /\ req'[q].version = row'[s].version /\ Replaces(q)'
        BY DEF MatchingAt
      <3>1. Busy(s)' BY <1>2, <1>5 DEF Busy, On, Target
      <3>2. /\ req'[r].pc = "ports" /\ req'[r].version = row[s].version /\ row[s].status = "stopped"
            /\ odd[s] = {} /\ ~Busy(s) /\ ~AtWork(s)
        BY <1>2, <1>5, <2>1
      <3>3. job[s].pc = "done" BY <1>0, <3>2 DEF Provisioned, BuildingAt
      <3>4. Described(s) BY <1>0, <3>2, <3>3 DEF MatchingAt
      <3>5. Target(r)' = s /\ \A c : Describes(s, c) => Fits(r, c)'
        BY <1>2, <1>5 DEF Target, Fits, Describes
      <3>6. Replaces(r)' BY <1>2, <3>2, <3>4, <3>5 DEF Replaces, Described
      <3>7. Editing(r)' BY <3>2 DEF Editing
      <3> QED BY <1>2, <2>5, <3>1, <3>2, <3>3, <3>6, <3>7
    <2> QED BY <2>2, <2>3, <2>6, <2>7 DEF LeftAt
  <1> QED BY <1>4, <1>5

-----------------------------------------------------------------------------
(* Edits and what they leave.                                              *)

\* An edit leaves the network and the helper of its server, and the volume unless that
\* is missing; a container only comes with a volume.  It does not delete the row.
LEMMA EditFields ==
  ASSUME TypeOK, NEW r \in Requests, Edit(r), NEW s \in Servers, Target(r) = s
  PROVE  /\ docker'[s].network = docker[s].network /\ docker'[s].helper = docker[s].helper
         /\ docker[s].volume # "none" => docker'[s].volume = docker[s].volume
         /\ docker'[s].volume # "none" \/ docker'[s].containers \subseteq docker[s].containers
         /\ row'[s].deleted = row[s].deleted
         /\ ~Commit(r) => row'[s] = row[s]
  <1>0. /\ row \in [Servers -> Row] /\ docker \in [Servers -> Resources] /\ docker[s] \in Resources BY DEF TypeOK
  <1>1. ~Commit(r) => row'[s] = row[s]
    <2>1. (\E ports \in SUBSET HostPorts : LoadPorts(r, ports)) => row' = row BY DEF LoadPorts
    <2>2. FindReplaced(r) \/ FindRefused(r) \/ CreateReplacement(r) \/ RemoveReplaced(r) => row' = row
      BY DEF FindReplaced, FindRefused, CreateReplacement, RemoveReplaced
    <2>3. RemoveRefused(r) \/ DropReplacement(r) \/ CommitConflict(r) \/ FailReplace(r) => row' = row
      BY DEF RemoveRefused, DropReplacement, CommitConflict, FailReplace
    <2>4. LoseRemoval(r) \/ FailDrop(r) \/ FailCommit(r) \/ Abort(r) => row' = row
      BY DEF LoseRemoval, FailDrop, FailCommit, Abort
    <2> QED BY <2>1, <2>2, <2>3, <2>4 DEF Edit
  <1>2. row'[s].deleted = row[s].deleted
    <2>1. CASE Commit(r)
      <3> DEFINE k == Stored(r, row[s].config)
                 v == NextVersion(s)
      <3>1. row' = [row EXCEPT ![s] = [@ EXCEPT !.config = k, !.version = v]] BY <2>1 DEF Commit
      <3> HIDE DEF k, v
      <3>2. row'[s] = [row[s] EXCEPT !.config = k, !.version = v] BY <1>0, <3>1
      <3> QED BY <1>0, <3>2 DEF Row
    <2> QED BY <1>1, <2>1
  <1>3. ASSUME NEW C, docker' = [docker EXCEPT ![s].containers = C]
        PROVE  /\ docker'[s].containers = C /\ docker'[s].network = docker[s].network
               /\ docker'[s].volume = docker[s].volume /\ docker'[s].helper = docker[s].helper
    BY <1>0, <1>3 DEF Resources
  <1>4. ASSUME NEW id, docker' = [docker EXCEPT ![s].containers = Without(s, id)]
        PROVE  /\ docker'[s].network = docker[s].network /\ docker'[s].helper = docker[s].helper
               /\ docker'[s].volume = docker[s].volume /\ docker'[s].containers \subseteq docker[s].containers
    BY <1>3, <1>4 DEF Without
  <1>5. CASE CreateReplacement(r)
    <2> DEFINE C == docker[s].containers \cup {Replacement(r)}
               v == Mounted(docker[s].volume)
    <2>1. docker' = [docker EXCEPT ![s] = [@ EXCEPT !.containers = C, !.volume = v]]
      BY <1>5 DEF CreateReplacement
    <2> HIDE DEF C, v
    <2>2. docker'[s] = [docker[s] EXCEPT !.containers = C, !.volume = v] BY <1>0, <2>1
    <2>3. docker'[s].network = docker[s].network /\ docker'[s].helper = docker[s].helper /\ docker'[s].volume = v
      BY <1>0, <2>2 DEF Resources
    <2> QED BY <1>1, <1>2, <2>3 DEF v, Mounted
  <1>6. CASE RemoveReplaced(r) BY <1>1, <1>2, <1>4, <1>6 DEF RemoveReplaced
  <1>7. CASE LoseRemoval(r) BY <1>1, <1>2, <1>4, <1>7 DEF LoseRemoval
  <1>8. CASE DropReplacement(r) BY <1>1, <1>2, <1>4, <1>8 DEF DropReplacement
  <1>9. CASE ~CreateReplacement(r) /\ ~RemoveReplaced(r) /\ ~DropReplacement(r) /\ ~LoseRemoval(r)
    <2>1. (\E ports \in SUBSET HostPorts : LoadPorts(r, ports)) => docker' = docker BY DEF LoadPorts
    <2>2. FindReplaced(r) \/ FindRefused(r) \/ RemoveRefused(r) \/ Commit(r) => docker' = docker
      BY DEF FindReplaced, FindRefused, RemoveRefused, Commit
    <2>3. CommitConflict(r) \/ FailReplace(r) \/ FailDrop(r) \/ FailCommit(r) \/ Abort(r) => docker' = docker
      BY DEF CommitConflict, FailReplace, FailDrop, FailCommit, Abort
    <2>4. docker' = docker BY <1>9, <2>1, <2>2, <2>3 DEF Edit
    <2> QED BY <1>1, <1>2, <2>4
  <1> QED BY <1>5, <1>6, <1>7, <1>8, <1>9

\* An edit keeps the resources besides the containers, and that it is alone.
LEMMA EditAlone ==
  ASSUME KeepInv, NEW s \in Servers, LeftAt(s), NEW r \in Requests, Edit(r), Target(r) = s
  PROVE  MountsAt(s)' /\ AloneAt(s)' /\ BuildingAt(s)'
  <1>0. /\ TypeOK /\ Handlers /\ MountsAt(s) /\ AloneAt(s) /\ BuildingAt(s) /\ MatchingAt(s)
    BY DEF KeepInv, LeftAt
  <1>1. /\ Editing(r) /\ Progress(r) /\ \A q \in Requests \ {r} : req'[q] = req[q]
        /\ job' = job /\ row'[s].status = row[s].status /\ odd[s] \subseteq odd'[s]
    BY <1>0, EditFrame
  <1>2. /\ docker'[s].network = docker[s].network /\ docker'[s].helper = docker[s].helper
        /\ docker[s].volume # "none" => docker'[s].volume = docker[s].volume
        /\ docker'[s].volume # "none" \/ docker'[s].containers \subseteq docker[s].containers
        /\ row'[s].deleted = row[s].deleted
    BY <1>0, EditFields
  <1>3. MountsAt(s)' BY <1>0, <1>2 DEF MountsAt
  <1>4. On(r, s) BY <1>1 DEF On, InFlight, Editing
  <1>5. \A q \in Requests : On(q, s)' => On(q, s) BY <1>1, <1>4 DEF On, InFlight, Target
  <1>6. AloneAt(s)'
    <2> SUFFICES ASSUME "overlap" \notin odd'[s]
                 PROVE  /\ \A q, p \in Requests : On(q, s)' /\ On(p, s)' => q = p
                        /\ Busy(s)' => ~AtWork(s)' /\ ~Powering(s)'
                        /\ row'[s].deleted = TRUE => ~Busy(s)' /\ ~AtWork(s)' /\ ~Powering(s)' /\ Empty(s)'
                        /\ \A q \in Requests : On(q, s)' =>
                             /\ req'[q].pc \in {"dContainer", "dNetwork", "dVolume"} => docker'[s].helper = {}
                             /\ req'[q].pc = "dVolume" => docker'[s].network = FALSE
                             /\ req'[q].pc = "dFinal" => Empty(s)'
      BY DEF AloneAt
    <2>1. "overlap" \notin odd[s] BY <1>1
    <2>2. Busy(s) BY <1>4, BusyOn
    <2>3. ~AtWork(s) /\ ~Powering(s) /\ row[s].deleted # TRUE /\ \A q \in Requests : On(q, s) => q = r
      BY <1>0, <1>4, <2>1, <2>2 DEF AloneAt
    <2>4. ~AtWork(s)' /\ ~Powering(s)' BY <1>1, <2>3 DEF AtWork, Powering
    <2>5. req'[r].pc \notin {"dContainer", "dNetwork", "dVolume", "dFinal"} BY <1>1 DEF Progress
    <2> QED BY <1>2, <1>5, <2>3, <2>4, <2>5
  <1>7. BuildingAt(s)'
    <2>1. job[s].pc \in {"done", "gaveUp"} BY <1>0, <1>1 DEF Handlers
    <2>2. ASSUME odd'[s] = {} PROVE job[s].pc = "done" /\ docker'[s].network = TRUE /\ docker'[s].volume = "installed"
      <3>1. odd[s] = {} BY <1>1, <2>2
      <3>2. job[s].pc = "done" BY <1>0, <1>4, <3>1 DEF MatchingAt
      <3> QED BY <1>0, <1>2, <3>1, <3>2 DEF BuildingAt
    <2> QED BY <1>1, <2>1, <2>2 DEF BuildingAt
  <1> QED BY <1>3, <1>6, <1>7

\* An edit keeps that the row describes the container, as long as nothing odd happens:
\* a failed replacement leaves the old container, the commit stores what the new one was
\* made from, and a failed commit brings back what the row still holds.
LEMMA EditMatching ==
  ASSUME KeepInv, VersionVouches, NEW s \in Servers, LeftAt(s), NEW r \in Requests, Edit(r), Target(r) = s
  PROVE  MatchingAt(s)'
  <1> DEFINE Goal == /\ job'[s].pc = "done" /\ ~Busy(s)' => Described(s)'
                     /\ \A q \in Requests : On(q, s)' =>
                          /\ Editing(q)' /\ job'[s].pc = "done" /\ row'[s].status = "stopped"
                          /\ req'[q].version = row'[s].version /\ Replaces(q)'
  <1> SUFFICES ASSUME odd'[s] = {} PROVE Goal BY DEF MatchingAt
  <1>0. /\ TypeOK /\ Handlers /\ Names /\ AloneAt(s) /\ MatchingAt(s)
        /\ req \in [Requests -> Request] /\ row \in [Servers -> Row]
        /\ docker \in [Servers -> Resources] /\ docker[s] \in Resources
    BY DEF KeepInv, LeftAt, TypeOK
  <1>1. /\ Editing(r) /\ Progress(r) /\ \A q \in Requests \ {r} : req'[q] = req[q]
        /\ job' = job /\ row'[s].status = row[s].status /\ odd[s] \subseteq odd'[s]
    BY <1>0, EditFrame
  <1>2. ~Commit(r) => row'[s] = row[s] BY <1>0, EditFields
  <1>3. odd[s] = {} /\ On(r, s) BY <1>1 DEF On, InFlight, Editing
  <1>4. /\ job[s].pc = "done" /\ row[s].status = "stopped" /\ req[r].version = row[s].version /\ Replaces(r)
        /\ \A q \in Requests : On(q, s) => q = r
    BY <1>0, <1>3 DEF MatchingAt, AloneAt
  <1>5. \A q \in Requests : On(q, s)' => q = r BY <1>1, <1>4 DEF On, InFlight, Target
  <1>d. ASSUME req'[r].pc = "done", Described(s)' PROVE Goal
    <2>1. ~On(r, s)' BY <1>d DEF On, InFlight
    <2> QED BY <1>5, <1>d, <2>1
  <1>e. ASSUME Editing(r)', req'[r].server = s, req'[r].version = req[r].version, row'[s] = row[s], Replaces(r)'
        PROVE  Goal
    <2>1. On(r, s)' BY <1>e DEF On, InFlight, Editing, Target
    <2>2. Busy(s)' BY <2>1 DEF Busy, On, Target
    <2> QED BY <1>1, <1>4, <1>5, <1>e, <2>2
  <1>g. ASSUME NEW pc, Goto(r, pc)
        PROVE  /\ req'[r].pc = pc /\ req'[r].server = s /\ req'[r].phase = req[r].phase
               /\ req'[r].version = req[r].version /\ req'[r].found = req[r].found
               /\ Target(r)' = s /\ Replacement(r)' = Replacement(r) /\ Own(r)' = Own(r)
               /\ row'[s] = row[s] => \A c : Fits(r, c)' <=> Fits(r, c)
    <2>1. /\ req'[r].pc = pc /\ req'[r].server = s /\ req'[r].phase = req[r].phase
          /\ req'[r].version = req[r].version /\ req'[r].found = req[r].found
          /\ req'[r].old = req[r].old /\ req'[r].new = req[r].new
      BY <1>0, <1>g DEF Goto, Request, Target
    <2>2. row'[s] = row[s] => \A c : Fits(r, c)' <=> Fits(r, c) BY <2>1 DEF Fits, Describes, Target
    <2> QED BY <2>1, <2>2 DEF Target, Replacement, Asked, Own
  <1>f. ASSUME Finish(r) PROVE req'[r].pc = "done" BY <1>0, <1>f, FinishDone
  <1>p. req[r].phase \in {"apply", "undo"} BY <1>0 DEF Request
  <1>w. ASSUME Refused(r) PROVE req'[r].pc = "done" /\ req[r].phase = "apply"
    <2>1. odd'[s] = odd[s] \cup IF req[r].phase = "undo" THEN {"cut"} ELSE {} BY <1>0, <1>w, MarkOwn DEF Refused
    <2> QED BY <1>f, <1>p, <1>w, <2>1 DEF Refused
  <1>o. ASSUME docker'[s].containers = docker[s].containers, row'[s] = row[s], Refused(r),
               req[r].pc \in {"find", "create"}
        PROVE  Goal
    <2>1. req'[r].pc = "done" /\ \A c : Fits(r, c) => Describes(s, c)' BY <1>w, <1>o DEF Fits, Describes
    <2>2. Described(s)' BY <1>1, <1>4, <1>o, <2>1 DEF Replaces, Described
    <2> QED BY <1>d, <2>1, <2>2
  <1>x. ASSUME docker'[s].containers = docker[s].containers, row'[s] = row[s], req[r].pc = "remove", Goto(r, "drop")
        PROVE  Goal
    <2>1. Replaces(r)' BY <1>4, <1>g, <1>x DEF Replaces
    <2> QED BY <1>e, <1>g, <1>x, <2>1 DEF Editing
  <1>6. ASSUME NEW ports \in SUBSET HostPorts, LoadPorts(r, ports) PROVE Goal
    <2> DEFINE k == [req[r].old EXCEPT !.definitions = row[Target(r)].config.definitions,
                                       !.ports = row[Target(r)].config.ports]
               n == Edited(r, k, ports)
    <2>1. /\ req' = [req EXCEPT ![r] = [@ EXCEPT !.pc = "find", !.old = k, !.new = n]]
          /\ req[r].pc = "ports" /\ docker' = docker /\ row' = row
      BY <1>6 DEF LoadPorts, At
    <2> HIDE DEF k, n
    <2>2. req'[r] = [req[r] EXCEPT !.pc = "find", !.old = k, !.new = n] BY <1>0, <2>1
    <2>3. /\ req'[r].pc = "find" /\ req'[r].phase = req[r].phase /\ req'[r].server = req[r].server
          /\ req'[r].version = req[r].version
      BY <1>0, <2>2 DEF Request
    <2>5. Target(r)' = s /\ \A c : Fits(r, c)' <=> Fits(r, c)
      BY <2>1, <2>3 DEF Target, Fits, Describes
    <2>6. Replaces(r)' BY <1>4, <2>1, <2>3, <2>5 DEF Replaces
    <2> QED BY <1>e, <2>1, <2>3, <2>6 DEF Editing, Target
  <1>7. CASE FindReplaced(r)
    <2>1. PICK c \in ManagedServer(s) : req' = [req EXCEPT ![r] = [@ EXCEPT !.pc = "create", !.found = c.id]]
      BY <1>7 DEF FindReplaced
    <2>2. docker' = docker /\ row' = row /\ req[r].pc = "find" BY <1>7 DEF FindReplaced, At
    <2>3. req'[r] = [req[r] EXCEPT !.pc = "create", !.found = c.id] BY <1>0, <2>1
    <2>4. /\ req'[r].pc = "create" /\ req'[r].phase = req[r].phase /\ req'[r].server = req[r].server
          /\ req'[r].version = req[r].version /\ req'[r].new = req[r].new /\ req'[r].found = c.id
      BY <1>0, <2>3 DEF Request
    <2>5. Target(r)' = s /\ \A d : Fits(r, d)' <=> Fits(r, d) BY <2>2, <2>4 DEF Target, Fits, Describes
    <2>6. docker[s].containers = {c} BY DEF ManagedServer
    <2>7. Replaces(r)' BY <1>4, <2>2, <2>4, <2>5, <2>6 DEF Replaces
    <2> QED BY <1>e, <2>2, <2>4, <2>7 DEF Editing, Target
  <1>8. CASE FindRefused(r) BY <1>8, <1>o DEF FindRefused, At
  <1>9. CASE CreateReplacement(r)
    <2> DEFINE C == docker[s].containers \cup {Replacement(r)}
               v == Mounted(docker[s].volume)
    <2>1. docker' = [docker EXCEPT ![s] = [@ EXCEPT !.containers = C, !.volume = v]] /\ row' = row /\ req[r].pc = "create"
      BY <1>9 DEF CreateReplacement, At
    <2> HIDE DEF C, v
    <2>2. docker'[s] = [docker[s] EXCEPT !.containers = C, !.volume = v] BY <1>0, <2>1
    <2>3. docker'[s].containers = C BY <1>0, <2>2 DEF Resources
    <2>4. PICK c \in docker[s].containers :
             docker[s].containers = {c} /\ Fits(r, c) /\ c.running = FALSE /\ c.id = req[r].found
      BY <1>4, <2>1 DEF Replaces
    <2>5. C = {c, Replacement(r)} BY <2>4 DEF C
    <2>6. c.id # Own(r)
      <3>1. SUFFICES ASSUME c.id = <<r, req[r].phase>> PROVE FALSE BY DEF Own
      <3>2. Named(s, r, req[r].phase) BY <1>0, <1>p, <3>1 DEF Names, Phases
      <3> QED BY <2>1, <3>2 DEF Named
    <2>7. Goto(r, "remove") BY <1>9 DEF CreateReplacement
    <2>8. Replaces(r)' BY <1>g, <2>1, <2>3, <2>4, <2>5, <2>6, <2>7 DEF Replaces
    <2> QED BY <1>e, <1>g, <2>1, <2>7, <2>8 DEF Editing
  <1>c. ASSUME req[r].pc \in {"remove", "drop"}
        PROVE  \E c \in docker[s].containers :
                 /\ Fits(r, c) /\ c.running = FALSE /\ c.id = req[r].found
                 /\ Without(s, req[r].found) = {Replacement(r)}
                 /\ Without(s, Own(r)) = {c}
    <2>1. PICK c \in docker[s].containers :
             /\ docker[s].containers = {c, Replacement(r)} /\ Fits(r, c) /\ c.running = FALSE
             /\ c.id = req[r].found /\ c.id # Own(r)
      BY <1>4, <1>c DEF Replaces
    <2>2. Replacement(r).id = Own(r) BY DEF Replacement, Own
    <2> QED BY <2>1, <2>2 DEF Without
  <1>i. ASSUME NEW C, docker' = [docker EXCEPT ![s].containers = C] PROVE docker'[s].containers = C
    BY <1>0, <1>i DEF Resources
  <1>10. CASE RemoveReplaced(r)
    <2>1. /\ docker' = [docker EXCEPT ![s].containers = Without(s, req[r].found)] /\ row' = row
          /\ req[r].pc = "remove"
          /\ IF req[r].phase = "apply" THEN Goto(r, "commit") ELSE Finish(r)
      BY <1>10 DEF RemoveReplaced, At
    <2>2. docker'[s].containers = {Replacement(r)} BY <1>c, <1>i, <2>1
    <2>3. CASE req[r].phase = "apply"
      <3>1. Goto(r, "commit") BY <2>1, <2>3
      <3>2. Replaces(r)' BY <1>g, <2>2, <3>1 DEF Replaces
      <3> QED BY <1>e, <1>g, <2>1, <3>1, <3>2 DEF Editing
    <2>4. CASE req[r].phase = "undo"
      <3>1. Replacement(r).config = req[r].old /\ Replacement(r).running = FALSE BY <2>4 DEF Replacement, Asked
      <3>2. req[r].old = row[s].config BY <1>1, <1>4 DEF VersionVouches
      <3>3. \A c : c.config = row[s].config => Describes(s, c)' BY <2>1 DEF Describes
      <3>4. Described(s)' BY <1>1, <1>4, <2>1, <2>2, <3>1, <3>2, <3>3 DEF Described
      <3> QED BY <1>d, <1>f, <2>1, <2>4, <3>4
    <2> QED BY <1>p, <2>3, <2>4
  <1>11. CASE RemoveRefused(r) BY <1>11, <1>x DEF RemoveRefused, At
  <1>12. CASE DropReplacement(r)
    <2>1. /\ docker' = [docker EXCEPT ![s].containers = Without(s, Own(r))] /\ row' = row /\ req[r].pc = "drop"
          /\ Refused(r)
      BY <1>12 DEF DropReplacement, At, Own
    <2>2. PICK c \in docker[s].containers :
             Fits(r, c) /\ c.running = FALSE /\ Without(s, Own(r)) = {c}
      BY <1>c, <2>1
    <2>3. docker'[s].containers = {c} BY <1>i, <2>1, <2>2
    <2>4. req'[r].pc = "done" /\ \A d : Fits(r, d) => Describes(s, d)' BY <1>w, <2>1 DEF Fits, Describes
    <2>5. Described(s)' BY <1>1, <1>4, <2>1, <2>2, <2>3, <2>4 DEF Described
    <2> QED BY <1>d, <2>4, <2>5
  <1>13. CASE Commit(r)
    <2>1. req[r].pc = "commit" /\ docker' = docker /\ Finish(r) BY <1>13 DEF Commit, At
    <2>2. req[r].phase = "apply" BY <1>0, <2>1 DEF Handlers
    <2>3. docker'[s].containers = {Replacement(r)} BY <1>4, <2>1 DEF Replaces
    <2>4. Replacement(r).config = req[r].new /\ Replacement(r).running = FALSE BY <2>2 DEF Replacement, Asked
    <2> DEFINE k == row'[s].config
               d == IF req[r].kind = "variables" THEN r ELSE req[r].new.definitions
    <2>5. k = [req[r].new EXCEPT !.definitions = d] BY <1>0, <1>13, CommitStores
    <2>6. req[r].new \in Config /\ Replacement(r).id = <<r, "apply">> BY <1>0, <2>2 DEF Request, Replacement
    <2> HIDE DEF k
    <2>7. /\ k.startup = req[r].new.startup /\ k.settings = req[r].new.settings
          /\ k.ports = req[r].new.ports /\ k.definitions = d
      BY <2>5, <2>6 DEF Config
    <2>8. d = req[r].new.definitions \/ d = r OBVIOUS
    <2> HIDE DEF d
    <2>9. \A c : c = Replacement(r) => Describes(s, c)' BY <2>4, <2>6, <2>7, <2>8 DEF Describes, k
    <2>10. Described(s)' BY <1>1, <1>4, <2>3, <2>4, <2>9 DEF Described
    <2> QED BY <1>d, <1>f, <2>1, <2>10
  <1>14. CASE CommitConflict(r) \/ FailCommit(r)
    <2>1. req[r].pc = "commit" /\ docker' = docker /\ row' = row /\ RolledBack(r)
      BY <1>14 DEF CommitConflict, FailCommit, At
    <2>2. req[r].phase = "apply" BY <1>0, <2>1 DEF Handlers
    <2>3. docker'[s].containers = {Replacement(r)} BY <1>4, <2>1 DEF Replaces
    <2>4. Replacement(r).config = req[r].new /\ Replacement(r).running = FALSE BY <2>2 DEF Replacement, Asked
    <2>5. req'[r] = [req[r] EXCEPT !.pc = "find", !.phase = "undo"] BY <1>0, <2>1 DEF RolledBack
    <2>6. /\ req'[r].pc = "find" /\ req'[r].phase = "undo" /\ req'[r].server = req[r].server
          /\ req'[r].version = req[r].version /\ req'[r].new = req[r].new
      BY <1>0, <2>5 DEF Request
    <2>7. Target(r)' = s /\ \A c : Fits(r, c)' BY <2>6 DEF Target, Fits
    <2>8. Replaces(r)' BY <2>3, <2>4, <2>6, <2>7 DEF Replaces
    <2> QED BY <1>e, <2>1, <2>6, <2>8 DEF Editing, Target
  <1>15. CASE FailReplace(r)
    <2>1. docker' = docker /\ row' = row BY <1>15 DEF FailReplace
    <2>2. CASE (At(r, "find") \/ At(r, "create")) /\ Refused(r) BY <1>o, <2>1, <2>2 DEF At
    <2>3. CASE At(r, "remove") /\ Goto(r, "drop") BY <1>x, <2>1, <2>3 DEF At
    <2> QED BY <1>15, <2>2, <2>3 DEF FailReplace
  <1>16. ~LoseRemoval(r) /\ ~FailDrop(r) /\ ~Abort(r)
    <2>1. ASSUME NEW what, Mark(s, what) PROVE what = {}
      <3>1. odd'[s] = odd[s] \cup what BY <1>0, <2>1, MarkOwn
      <3> QED BY <3>1
    <2>2. LoseRemoval(r) => Mark(s, {"lost"}) BY DEF LoseRemoval
    <2>3. (Abort(r) => Mark(s, {"cut"})) /\ (FailDrop(r) => Mark(s, {"left"})) BY DEF Abort, FailDrop
    <2> QED BY <2>1, <2>2, <2>3
  <1> HIDE DEF Goal
  <1> QED
    BY <1>6, <1>7, <1>8, <1>9, <1>10, <1>11, <1>12, <1>13, <1>14, <1>15, <1>16 DEF Edit

-----------------------------------------------------------------------------
(* Deletions, a crash of the engine, and what they leave.                  *)

\* Deletions keep what is said of their server: one that meets no other work has removed
\* everything by the time the row is marked as deleted.
LEMMA DeleteLeft ==
  ASSUME KeepInv, NEW s \in Servers, LeftAt(s), NEW r \in Requests, Delete(r), Target(r) = s
  PROVE  LeftAt(s)'
  <1>0. /\ TypeOK /\ Handlers /\ MountsAt(s) /\ AloneAt(s) /\ BuildingAt(s)
        /\ req \in [Requests -> Request] /\ row \in [Servers -> Row]
        /\ docker \in [Servers -> Resources] /\ docker[s] \in Resources
    BY DEF KeepInv, LeftAt, TypeOK
  <1>1. /\ Deleting(r) /\ odd' = odd /\ job' = job
        /\ \A q \in Requests \ {r} : req'[q] = req[q]
        /\ req'[r].pc = "done" \/ (Deleting(r)' /\ req'[r].server = req[r].server)
        /\ docker'[s].containers \subseteq docker[s].containers
        /\ row'[s].status \in {row[s].status, "deleting"}
    BY <1>0, DeleteFrame
  <1>2. "deletion" \in odd[s] BY <1>0, <1>1 DEF Handlers
  <1>3. MatchingAt(s)' BY <1>1, <1>2 DEF MatchingAt
  <1>4. On(r, s) /\ Busy(s) /\ \A q \in Requests : On(q, s)' => On(q, s)
    <2>1. On(r, s) BY <1>1 DEF On, InFlight, Deleting
    <2> QED BY <1>1, <2>1, BusyOn DEF On, InFlight, Target
  <1>5. row[s].deleted \in BOOLEAN BY <1>0 DEF Row
  <1>6. ASSUME "overlap" \notin odd[s]
        PROVE  /\ ~AtWork(s) /\ ~Powering(s) /\ row[s].deleted = FALSE /\ \A q \in Requests : On(q, s) => q = r
               /\ req[r].pc \in {"dContainer", "dNetwork", "dVolume"} => docker[s].helper = {}
               /\ req[r].pc = "dVolume" => docker[s].network = FALSE
               /\ req[r].pc = "dFinal" => Empty(s)
    BY <1>0, <1>4, <1>5, <1>6 DEF AloneAt
  <1>7. ASSUME row'[s] = row[s], MountsAt(s)',
               "overlap" \notin odd[s] /\ req'[r].pc # "done" =>
                 /\ req'[r].pc \in {"dContainer", "dNetwork", "dVolume"} => docker'[s].helper = {}
                 /\ req'[r].pc = "dVolume" => docker'[s].network = FALSE
                 /\ req'[r].pc = "dFinal" => Empty(s)'
        PROVE  LeftAt(s)'
    <2>1. (AtWork(s)' <=> AtWork(s)) /\ (Powering(s)' <=> Powering(s)) BY <1>1, <1>7 DEF AtWork, Powering
    <2>2. req'[r].pc = "done" => ~On(r, s)' BY DEF On, InFlight
    <2>3. AloneAt(s)' BY <1>1, <1>4, <1>6, <1>7, <2>1, <2>2 DEF AloneAt
    <2>4. BuildingAt(s)' BY <1>0, <1>1, <1>2, <1>7 DEF BuildingAt
    <2> QED BY <1>3, <1>7, <2>3, <2>4 DEF LeftAt
  <1>g. ASSUME NEW pc, Goto(r, pc) PROVE req'[r].pc = pc BY <1>0, <1>g DEF Goto, Request
  <1>h. ASSUME NEW from, NEW to, NEW x, DeleteStep(r, from, to, x)
        PROVE  req[r].pc = from /\ req'[r].pc = to /\ row' = row /\ docker'[s] = x
    <2>1. docker' = [docker EXCEPT ![s] = x] /\ Goto(r, to) /\ row' = row /\ req[r].pc = from
      BY <1>h DEF DeleteStep, At
    <2> QED BY <1>0, <1>g, <2>1
  <1>8. CASE DeleteHelpers(r)
    <2>1. req'[r].pc = "dContainer" /\ row' = row /\ docker'[s] = [docker[s] EXCEPT !.helper = {}]
      BY <1>8, <1>h DEF DeleteHelpers
    <2>2. docker'[s].helper = {} /\ docker'[s].volume = docker[s].volume BY <1>0, <2>1 DEF Resources
    <2>3. MountsAt(s)' BY <1>0, <1>1, <2>2 DEF MountsAt
    <2> QED BY <1>7, <2>1, <2>2, <2>3
  <1>9. CASE DeleteContainer(r)
    <2> DEFINE C == docker[s].containers \ ManagedServer(s)
    <2>1. /\ req[r].pc = "dContainer" /\ req'[r].pc = "dNetwork" /\ row' = row
          /\ docker'[s] = [docker[s] EXCEPT !.containers = C]
      BY <1>9, <1>h DEF DeleteContainer
    <2> HIDE DEF C
    <2>2. docker'[s].helper = docker[s].helper /\ docker'[s].volume = docker[s].volume BY <1>0, <2>1 DEF Resources
    <2>3. MountsAt(s)' BY <1>0, <1>1, <2>2 DEF MountsAt
    <2> QED BY <1>6, <1>7, <2>1, <2>2, <2>3
  <1>10. CASE DeleteNetwork(r)
    <2>1. /\ req[r].pc = "dNetwork" /\ req'[r].pc = "dVolume" /\ row' = row
          /\ docker'[s] = [docker[s] EXCEPT !.network = FALSE]
      BY <1>10, <1>h DEF DeleteNetwork
    <2>2. /\ docker'[s].helper = docker[s].helper /\ docker'[s].volume = docker[s].volume
          /\ docker'[s].network = FALSE
      BY <1>0, <2>1 DEF Resources
    <2>3. MountsAt(s)' BY <1>0, <1>1, <2>2 DEF MountsAt
    <2> QED BY <1>6, <1>7, <2>1, <2>2, <2>3
  <1>11. CASE DeleteVolume(r)
    <2>1. /\ req[r].pc = "dVolume" /\ req'[r].pc = "dFinal" /\ row' = row
          /\ docker'[s] = [docker[s] EXCEPT !.volume = "none"]
          /\ docker[s].volume # "none" => ~VolumeInUse(s)
      BY <1>11, <1>h DEF DeleteVolume
    <2>2. /\ docker'[s].helper = docker[s].helper /\ docker'[s].volume = "none"
          /\ docker'[s].network = docker[s].network
      BY <1>0, <2>1 DEF Resources
    <2>3. docker'[s].containers = {} BY <1>0, <1>1, <2>1 DEF MountsAt, VolumeInUse
    <2>4. MountsAt(s)' BY <2>3 DEF MountsAt
    <2>5. "overlap" \notin odd[s] => Empty(s)' BY <1>6, <2>1, <2>2, <2>3 DEF Empty, Has
    <2> QED BY <1>7, <2>1, <2>4, <2>5
  <1>12. CASE DeleteRefused(r) \/ FailDelete(r)
    <2>1. row' = row /\ docker' = docker /\ req'[r].pc = "done"
      BY <1>0, <1>12, FinishDone DEF DeleteRefused, FailDelete
    <2>2. MountsAt(s)' BY <1>0, <2>1 DEF MountsAt
    <2> QED BY <1>7, <2>1, <2>2
  <1>13. CASE FinalizeDeletion(r)
    <2>1. docker' = docker /\ req'[r].pc = "done" /\ req[r].pc = "dFinal"
      BY <1>0, <1>13, FinishDone DEF FinalizeDeletion, At
    <2>2. MountsAt(s)' BY <1>0, <2>1 DEF MountsAt
    <2>3. CASE row' = row BY <1>7, <2>1, <2>2, <2>3
    <2>4. CASE row' # row
      <3> DEFINE v == NextVersion(s)
      <3>1. row' = [row EXCEPT ![s] = [@ EXCEPT !.status = "deleting", !.deleted = TRUE, !.version = v]]
        BY <1>13, <2>4 DEF FinalizeDeletion
      <3> HIDE DEF v
      <3>2. row'[s] = [row[s] EXCEPT !.status = "deleting", !.deleted = TRUE, !.version = v] BY <1>0, <3>1
      <3>3. row'[s].status = "deleting" /\ row'[s].config = row[s].config BY <1>0, <3>2 DEF Row
      <3>4. BuildingAt(s)' BY <1>0, <1>1, <1>2, <3>3 DEF BuildingAt
      <3>5. AloneAt(s)'
        <4>1. ~On(r, s)' BY <2>1 DEF On, InFlight
        <4>2. "overlap" \notin odd[s] => \A q \in Requests : ~On(q, s)' BY <1>4, <1>6, <4>1
        <4>3. Busy(s)' <=> \E q \in Requests : On(q, s)' BY DEF Busy, On, Target
        <4>4. "overlap" \notin odd[s] => ~AtWork(s)' /\ ~Powering(s)' /\ Empty(s)'
          BY <1>1, <1>6, <2>1, <3>3 DEF AtWork, Powering, Empty, Has
        <4> QED BY <1>1, <4>2, <4>3, <4>4 DEF AloneAt
      <3> QED BY <1>3, <2>2, <3>4, <3>5 DEF LeftAt
    <2> QED BY <2>3, <2>4
  <1> QED BY <1>8, <1>9, <1>10, <1>11, <1>12, <1>13 DEF Delete

\* A crash of the engine keeps what is said of every server: those whose calls it ends
\* are marked.
LEMMA CrashLeft ==
  ASSUME KeepInv, NEW s \in Servers, LeftAt(s), EngineCrash
  PROVE  LeftAt(s)'
  <1>0. /\ TypeOK /\ MountsAt(s) /\ AloneAt(s) /\ BuildingAt(s)
        /\ req \in [Requests -> Request] /\ job \in [Servers -> Job]
    BY DEF KeepInv, LeftAt, TypeOK
  <1>1. row' = row /\ docker' = docker BY DEF EngineCrash
  <1>2. \A q \in Requests : IF req[q].pc \in EngineCalls THEN req'[q].pc = "done" ELSE req'[q] = req[q]
    BY DEF EngineCrash, Idle, NewRequest
  <1>3. IF AtWork(s) /\ job[s].pc \notin {"ok", "error"} THEN job'[s].pc = "error" ELSE job'[s] = job[s]
    BY <1>0 DEF EngineCrash, Job
  <1>4. odd'[s] = IF \/ AtWork(s) /\ job[s].pc \notin {"ok", "error"}
                     \/ \E q \in Requests : req[q].pc \in EngineCalls /\ Target(q) = s
                  THEN odd[s] \cup {"cut"} ELSE odd[s]
    BY DEF EngineCrash
  <1>5. \A q \in Requests : On(q, s)' => On(q, s) /\ req'[q] = req[q] BY <1>2 DEF On, InFlight, Target
  <1>6. AtWork(s)' => AtWork(s) BY <1>3 DEF AtWork
  <1>7. MountsAt(s)' BY <1>0, <1>1 DEF MountsAt
  <1>8. AloneAt(s)'
    <2>1. Busy(s)' => Busy(s)
      <3>1. Busy(s)' <=> \E q \in Requests : On(q, s)' BY DEF Busy, On, Target
      <3> QED BY <1>5, <3>1, BusyOn
    <2>2. Powering(s)' <=> Powering(s) BY <1>1 DEF Powering
    <2>3. "overlap" \notin odd'[s] => "overlap" \notin odd[s] BY <1>4
    <2> QED BY <1>0, <1>1, <1>5, <1>6, <2>1, <2>2, <2>3 DEF AloneAt, Empty, Has
  <1>9. CASE odd'[s] = {}
    <2>1. /\ odd[s] = {} /\ job'[s] = job[s]
          /\ \A q \in Requests : Target(q) = s => req'[q] = req[q]
      BY <1>2, <1>3, <1>4, <1>9
    <2>2. \A q \in Requests : On(q, s) => On(q, s)' BY <2>1 DEF On, InFlight, Target
    <2>3. Untouched(s) BY <1>1, <1>5, <1>9, <2>1, <2>2 DEF Untouched, On
    <2> QED BY <2>3, UntouchedKeeps
  <1>10. CASE odd'[s] # {}
    <2>1. BuildingAt(s)' BY <1>0, <1>1, <1>3, <1>10 DEF BuildingAt
    <2>2. MatchingAt(s)' BY <1>10 DEF MatchingAt
    <2> QED BY <1>7, <1>8, <2>1, <2>2 DEF LeftAt
  <1> QED BY <1>9, <1>10

-----------------------------------------------------------------------------
(* What is left, and what the row describes.                               *)

\* The servers that exist at the start have what a provisioned one has, the others nothing.
LEMMA LeftInit == Init => LeftInv
  <1> SUFFICES ASSUME Init PROVE LeftInv OBVIOUS
  <1> SUFFICES ASSUME NEW s \in Servers PROVE LeftAt(s) BY KeepInit, VouchesInit DEF LeftInv
  <1>1. \A r \in Requests : ~On(r, s) BY DEF Init, On, InFlight, Idle, NewRequest
  <1>2. row[s].deleted = FALSE /\ odd[s] = {} /\ row[s].config = FirstConfig(s) BY DEF Init
  <1>3. CASE s \in Existing
    <2> DEFINE c == [id |-> s, config |-> FirstConfig(s), running |-> FALSE]
    <2>1. /\ job[s].pc = "done" /\ row[s].status = "stopped" /\ docker[s].containers = {c}
          /\ docker[s].network = TRUE /\ docker[s].volume = "installed"
      BY <1>3 DEF Init
    <2>2. c.config = FirstConfig(s) /\ c.running = FALSE OBVIOUS
    <2> HIDE DEF c
    <2>3. Described(s) BY <1>2, <2>1, <2>2 DEF Described, Describes
    <2> QED BY <1>1, <1>2, <2>1, <2>3, BusyOn DEF LeftAt, MountsAt, AloneAt, BuildingAt, MatchingAt
  <1>4. CASE s \notin Existing
    <2>1. job[s].pc = "none" /\ Empty(s) BY <1>4 DEF Init, Nothing, Empty, Has
    <2>2. MountsAt(s) BY <2>1 DEF MountsAt, Empty
    <2> QED BY <1>1, <1>2, <2>1, <2>2, BusyOn DEF LeftAt, AloneAt, BuildingAt, MatchingAt
  <1> QED BY <1>3, <1>4

\* Every step keeps the invariant.
LEMMA LeftStep == LeftInv /\ [Next]_vars => LeftInv'
  <1> SUFFICES ASSUME LeftInv, [Next]_vars PROVE LeftInv' OBVIOUS
  <1>0. KeepInv /\ VersionVouches /\ TypeOK BY DEF LeftInv, KeepInv
  <1>1. KeepInv' /\ VersionVouches' BY <1>0, KeepStep, VouchesStep
  <1> SUFFICES ASSUME NEW s \in Servers PROVE LeftAt(s)' BY <1>1 DEF LeftInv
  <1>2. LeftAt(s) BY DEF LeftInv
  <1>3. CASE UNCHANGED vars
    <2>1. Untouched(s) BY <1>3 DEF vars, Untouched, On, InFlight, Target
    <2> QED BY <1>2, <2>1, UntouchedKeeps
  <1>4. ASSUME NEW t \in Servers,
               \/ \E start \in BOOLEAN : CreateServer(t, start)
               \/ Provision(t) \/ ProvisionFault(t) \/ Power(t)
        PROVE  LeftAt(s)'
    <2>1. CASE t # s BY <1>0, <1>2, <1>4, <2>1, OtherServers, UntouchedKeeps
    <2>2. CASE t = s BY <1>0, <1>2, <1>4, <2>2, ProvisionLeft, PowerLeft
    <2> QED BY <2>1, <2>2
  <1>5. ASSUME NEW r \in Requests, Edit(r) \/ Delete(r)
        PROVE  LeftAt(s)'
    <2>1. CASE Target(r) # s BY <1>0, <1>2, <1>5, <2>1, OtherHandlers, UntouchedKeeps
    <2>2. CASE Target(r) = s /\ Delete(r) BY <1>0, <1>2, <2>2, DeleteLeft
    <2>3. CASE Target(r) = s /\ Edit(r) BY <1>0, <1>2, <2>3, EditAlone, EditMatching DEF LeftAt
    <2> QED BY <1>5, <2>1, <2>2, <2>3
  <1>6. ASSUME NEW r \in Requests, Begin(r) PROVE LeftAt(s)' BY <1>0, <1>2, <1>6, BeginLeft
  <1>7. ASSUME NEW r \in Requests, Handle(r) \/ Disturb(r) PROVE LeftAt(s)'
    <2>1. Edit(r) \/ Delete(r) BY <1>7 DEF Handle, Disturb, Edit, Delete
    <2> QED BY <1>5, <2>1
  <1>8. CASE EngineCrash BY <1>0, <1>2, <1>8, CrashLeft
  <1> QED BY <1>3, <1>4, <1>6, <1>7, <1>8 DEF Next

\* Nothing is left in Docker of a deleted server, unless something else was at work on it
\* meanwhile, nor of one whose provisioning was given up, unless the engine stopped in
\* the middle of it or ignored that a removal failed (createServerResources): for any
\* number of servers, handlers, attempts and faults.
THEOREM NothingIsLeft == Spec => []NothingLeft
  <1>1. ASSUME LeftInv PROVE NothingLeft
    <2> SUFFICES ASSUME NEW s \in Servers,
                        \/ row[s].deleted /\ "overlap" \notin odd[s]
                        \/ job[s].pc = "gaveUp" /\ odd[s] = {}
                 PROVE  docker[s] = Nothing
      BY DEF NothingLeft
    <2>1. docker[s] \in Resources /\ row[s].deleted \in BOOLEAN BY <1>1 DEF LeftInv, KeepInv, TypeOK, Row
    <2>2. Empty(s) BY <1>1, <2>1 DEF LeftInv, LeftAt, AloneAt, BuildingAt
    <2>3. \A x, y \in Resources : /\ x.containers = y.containers /\ x.network = y.network
                                  /\ x.volume = y.volume /\ x.helper = y.helper
                                  => x = y
      BY DEF Resources
    <2>4. Nothing \in Resources BY DEF Nothing, Resources
    <2>5. Nothing.containers = {} /\ Nothing.network = FALSE /\ Nothing.volume = "none" /\ Nothing.helper = {}
      BY DEF Nothing
    <2> QED BY <2>1, <2>2, <2>3, <2>4, <2>5 DEF Empty, Has
  <1> QED BY <1>1, LeftInit, LeftStep, PTL DEF Spec

\* Once its handlers are done with a server, its only container is the one that its row
\* describes, on its network and its installed volume, unless something odd happened to
\* it: for any number of edits, failed replacements and failed commits.
THEOREM RowDescribesContainer == Spec => []RowMatchesContainer
  <1>1. ASSUME LeftInv PROVE RowMatchesContainer
    <2> SUFFICES ASSUME NEW s \in Servers, job[s].pc = "done", odd[s] = {}, ~Busy(s),
                        row[s].status \in {"stopped", "running"}
                 PROVE  /\ docker[s].network /\ docker[s].volume = "installed"
                        /\ \E c \in docker[s].containers :
                             /\ docker[s].containers = {c}
                             /\ Describes(s, c) /\ c.running = (row[s].status = "running")
      BY DEF RowMatchesContainer, AtRest
    <2>1. BuildingAt(s) /\ MatchingAt(s) BY <1>1 DEF LeftInv, LeftAt
    <2>2. docker[s].network /\ docker[s].volume = "installed" BY <2>1 DEF BuildingAt
    <2>3. PICK c \in docker[s].containers :
             /\ docker[s].containers = {c} /\ Describes(s, c)
             /\ row[s].status = "stopped" => c.running = FALSE
             /\ row[s].status = "running" => c.running = TRUE
      BY <2>1 DEF MatchingAt, Described
    <2>4. c.running = (row[s].status = "running")
      <3>1. CASE row[s].status = "running" BY <2>3, <3>1
      <3>2. CASE row[s].status = "stopped" BY <2>3, <3>2
      <3> QED BY <3>1, <3>2
    <2> QED BY <2>2, <2>3, <2>4
  <1> QED BY <1>1, LeftInit, LeftStep, PTL DEF Spec
=============================================================================
