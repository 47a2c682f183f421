# Game panel: TLA+ models

The panel runs game servers in Docker containers. Three processes share one
PostgreSQL database:

* the **app** serves the HTTP API, one goroutine per request
  (`internal/httpapi`, `internal/store`);
* the **worker** is one goroutine that selects among tickers: it drains the
  transactional outbox, applies telemetry, enqueues due schedules, sends
  webhooks and expires backups (`internal/worker`);
* the **engine** holds the Docker socket and serves both of them over HTTP
  (`internal/engine`, `internal/engineclient`). It keeps no state of its own
  besides containers, volumes and archive files, and serialises nothing.

A database transaction or statement is atomic. Everything else is a sequence
of statements, engine calls and Docker calls with every other process between
any two of them, and each process may die anywhere. The models take exactly
those steps.

## Inventory

| Component | State | Operations | What makes it correct |
|---|---|---|---|
| server lifecycle (`store/servers.go`, `store/telemetry.go`, `engine/server.go`, `engine/stats.go`, `httpapi/server_handlers.go`) | row of `servers` (`status`, `desired_state`, `stop_reason`, `recovery_attempts`), rows of `operations`, the container and its restart policy | power requests, console commands that restart, deletion, telemetry, automatic recovery | a stop request is kept, recovery never gives up and never acts on a cancelled request |
| outbox and worker loop (`worker/worker.go`) | `outbox_events`: `processed_at`, `available_at`, `locked_by`, `locked_at`, `attempts` | claim with a lease, acknowledge, retry with backoff, cancel | nothing lost, nothing retired unhandled, a late worker does not release its successor's claim, no starvation |
| backup restore, template update (`store/backups.go`, `store/template_updates.go`, `worker/worker.go`, `engine/backups.go`, `engine/provision.go`) | `operations`, template version in `servers`, container, volume, archives, the engine's safety archive | request, stop, archive, switch, install, reconfigure, restore, roll back, restart, record | files, row and container all old or all new; no data without a copy; server returned to service |
| backup catalogue and delivery (`store/backups.go`, `engine/backups.go`, `webhooks/client.go`) | `backups`, `backup_deliveries`, archive files | create, lock, delete, expire, upload to Discord, retry | a ready backup has its archive, locks hold, backups, uploads and retention come to an end |
| schedules (`store/schedules.go`) | `schedules`, `schedule_tasks`, `schedule_runs` | create, edit, toggle, delete, run now, enqueue, execute | runs do not overlap, every run ends, a schedule keeps running |
| webhooks (`store/webhooks.go`, `webhooks/client.go`) | `webhook_deliveries` with a lease in `next_attempt_at` | trigger, claim, send, finish, retry | every event delivered or given up |
| provisioning and deletion (`store/servers.go`, `engine/provision.go`, `worker/worker.go`) | server row, ports, the provision event, volume, network, installer and container in Docker | create and allocate ports, install, start, remove what is half made, retry, delete | no port in two rows, nothing left of a server deleted or given up, a provisioned server has the container its row describes |
| runtime configuration (`store/configuration.go`, `httpapi/configuration_handlers.go`, `engine/provision.go`) | startup, settings and ports of a row and its version; the container | read, replace the container, commit, roll back | row and container agree, the commit is what the engine was asked for, no edit loses the container or removes a running one |
| panel update (`engine/update.go`, `engine/update_helper.go`) | status and plan files, helper container, snapshots, installed files, schema, services | request, download, stop, snapshot, replace, health gates, resume, roll back | the status is true, a whole snapshot is always there, what was stopped is started again, an update ends |
| server databases (`store/databases.go`, `engine/databases.go`) | `server_databases`, `server_database_hosts`, the host's container and volume, roles and databases | create, rotate, delete, remove the host with the last one | a ready database works with its stored password, the host lives as long as the rows, none survives its server |
| console, template catalogue, access control | their tables; the console's ring of frames | fan out frames, synchronise versions, grant roles | planned, see below |
| file manager, host information, wiring, web interface | none that a protocol depends on | reads and streams | not modelled |

How they interact: the app writes a row and an outbox event in one
transaction; the worker claims the event, calls the engine and records the
result in further transactions. Telemetry, also in the worker, writes the same
row from snapshots taken earlier, and queues `server.recover` events. Schedules
call the same store operations as the app. A power action that a user requests
calls the engine from the app's handler; one that a schedule requests goes
through the outbox. Kill overtakes everything else. Edits of a configuration,
databases and deletions call the engine from their handlers, between two
transactions of their own.

What is hard in it: the app's handlers and the worker interleave on one row and
one container; the engine inspects and acts in separate Docker calls; snapshots
are applied late; handlers outlive their lease; events are delivered again after
a crash, with the database already changed; an engine call may fail, take effect
and fail, or go on after its caller gave up; rollbacks fail too. `PROJECT.json`
lists these hazards at their lines.

## Modules

`PowerRules` has the operators that lifecycle, workflow and scheduler share: what
each power action asks of the row (`Transition`, `DesiredBy`) and of Docker
(`DockerCall`, `DockerResult`).

**`ServerLifecycle`** is one provisioned server. `srv` is its row, `recEv` the
unprocessed recovery events, `cont` the container, `req[r]` the handler of an HTTP
request and its operation row, `eng[c]` the engine's power handler serving caller `c`,
`wk` the worker. A power call takes three steps in the engine (`PowerPolicy`,
`PowerInspect`, `PowerAct`). `SyncRuntimeStats` is the whole telemetry transaction:
reason, attempt counter, new recovery event or its cancellation. `ClaimRecover`,
`BeginRecovery`, the call, `RecoveryStillDesired`, `RecoveryUndone`, `FinishRecovery`
and `Ack` are the handler of `server.recover`. A request of kind "workflow" is a restore
or a template update as far as it concerns row and container: `QueueWorkflow` writes a
stop and leaves queued recovery alone, the worker goes through the phases prepare, halt,
work, resume and record, and `FinishWorkflow` sets the row from the payload, whatever it
says by then. The history in the row, `asked` and `own`, tells what users asked for last
and whether a power, console or delete request has stored the stop. `ProcessExit`,
`DockerRestart` and the `Outside...` actions are the surroundings. Time is abstracted:
what is due may happen now or much later.

**`ServerLifecycleProofs`** has the theorems; so have the other modules named `...Proofs`,
each about the module it extends.

**`Outbox`** is the event table and its workers, with time: a tick is the second
between two polls, and leases and delays are counted in ticks. Handlers are
black boxes that may outlive their lease. **`WorkQueue`** is what the outbox
promises to those who write events: four actions, no leases, no workers.
`Outbox` implements it under the mapping `queue <- [e |-> ev[e].state]`.
**`OutboxProofs`** proves this and the properties of the leases.

**`ServerWorkflow`** runs a restore and template updates of one server. The
worker's program counter follows the handler in `worker.go`, the engine's follows
`restoreBackup`; a volume or an archive is its content, so that "the mandatory
backup holds the old files" can be said. Deliveries repeat after `Crash` and after
`Retry`, a statement whose error the handler returns. An event is claimed whatever the
engine is doing: the call that an earlier delivery gave up becomes one of `stray`, which
has lost its context and whose rollback goes on beside the new one (`Take`, `Stray`);
`Uncrossed` says that this has not happened. `EngineDrops` is the engine's answer to a
caller that is gone. The history `again` marks an update delivered again with its files
already changed, or beside such a call.

**`Backups`** is the catalogue of one server: rows, files, deliveries,
destinations, the users' requests and the worker. The two statements of
`CreateBackup`, the three of a deletion and the four of an upload are separate
steps. Discord and the engine's file operations are reduced to their outcomes.

**`Scheduler`** is one schedule with its runs, on a server whose power state and
backups others change too. Cron arithmetic is reduced to whether `next_run_at` is
null, ahead or reached.

**`ServerContainers`** is what several servers have in Docker and the three things that
make and unmake it. `row` is a server's rows, `job` its provision event with the
engine's call, `docker` its containers, network, volume and installer, `req[r]` the
handler of an edit or a deletion with its call. Each Docker call is a step: an edit is
found, created, removed (the old one), committed, and on the way back dropped or rolled
back; provisioning goes from `find` through `volume`, `network`, `installer`, `wait`,
`owner`, `create` and `start`, and `CleanedAfter` is what its deferred functions leave
when it fails. They ignore the errors of their removals, and so does the removal of a
replacement: `FailCleanup`, `LeaveInstaller`, `LeaveInitializer` and `FailDrop` leave
behind what Docker did not remove. A container's identity is the request that made it, a
configuration is who wrote its startup part, who the definitions of its variables, who
its settings part, and the ports. A startup request is of kind "variables" when it
brings other definitions and of kind "startup" when it keeps them: the engine makes the
container with the definitions in the rows, and the commit replaces them. `odd[s]`
records what happened to a server that the code does not undo: handlers that overlapped,
a deletion begun, an edit cut off, a removal whose answer was lost, something left by a
removal that failed unnoticed. **`ServerContainersProofs`** has the theorems.

**`Databases`** is one server's databases. Rows, the host's row, the host's
container and volume and what PostgreSQL holds are apart, because each is written
by another step. The host's container is created and then started, in two Docker calls;
only starting it needs the server's network. `CreateLeft` is a creation that fails and
whose cleanup fails too, which the code ignores; an engine that crashes cleans up
nothing. A database is named by the request that created it and a password
by the request that chose it, so that "the stored password is the role's" can be
said.

**`PanelUpdate`** is an installation that updates itself. `req[r]` is
`startPanelUpdate`, `hp[r]` the helper, whose program counter follows
`runUpdateHelper`, `createSnapshot`, `finalizeSnapshot`, `applyRelease` and
`rollback`. Versions of files and schema are `old`, `new`, `mixed` and `restored`, the old
release put back with additions of the new one beside it: the rollback unpacks files over
those it finds and replays a dump that drops only what was dumped (`Beside`), and it may
end between two statements. A service of the new release that cannot boot on the schema
it finds is restarted by Docker for ever. A game server runs, is about to be restarted by
Docker or neither (`ServerExits`, `RestartServer`), and is started and stopped for users,
recoveries and schedules (`ServerPower`); the helper lists those that run, and a stop that
returns an error may have taken effect. **`SafeReplacement`** is what the update
promises to the owner: the installation is `old`, `new` or `between`, it changes only
while there is a snapshot, and the last snapshot is never given up. `PanelUpdate`
implements it under the mapping `installed <- Held`, `fallback <- HasSnapshot`.

The `MC` modules add symmetry sets or the task lists of an instance; `Outbox`,
`Backups` and `PanelUpdate` need neither and are run as they are. A definition below a comment
`Mutant:` is a faulty variant of the one it precedes. No specification uses it:
each was put in the place of its original to see that a property notices.

## Runs

| Run | Asks | Result |
|---|---|---|
| `lifecycle_safety` | two requests of any kind, workflows among them, immediate or scheduled, race telemetry, recovery, exits, an error and a crash | recovery queue and requested state stay consistent, a stopped server stays offline |
| `lifecycle_liveness` | one request, all outside events, a failed engine call, a crash | recovery never gives up, status converges, operations finish |
| `outbox` | two workers, two older events that fail for ever with their backoff at its cap, one behind them that may be cancelled, expiring leases, a crash | claims are exclusive while leases last, a lock is released by its owner's report only, `WorkQueue` is implemented, the event behind is handled |
| `workflow` | a restore and an update with an installer, a stop or kill, a call that fails or is given up, a failed statement, a crash, and claims beside a call still served | all old or all new, returned to service, volume whole, files change only under their backup until the update is redone |
| `workflow_finishes` | a restore and an update without an installer, the same faults | every accepted workflow is recorded |
| `workflow_backup_lost` | an update with a crash | **violation**: the redelivered update archives changed files over the mandatory backup |
| `backups` | one backup, one destination, one deleter, two faults of any kind | a ready backup has its archive, locks hold, everything settles |
| `scheduler` | edits, toggles, manual runs, deletion, a user's stop, a fault, single tasks and a chain | no overlap, runs end, an enabled schedule keeps running |
| `server_containers` | a server is created, provisioned, edited, started and deleted by two requests that may overlap, next to one that has its port and whose ports are edited; one fault | rows and containers agree, no port in two rows, commits are what was asked for, no container lost or taken away while it runs, none left behind |
| `databases` | three requests create, rotate and delete, the server may be deleted; two faults | ready databases work, the host follows its rows and its server |
| `panel_update` | two updates in a row, a game server that exits, is restarted by Docker, and is started and stopped by others, a fault or kill | truthful status, a whole snapshot at all times, `SafeReplacement` is implemented, servers resumed, every accepted update is over some day and shown so |
| `panel_update_overlap` | two requests at a time | **violation**: two helpers work on one installation (`engine/update.go:71`) |

Four further configurations ask for what a text of the repository says and the code does
not do. TLC refutes each in a few steps; they are kept beside the runs so that a change
of code or text can be tried against them.

| Configuration | Property | The text, and what the counterexample shows |
|---|---|---|
| `DurableRequest.cfg` (`MCServerLifecycle`) | `DurableRequest` | `docs/PROJECT_PLAN.md:65`: "A running request is durable. Only an explicit panel Stop or Kill action may leave a game server offline". A start is accepted while a restore or update that found the server stopped is under way (`store/servers.go:829`), and its end writes stopped over it (`store/backups.go:496-505`, `store/template_updates.go:264-283`). |
| `StartupDefinitions.cfg` (`MCServerContainers`) | `VariablesInContainer` | `web/src/fleet-pages.tsx:2609` says of custom variables: "Server-only variables become container environment values". `ApplyStartupCandidate` is given the values only (`httpapi/configuration_handlers.go:144`); the definitions are replaced at the commit (`store/configuration.go:386`). A variable that an edit adds with a default and no value is not in the container it makes, and one that it removes still is, until the next edit. |
| `PanelRestored.cfg` (`PanelUpdate`) | `DatabaseRestored` | `engine/update_helper.go:138`: "Dockside automatically restored the prior panel version and database". Tables that the new release's migrations have added stay, since the dump drops only what was dumped (`update_helper.go:614, 842`). |
| `PanelQuiesced.cfg` (`PanelUpdate`) | `Quiesced` | `docs/UPDATES.md:37`: "The worker, running game servers, and app are stopped to quiesce writes." What runs is listed once (`update_helper.go:417`); a server started after that, or about to be restarted by Docker then, runs while its volumes are archived. |

### Bounds

`Max...` constants bound failures, crashes, edits and retries; each is a guard of
the action it bounds. They are chosen by what it takes to go wrong:

* Lifecycle: two requests, because every race the store guards against is one
  handler finishing after another was accepted; two recovery identities, because
  a second event is what `AtMostOneRecovery` is about; `RecoveryCap = 2` reaches
  the cap and stays there (the code's 5 adds attempts that are treated alike). One
  failed call or statement and one crash, with which a workflow is delivered twice.
  The liveness run has one request, and adds pauses and removals.
* Outbox: two workers and a lease of two ticks with handlers of up to three, so
  that a lease expires under a live handler and the successor is at work when the
  first returns. Two events fail for ever before one that does not. Shift and backoff
  reach their caps (3 for 8 and 5 for 300; in the code 2^8 is less than 300 and the shift
  is what limits the delay). No delay is requested by a handler; the theorems cover any.
* Workflow: each job once, so that one follows another on the state it left; one
  failed engine call besides the failures that the state itself causes; one failed
  statement and one crash, hence up to three deliveries. `workflow` has the restore,
  whose call outlives its caller, the update that has an installer, one stop or kill and
  one attempt at a backup; `workflow_finishes` has the update without an installer and two
  attempts, which keeps the liveness check small.
* Backups: one backup, because backups of a server share nothing but the check in
  `CreateBackup`; two attempts each for archives and uploads (3 and 10 in the
  code), so that the last one is reached by faults and by a retry; two faults,
  so that one may hit what was begun to repair the other.
* Scheduler: two runs, so that a second one can be due or be requested while the
  first is active; finished runs are history that nothing reads, and their
  identities are used again.
* Server containers: the server that comes into being has the two requests, so that
  edits overlap each other, a deletion or the provisioning; the other one owns the
  port the template prefers, so that allocation has to move and an edit can ask for
  a port that is taken. One power request falls between any two calls. `Tries = 3`
  is the code's. One fault: the properties excuse what a second one would repair.
  The ports of the other server are edited too (`Requested`), so that an allocation, or the
  commit of another edit, falls between an edit's reads and its commit and takes the port
  it asks for.
* Databases: three requests, the least with which a database exists while two others
  are created or removed; two faults, so that a cleanup can fail after a failure. What
  takes a fourth request is in the theorems.
* Panel update: a second update, so that a snapshot exists that it must not lose; one
  game server besides the three services; one fault, which may hit the
  rollback too, as a new release need not become healthy without any. The theorems cover
  any number. `Overlaps = FALSE` keeps the two updates apart, since the run
  `panel_update_overlap` shows what happens otherwise.
* The runs that show a violation have no more requests and faults than it takes.

Deadlock is checked where the system goes on by itself. `Backups`, `Scheduler`,
`ServerContainers`, `Databases` and `PanelUpdate` come to rest when users ask for
nothing more, and their configurations say `CHECK_DEADLOCK FALSE`.

Every module states a type invariant. It is no run's property: those of
`ServerLifecycle`, `ServerWorkflow`, `ServerContainers`, `Scheduler`, `PanelUpdate` and
`Databases` are proved instead.

### Fairness

Weak fairness is assumed of a handler's next step, of an engine call in progress and of
the worker's step within an event: a goroutine that can run does run, and Docker and
Discord answer or time out. Strong fairness is assumed of the worker's choice of what to
do when idle: its loop selects among tickers at random, and it takes the oldest event
that is due, so that an event is passed over only for older ones, each of which moves
into the future when it fails. `Outbox` shows that (`NoStarvation`), with weak fairness
of workers and of time only; the other modules rely on it. The update helper's steps,
the engine's request and Docker's restarts of panel services are weakly fair. Nothing is
assumed of users, faults, crashes or the world outside the panel.

`NoStarvation` has two provisos. From some time on handlers finish within their
lease: one that outlives it is handed to another worker, and two workers can take
an event from each other for ever. And the events that fail for ever are done with in
less time than each then waits: the loop takes one event a second, the oldest first, so
that with a delay of 256 seconds as many poison events that fail at once, or fewer that
take their time, keep a worker from everything newer. TLC shows the starvation when this
proviso is dropped.

### What the properties leave out

Some properties name conditions. Each is there because the code does not promise
more, and says where to look:

* `AllOrNothing` holds for failed engine calls, not for failed statements:
  `SetServerTemplateVersion` updates and reads in two statements, and a failure of
  the second is taken for a failure of both. Nor is it claimed after a crash: a
  redelivered update reads the version it has already switched to as the one to
  roll back to. Nor where a workflow was begun beside a call that an earlier one had
  given up (`Uncrossed`): the engine's rollback of a restore clears and fills the volume
  while the next workflow archives or changes it, and nothing keeps the two apart.
* `VolumeWhole` excludes installers, a rollback beside the next workflow as above, and a
  history in which an engine call and a statement have both failed.
* `BackupUntilRedone` speaks of an update until it is delivered again with its files
  already changed, or beside a call the engine still serves. A crash or a failed
  `FinishTemplateUpdate` leads there, and the archive of the changed files replaces the
  mandatory backup (`workflow_backup_lost`).
* `StopCancelsRecovery` is about the stop that a power, console or delete request stores
  (`own`). The requests of a restore and of a template update store one too and cancel
  nothing: the recovery stays queued, and `BeginRecovery` refuses it because the row says
  stopped.
* `RunningRequestKept` follows what users asked for last (`asked`), and excepts a workflow
  under way or one that found the server stopped: such a one writes stopped at its end,
  whatever was asked for meanwhile, which `DurableRequest.cfg` shows.
* `ReadyHasArchive` excludes a lost answer to a deletion, after which the row is
  restored without its file. `ExpiredRemoved` excludes crashes: a row left
  `deleting` is taken up by nobody.
* Uploads and schedule tasks are delivered at least once: a lost answer or a crash
  repeats them, and no property says otherwise.
* A kill that meets a restart between its inspection and its Docker call is undone
  by it; a kill that fails because an overlapping stop has succeeded turns the stop
  request back into a running one (`store/servers.go:936`). `StopKeepsOffline` is stated
  around the first (`OnlyStops`), and `asked` follows the second.
* A restore whose rollback fails removes the safety archive all the same
  (`engine/backups.go:244`); `VolumeWhole` is checked with one failed call, so that
  the rollback of a failed extraction does not fail too.
* A power task queues its operation behind the run that executes it, so that a
  backup or a second power task of the same chain is always refused. The run fails
  then; `RunFinishes` says no more than that it ends.
* `OperationsFinish` excludes a crash under the operation: an operation whose
  handler died in the app stays running.
* Two concurrent `CreateBackup` transactions may both pass their check. The model
  has the race; no property is claimed, and the run has one backup.
* A start is accepted in the middle of a restore, after which the engine refuses to go on;
  a kill during a restore is overwritten by its end, which starts the server again if it
  ran before. Both models have them, and no property forbids them.
* Events whose job is gone (a create event redelivered after its success, a
  delivery or run whose row was deleted) fail for ever. They are the poison events
  of `Outbox`.
* A deleted schedule does not stop a run that has already read its tasks.
* `RowMatchesContainer` and `CommitsWhatWasAsked` except definitions of variables that the
  edit itself has replaced, which its container was made without; the next edit brings
  them in (`StartupDefinitions.cfg`). The names of ports that an edit of the network takes
  away stay in the environment likewise; the environment is not modelled further.
* `RowMatchesContainer` is about edits that do not overlap. Of two that do, the one
  that commits second is refused and rolls back to the configuration it had read,
  before the first; a start accepted between replacement and commit makes the commit
  fail and the rollback be refused; an app that stops between the two leaves the new
  container to the old row. `KeepsContainer` and `RunningKept` hold through all of
  this, but not when Docker removes the old container and the engine is told that it
  failed: the deferred function then removes the replacement too. A replacement whose
  removal fails unnoticed ("left") stays beside the container it was to replace, and the
  server is found ambiguous from then on.
* `NothingLeft` excuses a deletion that overlaps other handlers: provisioning goes on
  creating after the deletion has passed. Of a server whose provisioning was given up it
  excuses a removal whose failure the code ignored, and a call that a crash cut off; a
  deletion removes what such failures have left.
* `PortsExclusive` rests on `CreateServer`'s and `CommitServerPorts`' queries; the
  schema's unique constraint on address, port and protocol backs it up. Protocols are
  abstracted: a port stands for a port of one protocol.
* `ReadyUsable` and `HostFollowsRows` excuse, in `odd`: the creator of the host failing
  while it waits, which removes container and volume under the databases others made on
  it, and any creation failing before it has the container, which removes the volume
  another is about to use; a removal plan made before another creation, which removes
  the host and its row under the new row, after which that cannot be deleted; a deletion
  cut off after the drop, which leaves a `ready` row; a rotation cut off or overtaken
  between role and row, which leaves another password stored than the role has. A client
  that goes away during a creation leaves the row `provisioning`; this is not excused.
* `DeletedServerHasNoHost` says that none runs. A host that a creation has created after
  the deletion removed the network cannot start, and is removed by that creation; where
  its removal fails or the engine crashes it stays on the deleted server, with its volume.
* `TruthfulStatus` calls the old release restored also where additions of the new one are
  left beside it; of the database, `PanelRestored.cfg` shows that. The migration
  table is restored with the rest, so that the next attempt may meet tables that its
  migration is to create.
* `TruthfulStatus` and `Resumed` excuse a rollback that failed, a rollback that found
  a writer crash-looping and did not stop it (`update_helper.go:779`), and overlapping
  updates. `UpdateSettles` excuses a helper that was killed and a status that could
  not be written: the status stays active and every later request is refused.
  `RecoverySnapshot` says nothing of a game server that Docker was about to restart when
  the helper listed what runs, nor of one that a user, a recovery or a schedule has started
  since; `PanelQuiesced.cfg` is about both. A server whose stop took effect and returned
  an error is not on the list of those to resume, and `Resumed` does not speak of it.

## Theorems

`ServerLifecycleProofs` proves, for every set of requests, every set of actions
and outside events and every bound:

* `TypeCorrect`: `Spec => []TypeOK`. Not trivial in one place: the attempt counter
  stays within `0 .. RecoveryCap`, which the table's `CHECK` demands of every
  telemetry transaction. The invariant is `TypeInv`, `TypeOK` with `WorkerHolds`:
  what the worker holds in each phase.
* `OneRecovery` and `RecoveryQueueSafe`: at most one recovery event is unprocessed, and
  none while a stop stands that a power, console or delete request has stored.
* `CancelledRecovery`: a recovery event that was cancelled after the worker had
  claimed it never begins.
* `RunningStaysRequested`: `Spec => []RunningRequestKept`. Three kinds of steps take
  `desired_state` from running to stopped: an accepted stop or kill, the request of a
  workflow, and its end. The first changes what was asked for; for the others the proof
  needs what the payload holds (`was`) and that the operation is under way for as long as
  its event is retried or redelivered (`TypeInv` and `Serves`).
* `StopWins`: `Spec => []StopKeepsOffline`.

Queue and cancellation rest on `RecoveryInv`: `AtMostOneRecovery`, `StopCancelsRecovery`
and `ClaimedOrReset`. The third conjunct is what the first two lack: between the claim
and `BeginRecovery` the event may be cancelled, and the worker does not look at the
outbox again. It compares the attempt in the event with the counter in the row, and
the cancellation has set that to zero while attempts count from one. `StopWins` rests on
`OfflineInv`: with a stop request standing the container is down, or what will bring it
down is still ahead (`WillBeOffline`), which is a stop that has not had its effect, the
worker's look at the request after its own start, or the stop that follows that look; a
recovery that saw the server down is the only one that starts it (`StartSeen`); and the
engine works for whom it was asked by (`Serves`). Assumed of the constants is
`ConstantsAssumption`: the kinds of actions and events are those of the code, the cap is
positive, and identities are distinct.

`OutboxProofs` proves, for any events, workers, failures and crashes, and for every
lease and backoff:

* `ImplementsWorkQueue`: `Spec => QueueSpec`, every behaviour of the outbox is one of
  `WorkQueue` under the mapping above.
* `Retired`: `RetiredForGood`, no worker, however late, brings an event back.
* `Exclusive` and `ReleasedByOwner`: `LeaseHeld` and `OwnerReleases`, a claim is
  exclusive until its lease ends, and only its owner gives it up.

The first two rest on `QueueInv`: a lock is only ever on an event that was written
and not acknowledged (`LockedExists`), and a worker about to acknowledge has handled
what it holds (`JobHandled`); without the second an acknowledgement would not be a
step of the abstract queue. The leases rest on `LeaseInv`: `LeaseHeld` alone is not
inductive, since a lock that were older than its owner's claim could be taken over
too early; `LockNoOlder` excludes that, and `Clocks` says that a worker at rest has
spent nothing. Assumed is `OutboxAssumption`: events are numbered and the lease is
at least a tick. The delays are left untyped (`Shape`), because the provers do not
know that a power of two is a number; so `TypeOK` of `Outbox` is not proved.

`ServerContainersProofs` proves, for any servers, requests, ports, template, attempts
and faults:

* `ContainersTyped`: `Spec => []TypeOK`, one lemma per group of actions.
* `PortsAreExclusive`: `Spec => []PortsExclusive`. By `RowStep` only a creation or a
  commit changes a configuration. A creation takes ports that are in no row; a commit
  of ports has asked for them in the other rows in the same transaction; the other
  commits keep them. That the commit under way is one of these three kinds, and not a
  deletion, is a conjunct of the invariant.
* `CommitsAreAsked`: `Spec => CommitsWhatWasAsked`. The invariant is `VersionVouches`:
  while the version an edit has read is still the row's, the row's configuration is what
  the edit takes for the old one, and what it asks for is that with its own part
  changed; definitions that the edit brings are its own part at the commit only. It is
  needed because the ports are read after the version, in a query of their own: if
  something was committed in between, old configuration and row differ, but so do the
  versions, and the commit will be refused. Every step that changes a configuration
  raises the version (`RowAdvances`).

* `ContainerKept` and `RunningContainerKept`: `Spec => []KeepsContainer` and
  `Spec => RunningKept`. That the set of containers is not empty is far from inductive:
  two edits that overlap remove what they found and drop what they made, in any order.
  `KeepInv` says of each server that there is a container whose name no edit will drop
  any more (`Anchored`, `Settled`); that what an edit is about to remove is such a one
  while its own replacement is in place and does not run (`Pending`), so that removing
  the anchor leaves the replacement, which becomes the next anchor; that names are
  unique, and a replacement's name tells the phase its edit is in (`Names`); and where
  provisioning stands (`Provisioned`, `Handlers`), since it creates and starts too.

* `NothingIsLeft` and `RowDescribesContainer`: `Spec => []NothingLeft` and `Spec =>
  []RowMatchesContainer`. Both are about the Docker resources at the end of a handler,
  so the invariant, `LeftInv`, says for each server what is there at every step on the
  way. `AloneAt`: where no handlers have overlapped there is one at most, neither
  provisioning nor a power request is under way beside it, and a deletion has removed
  what comes before the step it is at. `BuildingAt`: provisioning has made what comes
  before its step and nothing else, which is what the cleanup of a failed call removes.
  `MountsAt`: a container has a volume; without it the removal of the volume would say
  nothing about containers. `MatchingAt`: with no handler at work the row describes the
  only container (but for definitions, `Describes`), and an edit finds the row as it
  read it and has, at each step of replacement, commit and undo, the containers
  `Replaces` lists. It stands on `VersionVouches`, so that an undo restores what the row
  still holds, and on `Names` of `KeepInv`, so that the replacement is not taken for the
  container it replaces.

Assumed is `ContainersAssumption`: the servers that exist at the start have ports of
their own, and identities of servers and requests are distinct.

`SchedulerProofs` proves `SchedulerTyped` and `ClockRunsApart`
(`Spec => []NoOverlap`) for any chains, runs, edits and faults. The invariant,
`OneClockRun`, says that any two active runs of the clock are the same;
`EnqueueDueSchedules` looks for active runs in the transaction that writes the next, and
what a user starts is marked.

`BackupsProofs` proves, for any backups, destinations, deleters and faults:

* `OfferedHasArchive`: `Spec => []ReadyHasArchive`.
* `LockedArchiveKept`: `Spec => LockedKept`.

Both rest on `CatalogueInv`: whoever deletes has claimed the row (`Claimed`) and is alone
(`Alone`), a row being deleted is not locked (`Unlocked`), a row being archived is still
running (`Archiving`), `object_key` tells what a failed deletion returns the row to
(`KeyTells`), and the archive is there for a row about to be recorded and for one a
deletion may have to return (`ArchiveThere`). Deliveries are left untyped; nothing here
depends on them.

`PanelUpdateProofs` proves, for any requests, game servers and faults:

* `PanelUpdateTyped`.
* `SnapshotNeverLost`: `Spec => SnapshotSurvives`, also when updates overlap. No run names
  `SnapshotSurvives`, because `ReplacementSpec` contains it.
* `StatusTellsTruth` and `SnapshotRestorable`: `Spec => []TruthfulStatus` and
  `Spec => []RecoverySnapshot`.
* `ReplacesSafely`: `Spec => ReplacementSpec`, every behaviour of the update is one of
  `SafeReplacement`, also when updates overlap. The invariant added to `UpdateInv` is
  `Guarded`, the old release is installed or there is a snapshot: a helper replaces
  something only where it remembers a snapshot (`HelperReplaces`, `Remembers`), and the
  schema is migrated only by services of the new release, which is not installed
  without one. That the snapshot is of the old release is `SnapshotRestorable`.
* `ServersResumed`: `Spec => Resumed`. `AllBack` says that a helper about to record its end
  has what it had stopped running again; there are three ways to that step (success, a
  failure before the installation, a rollback), and each passes `Resume`. That no other
  helper stops servers meanwhile is from `UpdateInv`.

`UpdateInv` has two parts. `SnapshotInv` is about directories only: the one in place is
whole, a partial one is when it is about to be promoted (`PartialWhole`), the one set
aside is until the new one is in place (`AsideWhole`, `DropSafe`). `Consistent`, claimed
while updates do not overlap, says what files, schema and services are at every step of
installation (`Progress`) and rollback (`Restored`), who may still write (`Stopping`),
what the snapshots hold (`Snapshots`), and that one update at most is busy and the
status shows it (`OneBusy`, `BusyShows`). Assumed is `PanelUpdateAssumption`; besides the
ranges of the bounds it says that the panel's three services are no game servers.

`DatabasesProofs` proves, for any requests and faults, with and without the deletion of
the server:

* `DatabasesTyped`.
* `NoHostSurvives`: `Spec => []DeletedServerHasNoHost`, from `HostSane` and `HostTended`.
  A host that runs keeps the network, and none is started without it; so once the network
  is gone none runs. A host that does not run is about to be started by the creation that
  made it, which removes it if that fails, unless the engine crashed or a removal failed.
* `ReadyWorks` and `HostComesAndGoes`: `Spec => []ReadyUsable` and
  `Spec => []HostFollowsRows`.

The last two rest on `CalmInv`: as long as the history has nothing the code does not
undo, handlers at work together are of different databases and a deletion is alone
(`Apart`), each handler finds at its next call what it relies on (`Stage`), a ready
database is served until its own deletion drops it (`ServedAt`), and the volume has the
panel's labels and the host its row (`Housed`). The labels were what the proof asked for
and the model did not give: with four requests, one creation that fails removes the
volume it had made after another has looked for it; the container of the other then
mounts a volume that Docker makes without labels, and the last deletion removes the host
but refuses the volume, so that a `ready` row is left with no database. The history
now marks this as withdrawn too (`Shared`); three requests do not reach it.

`ServerWorkflowProofs` proves, for any set of the three jobs, any number of power
requests and attempts, and faults within the conditions each theorem names:

* `WorkflowTyped`, with `Stages`: which step belongs to which workflow and what it relies
  on. Unconditional, as all that follows needs it.
* `ReturnsToService`: `Spec => []ReturnedToService`, with any failures, crashes and
  redeliveries. Its premise `Quiet` says that nobody asked for power, since a user's stop
  during the workflow is no fault of it. The row cannot carry the argument, because it says
  stopped in between and a redelivery finds it so; `ServiceInv` says that the server was
  down when the first workflow was requested and is so all along (`Down`), or that every
  job remembers that it ran, and it is up whenever one succeeds (`Up`).
* `BackupComesFirst`: `[]BackupUntilRedone`, with any failures, retries, crashes and power
  requests. `SecuredInv` says of an update that is not marked `again` that no earlier call
  is still served beside it, that until the archive is recorded the files are as they were
  when it was first taken up, and that after that the archive has them.
* `AllOrNothingHolds`: `AllOrNothing`, as long as one engine call at most has failed and
  power requests only stop or kill; that the worker has not crashed, no statement failed
  and no claim crossed a call is its own premise. `BackupInv` says, of a history without
  crashes, failed statements and crossed claims (`Steady`), that one workflow is live
  (`OneLive`), that a finished one has its event only while its worker acknowledges it
  (`Delivered`), and where the backup stands (`Securing`). `CalmInv` says that the
  server is off while its files are worked on (`Stopped`); which of files, row and
  container are old or new at each step of an update (`Versioned`) and of a restore
  (`Restoring`); that the engine works on what its worker waits for and has the files to
  put back for as long as it may have to (`EngineHolds`); and that nobody found a
  damaged volume (`Whole`). It counts the failure in: where one has been spent a
  rollback does not fail. Both conditions are necessary, as TLC shows when they are
  dropped: a second failure can be the rollback's, and the failed workflow is recorded
  over damaged files; and a start that is accepted while the installer runs makes the
  engine refuse the rollback's restore, so that the new files stay under the old version
  (the hazard at `store/servers.go:829`).
* `VolumeSurvivesCrash`: `[](Survivable => VolumeWhole)`. `Survivable` excludes updates
  with an installer and claims beside a call still served, and allows either any number
  of crashes, requests and failed statements with no failed engine call, or one failed
  call with one crash, where the database answers and power requests only stop or kill.
  A crash cancels the restore the engine is at, and the call that fails may be its
  rollback: the volume is then damaged and stays so until the event is delivered again.
  `SurviveInv` says that otherwise the files are whole, or the archive a rollback puts
  back is (`FilesWhole`); that a rollback in a history with no more than one crash
  follows the one failure or the crash (`Undone`); and, for the damaged volume, that the
  restore is the only workflow alive or in the outbox, that its server is off and that
  nothing is left that could stop its next delivery (`Mending`). That the crash found no
  other workflow comes from `BackupInv` and `CalmInv`, which hold until it. TLC shows
  each condition to be necessary: with a second crash, an update that was recorded but
  not acknowledged is delivered again beside a later restore, and is recorded over the
  files that restore left damaged; a failed statement or a start request keeps the
  second delivery from the files; and an update whose installer was interrupted is
  recorded over what the installer left when its second backup fails.

Assumed is `WorkflowAssumption`: the jobs and actions are those of the code, there is at
least one attempt, and `None` is no job and no content.

Model-checked only: liveness, which is out of the prover's reach (`NoStarvation` and
`WorkflowFinishes` among it). Every safety property that a passing run checks is stated
by a theorem, those of `ServerWorkflow` under the conditions above.

## Not modelled, and why

Within the modelled components: the engine process crashes in `ServerContainers` and
`Databases` only; in `ServerWorkflow` a power call is one step and recovery events are
left out; in `ServerLifecycle` a workflow's work on files is one step; the limit of 20
in the worker's query for due schedules, names, messages and sizes are abstracted. In
`ServerContainers` the helper that sets the volume's owner is one step (it may stay
behind), image pulls are failures that may happen, and power requests are no more than
their effect on row and container (`ServerLifecycle` has the rest). In `Databases` a
running host does not stop of itself. In `PanelUpdate` the discovery of releases
(`updates/releases.go`) is the condition that one is available, and the content of the
snapshot is whole or not. Cron arithmetic, template parsing, file streaming, host
information and the web interface have no state that a protocol depends on.

## Plan

Done: lifecycle, outbox, workflows, backup catalogue, scheduler, server containers with
provisioning, edits and deletion, databases, panel update; the theorems above. Next, in
this order:

1. `Webhooks`: the delivery queue with its own lease and its unguarded completion, two
   workers, edits of the destination; every delivery ends.
2. Console ring, last administrator, synchronisation of templates.
