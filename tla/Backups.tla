------------------------------- MODULE Backups -------------------------------
(***************************************************************************)
(* The backup catalogue of one server: rows of table backups, their files  *)
(* on disk, their deliveries to Discord, the HTTP handlers that create,    *)
(* lock and delete backups and retry deliveries, and the worker, which     *)
(* archives, delivers and expires them.                                    *)
(*                                                                         *)
(* A handler is a sequence of database statements and engine calls, and    *)
(* any other process may act between two of them.  An outbox event is a    *)
(* pending delivery of work: the worker claims it, and acknowledges it or  *)
(* leaves it for a retry (Outbox models leases and backoff).               *)
(***************************************************************************)
EXTENDS Naturals

CONSTANTS
  Backups,          \* backups that are requested, each once
  Dests,            \* the server's Discord destinations
  Deleters,         \* delete requests made of the panel, each at most once
  BackupAttempts,   \* the delivery of backup.create whose failure is final (3)
  DeliveryAttempts, \* uploads after which a delivery is given up (10)
  MaxRetries,       \* bound: deliveries retried by a user
  MaxFaults,        \* bound: engine errors, lost answers and crashes together
  Worker,           \* the worker, as one who deletes backups
  None              \* no backup, no destination

ASSUME BackupsAssumption ==
  /\ BackupAttempts \in Nat \ {0}
  /\ DeliveryAttempts \in Nat \ {0}
  /\ MaxRetries \in Nat
  /\ MaxFaults \in Nat
  /\ Worker \notin Deleters
  /\ None \notin Backups \cup Dests

VARIABLES
  bk,      \* bk[b]: the row of backup b
  file,    \* the backups whose archive is on disk
  create,  \* create[b]: the backup.create event of b and the handler that inserts it
  deliv,   \* deliv[b][d]: the row of b's delivery to d, and its unprocessed events
  dest,    \* dest[d]: the row of destination d
  wk,      \* the worker
  dl,      \* dl[x]: the deletion that x carries out
  retries, \* deliveries retried so far
  faults   \* faults so far, by kind

vars == <<bk, file, create, deliv, dest, wk, dl, retries, faults>>

BackupRow ==
  [status : {"none", "queued", "running", "succeeded", "failed", "deleting", "gone"},
   locked : BOOLEAN, key : BOOLEAN,            \* key: object_key is not null
   expires : {"never", "later", "due"}]

CreateEvent ==
  [phase : {"idle", "checked", "pending", "processed"}, attempts : 0 .. BackupAttempts]

DeliveryRow ==
  [status : {"none", "pending", "queued", "uploading", "delivered", "too_large", "failed"},
   attempts : 0 .. DeliveryAttempts + MaxFaults,
   events : 0 .. 1 + MaxRetries]

Destination == {"backups", "enabled", "disabled", "deleted"}

WorkerState ==
  [pc : {"idle", "job", "archive", "succeeded", "failed", "begin", "open", "send",
         "finish", "ack", "expire"},
   b : Backups \cup {None}, d : Dests \cup {None},
   result : {"none", "queued", "delivered", "too_large", "failed"},
   list : SUBSET Backups]

Deletion ==
  [pc : {"idle", "remove", "cancel", "record", "done"}, b : Backups \cup {None},
   previous : {"succeeded", "failed"}]

TypeOK ==
  /\ bk \in [Backups -> BackupRow]
  /\ file \subseteq Backups
  /\ create \in [Backups -> CreateEvent]
  /\ deliv \in [Backups -> [Dests -> DeliveryRow]]
  /\ dest \in [Dests -> Destination]
  /\ wk \in WorkerState
  /\ dl \in [Deleters \cup {Worker} -> Deletion]
  /\ retries \in 0 .. MaxRetries
  /\ faults \in [error : 0 .. MaxFaults, lost : 0 .. MaxFaults, crash : 0 .. MaxFaults]

Resting == [pc |-> "idle", b |-> None, d |-> None, result |-> "none", list |-> {}]
NoDeletion == [pc |-> "idle", b |-> None, previous |-> "failed"]
NoDelivery == [status |-> "none", attempts |-> 0, events |-> 0]

Init ==
  /\ bk = [b \in Backups |->
             [status |-> "none", locked |-> FALSE, key |-> FALSE, expires |-> "never"]]
  /\ file = {}
  /\ create = [b \in Backups |-> [phase |-> "idle", attempts |-> 0]]
  /\ deliv = [b \in Backups |-> [d \in Dests |-> NoDelivery]]
  /\ dest = [d \in Dests |-> "backups"]
  /\ wk = Resting
  /\ dl = [x \in Deleters \cup {Worker} |-> NoDeletion]
  /\ retries = 0
  /\ faults = [error |-> 0, lost |-> 0, crash |-> 0]

Fault(kind) ==
  /\ faults.error + faults.lost + faults.crash < MaxFaults
  /\ faults' = [faults EXCEPT ![kind] = @ + 1]

Settled(b) == bk[b].status \in {"succeeded", "failed"}
Enabled(d) == dest[d] \in {"backups", "enabled"}

-----------------------------------------------------------------------------
(* CreateBackup: the transaction looks for an active backup, and inserts   *)
(* without having locked anything, so two of them may interleave.          *)

CheckBackup(b) ==
  /\ create[b].phase = "idle"
  /\ \A o \in Backups : bk[o].status \notin {"queued", "running"}
  /\ create' = [create EXCEPT ![b].phase = "checked"]
  /\ UNCHANGED <<bk, file, deliv, dest, wk, dl, retries, faults>>

CreateBackup(b, expires) ==
  /\ create[b].phase = "checked"
  /\ bk' = [bk EXCEPT ![b].status = "queued", ![b].expires = expires]
  /\ deliv' = [deliv EXCEPT ![b] =
                 [d \in Dests |-> IF dest[d] = "backups"
                                  THEN [NoDelivery EXCEPT !.status = "pending"]
                                  ELSE NoDelivery]]
  /\ create' = [create EXCEPT ![b].phase = "pending"]
  /\ UNCHANGED <<file, dest, wk, dl, retries, faults>>

-----------------------------------------------------------------------------
(* What users do to rows: lock, unlock, retry a delivery, edit or delete a *)
(* destination.                                                            *)

SetBackupLocked(b, locked) ==
  /\ Settled(b)
  /\ bk' = [bk EXCEPT ![b].locked = locked]
  /\ UNCHANGED <<file, create, deliv, dest, wk, dl, retries, faults>>

Retryable(row) == row.status \in {"failed", "too_large"}

RetryBackupDelivery(b, d) ==
  /\ Retryable(deliv[b][d])
  /\ bk[b].status = "succeeded" /\ Enabled(d)
  /\ retries < MaxRetries
  /\ deliv' = [deliv EXCEPT ![b][d] = [status |-> "queued", attempts |-> 0,
                                       events |-> @.events + 1]]
  /\ retries' = retries + 1
  /\ UNCHANGED <<bk, file, create, dest, wk, dl, faults>>

UpdateWebhook(d, setting) ==
  /\ dest[d] # "deleted"
  /\ dest' = [dest EXCEPT ![d] = setting]
  /\ UNCHANGED <<bk, file, create, deliv, wk, dl, retries, faults>>

\* ON DELETE CASCADE takes the deliveries along; their events stay.
Dropped(row) == [NoDelivery EXCEPT !.events = row.events]

DeleteWebhook(d) ==
  /\ dest[d] # "deleted"
  /\ dest' = [dest EXCEPT ![d] = "deleted"]
  /\ deliv' = [b \in Backups |-> [deliv[b] EXCEPT ![d] = Dropped(@)]]
  /\ UNCHANGED <<bk, file, create, wk, dl, retries, faults>>

\* expires_at is reached.
RetentionEnds(b) ==
  /\ bk[b].expires = "later"
  /\ bk' = [bk EXCEPT ![b].expires = "due"]
  /\ UNCHANGED <<file, create, deliv, dest, wk, dl, retries, faults>>

-----------------------------------------------------------------------------
(* Deletion, by a user's request or by the worker's retention.             *)

\* Mutant: the lock is checked when the backup is listed, not here.
BeginBackupDeletionLocked(b) == Settled(b)

\* Mutant: a backup that someone is deleting can be deleted by another.
BeginBackupDeletionAgain(b) == ~bk[b].locked /\ (Settled(b) \/ bk[b].status = "deleting")

BeginBackupDeletion(b) == ~bk[b].locked /\ Settled(b)

\* The status to return to, told by object_key.
PreviousStatus(b) == IF bk[b].key THEN "succeeded" ELSE "failed"

StartDeletion(x, b) ==
  /\ bk' = [bk EXCEPT ![b].status = "deleting"]
  /\ dl' = [dl EXCEPT ![x] = [pc |-> "remove", b |-> b, previous |-> PreviousStatus(b)]]

RequestDelete(x, b) ==
  /\ dl[x].pc = "idle" /\ x # Worker
  /\ BeginBackupDeletion(b)
  /\ StartDeletion(x, b)
  /\ UNCHANGED <<file, create, deliv, dest, wk, retries, faults>>

\* The engine removes the file, or the call fails before or after it did.
EngineDelete(x) ==
  /\ dl[x].pc = "remove"
  /\ \/ /\ file' = file \ {dl[x].b}
        /\ dl' = [dl EXCEPT ![x].pc = "record"]
        /\ UNCHANGED faults
     \/ /\ Fault("error")
        /\ dl' = [dl EXCEPT ![x].pc = "cancel"]
        /\ UNCHANGED file
     \/ /\ Fault("lost")
        /\ file' = file \ {dl[x].b}
        /\ dl' = [dl EXCEPT ![x].pc = "cancel"]
  /\ UNCHANGED <<bk, create, deliv, dest, wk, retries>>

\* A user's request ends; the worker goes on with its list or drops it.
DeletionEnds(x, goOn) ==
  /\ dl' = [dl EXCEPT ![x] = IF x = Worker THEN NoDeletion ELSE [NoDeletion EXCEPT !.pc = "done"]]
  /\ wk' = IF x # Worker THEN wk
           ELSE IF goOn THEN [wk EXCEPT !.list = @ \ {dl[x].b}] ELSE Resting

\* Mutant: the failed removal is not undone.
CancelBackupDeletionSkipped(x) ==
  /\ dl[x].pc = "cancel"
  /\ DeletionEnds(x, FALSE)
  /\ UNCHANGED <<bk, file, create, deliv, dest, retries, faults>>

CancelBackupDeletion(x) ==
  /\ dl[x].pc = "cancel"
  /\ bk' = IF bk[dl[x].b].status # "deleting" THEN bk
           ELSE [bk EXCEPT ![dl[x].b].status = dl[x].previous]
  /\ DeletionEnds(x, FALSE)
  /\ UNCHANGED <<file, create, deliv, dest, retries, faults>>

DeleteBackupRecord(x) ==
  /\ dl[x].pc = "record"
  /\ LET b == dl[x].b  found == bk[dl[x].b].status = "deleting" IN
       /\ bk' = IF found THEN [bk EXCEPT ![b].status = "gone"] ELSE bk
       /\ deliv' = IF found THEN [deliv EXCEPT ![b] = [d \in Dests |-> Dropped(@[d])]]
                   ELSE deliv
       /\ DeletionEnds(x, found)
  /\ UNCHANGED <<file, create, dest, retries, faults>>

\* The browser goes away during the engine's call: the request's context ends,
\* and the statements that would follow fail with it.
AbandonDelete(x) ==
  /\ dl[x].pc \in {"remove", "cancel", "record"} /\ x # Worker
  /\ Fault("crash")
  /\ file' \in IF dl[x].pc = "remove" THEN {file, file \ {dl[x].b}} ELSE {file}
  /\ dl' = [dl EXCEPT ![x] = [NoDeletion EXCEPT !.pc = "done"]]
  /\ UNCHANGED <<bk, create, deliv, dest, wk, retries>>

\* The worker's cleanup lists what has expired, then deletes one by one.
ExpiredBackups ==
  /\ wk.pc = "idle"
  /\ LET items == {b \in Backups : bk[b].expires = "due" /\ ~bk[b].locked /\ Settled(b)} IN
       /\ items # {}
       /\ wk' = [Resting EXCEPT !.pc = "expire", !.list = items]
  /\ UNCHANGED <<bk, file, create, deliv, dest, dl, retries, faults>>

ExpireNext(b) ==
  /\ wk.pc = "expire" /\ dl[Worker].pc = "idle" /\ b \in wk.list
  /\ IF BeginBackupDeletion(b)
     THEN StartDeletion(Worker, b) /\ UNCHANGED wk
     ELSE wk' = [wk EXCEPT !.list = @ \ {b}] /\ UNCHANGED <<bk, dl>>
  /\ UNCHANGED <<file, create, deliv, dest, retries, faults>>

ExpireDone ==
  /\ wk.pc = "expire" /\ dl[Worker].pc = "idle" /\ wk.list = {}
  /\ wk' = Resting
  /\ UNCHANGED <<bk, file, create, deliv, dest, dl, retries, faults>>

-----------------------------------------------------------------------------
(* backup.create.                                                          *)

Goto(pc) == wk' = [wk EXCEPT !.pc = pc]

\* The handler returned an error: the event stays and is retried later.
RetryLater == wk' = Resting

ClaimCreate(b) ==
  /\ wk.pc = "idle" /\ create[b].phase = "pending"
  /\ create' = [create EXCEPT ![b].attempts = IF @ = BackupAttempts THEN @ ELSE @ + 1]
  /\ wk' = [Resting EXCEPT !.pc = "job", !.b = b]
  /\ UNCHANGED <<bk, file, deliv, dest, dl, retries, faults>>

\* Mutant: only a backup that was never begun has a job.
HasJobQueued(b) == bk[b].status = "queued"

HasJob(b) == bk[b].status \in {"queued", "running"}

\* BackupJob and MarkBackupRunning; without a job the handler fails.
BeginBackup ==
  /\ wk.pc = "job"
  /\ IF HasJob(wk.b)
     THEN bk' = [bk EXCEPT ![wk.b].status = "running"] /\ Goto("archive")
     ELSE RetryLater /\ UNCHANGED bk
  /\ UNCHANGED <<file, create, deliv, dest, dl, retries, faults>>

\* The engine writes the archive aside and renames it; a failed call is retried
\* with the event until the last attempt.
Archive ==
  /\ wk.pc = "archive"
  /\ \/ file' = file \cup {wk.b} /\ Goto("succeeded") /\ UNCHANGED faults
     \/ /\ \/ Fault("error") /\ UNCHANGED file
           \/ Fault("lost") /\ file' = file \cup {wk.b}
        /\ IF create[wk.b].attempts < BackupAttempts THEN RetryLater ELSE Goto("failed")
  /\ UNCHANGED <<bk, create, deliv, dest, dl, retries>>

\* Deliveries wait for the archive; those still pending are queued with it.
MarkBackupSucceeded ==
  /\ wk.pc = "succeeded"
  /\ bk' = IF bk[wk.b].status = "gone" THEN bk
           ELSE [bk EXCEPT ![wk.b].status = "succeeded", ![wk.b].key = TRUE]
  /\ deliv' = [deliv EXCEPT ![wk.b] =
                 [d \in Dests |-> IF @[d].status = "pending"
                                  THEN [@[d] EXCEPT !.status = "queued", !.events = @ + 1]
                                  ELSE @[d]]]
  /\ Goto("ack")
  /\ UNCHANGED <<file, create, dest, dl, retries, faults>>

MarkBackupFailed ==
  /\ wk.pc = "failed"
  /\ bk' = IF bk[wk.b].status = "gone" THEN bk ELSE [bk EXCEPT ![wk.b].status = "failed"]
  /\ Goto("ack")
  /\ UNCHANGED <<file, create, deliv, dest, dl, retries, faults>>

-----------------------------------------------------------------------------
(* backup.discord_delivery.                                                *)

Row == deliv[wk.b][wk.d]

ClaimDelivery(b, d) ==
  /\ wk.pc = "idle" /\ deliv[b][d].events > 0
  /\ wk' = [Resting EXCEPT !.pc = "begin", !.b = b, !.d = d]
  /\ UNCHANGED <<bk, file, create, deliv, dest, dl, retries, faults>>

\* Mutant: an upload that was interrupted is not taken up again.
DeliverableQueued(row) == row.status = "queued"

Deliverable(row) == row.status \in {"queued", "uploading"}

BeginBackupDelivery ==
  /\ wk.pc = "begin"
  /\ IF Deliverable(Row) /\ bk[wk.b].status = "succeeded" /\ Enabled(wk.d)
     THEN /\ deliv' = [deliv EXCEPT ![wk.b][wk.d].status = "uploading",
                                    ![wk.b][wk.d].attempts = @ + 1]
          /\ wk' = [wk EXCEPT !.pc = "open", !.result = "none"]
     ELSE RetryLater /\ UNCHANGED deliv
  /\ UNCHANGED <<bk, file, create, dest, dl, retries, faults>>

OutOfAttempts == Row.attempts >= DeliveryAttempts

Result(r) == wk' = [wk EXCEPT !.pc = "finish", !.result = r]
TryAgain == Result(IF OutOfAttempts THEN "failed" ELSE "queued")

\* The archive is opened before the upload; a deletion meanwhile does not disturb it.
OpenBackup ==
  /\ wk.pc = "open"
  /\ \/ wk.b \in file /\ Goto("send") /\ UNCHANGED faults
     \/ wk.b \notin file /\ TryAgain /\ UNCHANGED faults
     \/ Fault("error") /\ TryAgain
  /\ UNCHANGED <<bk, file, create, deliv, dest, dl, retries>>

TooLarge == Result("too_large")

\* Discord accepts the upload, refuses it (413 or another permanent error), or
\* the call fails for now, as one does whose answer is lost.
SendBackup ==
  /\ wk.pc = "send"
  /\ Result("delivered") \/ TooLarge \/ Result("failed") \/ TryAgain
  /\ UNCHANGED <<bk, file, create, deliv, dest, dl, retries, faults>>

\* A delivery whose row is gone, or that is queued again, leaves its event.
FinishBackupDelivery ==
  /\ wk.pc = "finish"
  /\ LET found == Row.status # "none" IN
       /\ deliv' = IF found THEN [deliv EXCEPT ![wk.b][wk.d].status = wk.result] ELSE deliv
       /\ IF found /\ wk.result # "queued" THEN Goto("ack") ELSE RetryLater
  /\ UNCHANGED <<bk, file, create, dest, dl, retries, faults>>

Ack ==
  /\ wk.pc = "ack"
  /\ create' = IF wk.d # None THEN create ELSE [create EXCEPT ![wk.b].phase = "processed"]
  /\ deliv' = IF wk.d = None THEN deliv ELSE [deliv EXCEPT ![wk.b][wk.d].events = @ - 1]
  /\ wk' = Resting
  /\ UNCHANGED <<bk, file, dest, dl, retries, faults>>

\* The worker is killed: its event is handed out again, a deletion it had begun
\* is not taken up by anyone.
WorkerCrash ==
  /\ wk.pc # "idle"
  /\ Fault("crash")
  /\ file' \in {file, IF dl[Worker].pc = "remove" THEN file \ {dl[Worker].b} ELSE file,
                IF wk.pc = "archive" THEN file \cup {wk.b} ELSE file}
  /\ wk' = Resting
  /\ dl' = [dl EXCEPT ![Worker] = NoDeletion]
  /\ UNCHANGED <<bk, create, deliv, dest, retries>>

-----------------------------------------------------------------------------
User ==
  \/ \E b \in Backups :
       \/ CheckBackup(b)
       \/ \E expires \in {"never", "later"} : CreateBackup(b, expires)
       \/ \E locked \in BOOLEAN : SetBackupLocked(b, locked)
       \/ \E d \in Dests : RetryBackupDelivery(b, d)
       \/ \E x \in Deleters : RequestDelete(x, b)
  \/ \E d \in Dests :
       DeleteWebhook(d) \/ \E s \in Destination \ {"deleted"} : UpdateWebhook(d, s)

DeletionStep(x) == EngineDelete(x) \/ CancelBackupDeletion(x) \/ DeleteBackupRecord(x)

WorkerStep ==
  \/ BeginBackup \/ Archive \/ MarkBackupSucceeded \/ MarkBackupFailed
  \/ BeginBackupDelivery \/ OpenBackup \/ SendBackup \/ FinishBackupDelivery
  \/ Ack \/ (\E b \in Backups : ExpireNext(b)) \/ ExpireDone

Next ==
  \/ User
  \/ \E b \in Backups : RetentionEnds(b) \/ ClaimCreate(b)
  \/ \E b \in Backups, d \in Dests : ClaimDelivery(b, d)
  \/ ExpiredBackups
  \/ \E x \in Deleters \cup {Worker} : DeletionStep(x)
  \/ \E x \in Deleters : AbandonDelete(x)
  \/ WorkerStep
  \/ WorkerCrash

Spec == Init /\ [][Next]_vars

\* Handlers run on unless they are cut off, and so does the worker.  It comes to
\* every event that is due, however many others are retried (Outbox,
\* NoStarvation), and to its cleanup.
Fairness ==
  /\ WF_vars(WorkerStep)
  /\ \A x \in Deleters \cup {Worker} : WF_vars(DeletionStep(x))
  /\ SF_vars(ExpiredBackups)
  /\ \A b \in Backups :
       SF_vars(ClaimCreate(b)) /\ \A d \in Dests : SF_vars(ClaimDelivery(b, d))

FairSpec == Spec /\ Fairness

-----------------------------------------------------------------------------
(* Properties.                                                             *)

\* A locked archive is never removed: not by a delete request or by the
\* retention that listed the backup before it was locked.
LockedKept == [][\A b \in Backups : b \in file \ file' => ~bk[b].locked]_vars

\* A backup offered for download and restore has its archive, whatever deletions
\* and redelivered create events interleave and whoever dies between two steps,
\* unless the engine's answer to a deletion was lost.
ReadyHasArchive ==
  faults.lost = 0 =>
    \A b \in Backups : bk[b].status = "succeeded" => bk[b].key /\ b \in file

\* Every accepted backup is eventually recorded as succeeded or failed.
BackupSettles ==
  \A b \in Backups : bk[b].status \in {"queued", "running"} ~> Settled(b)

\* Every queued delivery ends, as long as backup and destination are there.
DeliverySettles ==
  \A b \in Backups, d \in Dests :
    deliv[b][d].status \in {"queued", "uploading"} ~>
      \/ deliv[b][d].status \in {"delivered", "too_large", "failed", "none"}
      \/ bk[b].status # "succeeded" \/ ~Enabled(d)

\* The retention removes every expired, unlocked backup, unless the process that
\* was deleting it died.
ExpiredRemoved ==
  \A b \in Backups :
    bk[b].expires = "due" /\ Settled(b) /\ ~bk[b].locked ~>
      bk[b].status = "gone" \/ bk[b].locked \/ faults.crash > 0
=============================================================================
