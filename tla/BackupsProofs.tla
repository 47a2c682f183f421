---------------------------- MODULE BackupsProofs ----------------------------
(***************************************************************************)
(* Proofs about Backups, for any number of backups, destinations, delete   *)
(* requests and faults: a locked archive is never removed, and a backup    *)
(* that is offered has its archive.                                        *)
(***************************************************************************)
EXTENDS Backups, TLAPS

Parties == Deleters \cup {Worker}
Deleting(x) == dl[x].pc \in {"remove", "cancel", "record"}

-----------------------------------------------------------------------------
(* The inductive invariant.                                                *)

\* The types of what rows, archives and deletions are made of; deliveries are
\* left out, nothing here depends on them.
Shape ==
  /\ bk \in [Backups -> BackupRow]
  /\ create \in [Backups -> CreateEvent]
  /\ wk \in WorkerState
  /\ dl \in [Parties -> Deletion]
  /\ faults \in [error : Nat, lost : Nat, crash : Nat]

\* A handler has the backup it is about.
Holds ==
  /\ wk.pc \notin {"idle", "expire"} => wk.b \in Backups
  /\ \A x \in Parties : Deleting(x) => dl[x].b \in Backups

\* There is no row before it is inserted.
NotBegun == \A b \in Backups : create[b].phase \in {"idle", "checked"} => bk[b].status = "none"

\* While the worker archives a backup, its row says so: no deletion can have begun.
Archiving == wk.pc \in {"archive", "succeeded", "failed"} => bk[wk.b].status = "running"

\* Whoever deletes a backup has claimed its row, and knows what to return it to.
Claimed ==
  \A x \in Parties : Deleting(x) =>
     /\ bk[dl[x].b].status = "deleting"
     /\ dl[x].previous = IF bk[dl[x].b].key THEN "succeeded" ELSE "failed"

\* Nobody else deletes the same backup.
Alone == \A x, y \in Parties : Deleting(x) /\ Deleting(y) /\ dl[x].b = dl[y].b => x = y

\* A row that is being deleted was not locked, and cannot be any more.
Unlocked == \A b \in Backups : bk[b].status = "deleting" => bk[b].locked = FALSE

\* object_key tells a backup that succeeded from one that failed.
KeyTells == \A b \in Backups : bk[b].key = TRUE => bk[b].status \in {"succeeded", "deleting", "gone"}

\* The archive is there for a backup about to be recorded, for one that is, and for
\* one that a deletion may have to return.
ArchiveThere ==
  /\ wk.pc = "succeeded" => wk.b \in file
  /\ faults.lost = 0 =>
       /\ \A b \in Backups : bk[b].status = "succeeded" => bk[b].key = TRUE /\ b \in file
       /\ \A x \in Parties : dl[x].pc \in {"remove", "cancel"} /\ dl[x].previous = "succeeded"
                               => dl[x].b \in file

CatalogueInv ==
  /\ Shape /\ Holds /\ NotBegun /\ Archiving /\ Claimed /\ Alone /\ Unlocked /\ KeyTells
  /\ ArchiveThere
-----------------------------------------------------------------------------
(* Facts about rows, handlers and faults.                                  *)

\* The worker at rest, or with an event it has just claimed.
LEMMA RestingTyped ==
  /\ Resting \in WorkerState /\ Resting.pc = "idle"
  /\ \A b \in Backups : LET w == [Resting EXCEPT !.pc = "job", !.b = b]
                        IN  w \in WorkerState /\ w.pc = "job" /\ w.b = b
  /\ \A b \in Backups, d \in Dests : LET w == [Resting EXCEPT !.pc = "begin", !.b = b, !.d = d]
                                     IN  w \in WorkerState /\ w.pc = "begin" /\ w.b = b
  /\ \A l \in SUBSET Backups : LET w == [Resting EXCEPT !.pc = "expire", !.list = l]
                               IN  w \in WorkerState /\ w.pc = "expire"
  BY DEF Resting, WorkerState

\* The worker moves on with the backup it has.
LEMMA MovesOn ==
  ASSUME wk \in WorkerState
  PROVE  /\ \A q \in {"archive", "succeeded", "failed", "send", "ack"} :
              LET w == [wk EXCEPT !.pc = q] IN w \in WorkerState /\ w.pc = q /\ w.b = wk.b
         /\ \A r \in {"queued", "delivered", "too_large", "failed"} :
              LET w == [wk EXCEPT !.pc = "finish", !.result = r]
              IN  w \in WorkerState /\ w.pc = "finish" /\ w.b = wk.b
         /\ LET w == [wk EXCEPT !.pc = "open", !.result = "none"]
            IN  w \in WorkerState /\ w.pc = "open" /\ w.b = wk.b
         /\ \A b \in Backups \cup {None} : LET w == [wk EXCEPT !.list = @ \ {b}]
                             IN  w \in WorkerState /\ w.pc = wk.pc /\ w.b = wk.b
  BY DEF WorkerState

\* A deletion that has ended is no deletion.
LEMMA NoDeletionTyped ==
  /\ NoDeletion \in Deletion /\ NoDeletion.pc = "idle"
  /\ [NoDeletion EXCEPT !.pc = "done"] \in Deletion
  /\ [NoDeletion EXCEPT !.pc = "done"].pc = "done"
  BY DEF NoDeletion, Deletion

\* A fault is counted under its kind.
LEMMA FaultCounted ==
  ASSUME faults \in [error : Nat, lost : Nat, crash : Nat], NEW k \in {"error", "lost", "crash"}, Fault(k)
  PROVE  /\ faults' \in [error : Nat, lost : Nat, crash : Nat]
         /\ faults'.lost = 0 => faults.lost = 0 /\ k # "lost"
  BY DEF Fault

\* The invariant holds initially.
LEMMA CatalogueInit == Init => CatalogueInv
  <1> SUFFICES ASSUME Init PROVE CatalogueInv OBVIOUS
  <1>1. \A b \in Backups : bk[b].status = "none" /\ bk[b].locked = FALSE /\ bk[b].key = FALSE BY DEF Init
  <1>2. wk.pc = "idle" /\ \A x \in Parties : dl[x].pc = "idle" BY RestingTyped, NoDeletionTyped DEF Init, Parties
  <1>3. Shape
    <2>1. bk \in [Backups -> BackupRow] BY DEF Init, BackupRow
    <2>2. create \in [Backups -> CreateEvent] BY BackupsAssumption DEF Init, CreateEvent
    <2>3. wk \in WorkerState /\ dl \in [Parties -> Deletion]
      BY RestingTyped, NoDeletionTyped DEF Init, Parties
    <2>4. faults \in [error : Nat, lost : Nat, crash : Nat] BY DEF Init
    <2> QED BY <2>1, <2>2, <2>3, <2>4 DEF Shape
  <1> QED BY <1>1, <1>2, <1>3
          DEF CatalogueInv, Holds, NotBegun, Archiving, Claimed, Alone, Unlocked, KeyTells, ArchiveThere, Deleting

\* What leaves rows, archives and deletions alone and does not archive anything
\* preserves the invariant.
LEMMA WorkerElsewhere ==
  ASSUME CatalogueInv, UNCHANGED <<bk, file, dl>>,
         wk' \in WorkerState, wk'.pc \notin {"archive", "succeeded", "failed"},
         wk'.pc \notin {"idle", "expire"} => wk'.b \in Backups,
         create' \in [Backups -> CreateEvent],
         \A b \in Backups : create'[b].phase \in {"idle", "checked"} => create[b].phase \in {"idle", "checked"},
         faults' \in [error : Nat, lost : Nat, crash : Nat], faults'.lost = 0 => faults.lost = 0
  PROVE  CatalogueInv'
  BY DEF CatalogueInv, Shape, Holds, NotBegun, Archiving, Claimed, Alone, Unlocked, KeyTells, ArchiveThere, Deleting

-----------------------------------------------------------------------------
(* Every action preserves the invariant.                                   *)

\* What users do to rows.
LEMMA UserRows ==
  ASSUME CatalogueInv,
         \E b \in Backups :
           \/ CheckBackup(b) \/ RetentionEnds(b)
           \/ \E expires \in {"never", "later"} : CreateBackup(b, expires)
           \/ \E locked \in BOOLEAN : SetBackupLocked(b, locked)
  PROVE  CatalogueInv'
  <1>1. bk \in [Backups -> BackupRow] /\ create \in [Backups -> CreateEvent] BY DEF CatalogueInv, Shape
  <1>2. ASSUME NEW b \in Backups, CheckBackup(b) PROVE CatalogueInv'
    <2>1. create' \in [Backups -> CreateEvent] BY <1>1, <1>2 DEF CheckBackup, CreateEvent
    <2>2. \A c \in Backups : create'[c].phase \in {"idle", "checked"} => create[c].phase \in {"idle", "checked"}
      BY <1>1, <1>2 DEF CheckBackup, CreateEvent
    <2> QED BY <1>2, <2>1, <2>2
            DEF CheckBackup, CatalogueInv, Shape, Holds, NotBegun, Archiving, Claimed, Alone, Unlocked, KeyTells,
                ArchiveThere, Deleting
  <1>3. ASSUME NEW b \in Backups, RetentionEnds(b) PROVE CatalogueInv'
    <2>1. /\ bk' \in [Backups -> BackupRow]
          /\ \A c \in Backups : bk'[c].status = bk[c].status /\ bk'[c].locked = bk[c].locked /\ bk'[c].key = bk[c].key
      BY <1>1, <1>3 DEF RetentionEnds, BackupRow
    <2> QED BY <1>3, <2>1
            DEF RetentionEnds, CatalogueInv, Shape, Holds, NotBegun, Archiving, Claimed, Alone, Unlocked, KeyTells,
                ArchiveThere, Deleting
  <1>4. ASSUME NEW b \in Backups, NEW e \in {"never", "later"}, CreateBackup(b, e) PROVE CatalogueInv'
    <2>1. /\ bk' \in [Backups -> BackupRow]
          /\ bk'[b].status = "queued" /\ bk'[b].locked = bk[b].locked /\ bk'[b].key = bk[b].key
          /\ \A c \in Backups \ {b} : bk'[c] = bk[c]
      BY <1>1, <1>4 DEF CreateBackup, BackupRow
    <2>2. create' \in [Backups -> CreateEvent]
          /\ \A c \in Backups : create'[c].phase \in {"idle", "checked"} => c # b /\ create[c].phase \in {"idle", "checked"}
      BY <1>1, <1>4 DEF CreateBackup, CreateEvent
    <2>3. bk[b].status = "none" BY <1>4 DEF CreateBackup, CatalogueInv, NotBegun
    <2>4. bk[b].key = FALSE BY <1>1, <2>3 DEF CatalogueInv, KeyTells, BackupRow
    <2>5. wk.pc \in {"archive", "succeeded", "failed"} => wk.b # b BY <2>3 DEF CatalogueInv, Archiving
    <2>6. \A x \in Parties : Deleting(x) => dl[x].b # b BY <2>3 DEF CatalogueInv, Claimed
    <2> USE <1>4 DEF CreateBackup
    <2>7. Shape' /\ Holds' BY <2>1, <2>2 DEF CatalogueInv, Shape, Holds, Deleting
    <2>8. NotBegun' BY <2>1, <2>2 DEF CatalogueInv, NotBegun
    <2>9. Archiving' BY <2>1, <2>5 DEF CatalogueInv, Archiving, Holds
    <2>10. Claimed' /\ Alone' BY <2>1, <2>6 DEF CatalogueInv, Claimed, Alone, Holds, Deleting
    <2>11. Unlocked' /\ KeyTells' BY <2>1, <2>4 DEF CatalogueInv, Unlocked, KeyTells
    <2>12. ArchiveThere' BY <2>1 DEF CatalogueInv, ArchiveThere
    <2> QED BY <2>7, <2>8, <2>9, <2>10, <2>11, <2>12 DEF CatalogueInv
  <1>5. ASSUME NEW b \in Backups, NEW l \in BOOLEAN, SetBackupLocked(b, l) PROVE CatalogueInv'
    <2>1. /\ bk' \in [Backups -> BackupRow]
          /\ \A c \in Backups : bk'[c].status = bk[c].status /\ bk'[c].key = bk[c].key
          /\ \A c \in Backups \ {b} : bk'[c] = bk[c]
      BY <1>1, <1>5 DEF SetBackupLocked, BackupRow
    <2>2. bk[b].status # "deleting" BY <1>5 DEF SetBackupLocked, Settled
    <2> QED BY <1>5, <2>1, <2>2
            DEF SetBackupLocked, CatalogueInv, Shape, Holds, NotBegun, Archiving, Claimed, Alone, Unlocked, KeyTells,
                ArchiveThere, Deleting
  <1> QED BY <1>2, <1>3, <1>4, <1>5

\* A deletion begins with a row that is settled and not locked, which it claims.
LEMMA DeletionBegins ==
  ASSUME CatalogueInv, NEW x \in Parties, NEW b \in Backups,
         dl[x].pc = "idle", BeginBackupDeletion(b), StartDeletion(x, b),
         UNCHANGED <<file, create, wk, faults>>
  PROVE  CatalogueInv'
  <1>1. bk \in [Backups -> BackupRow] /\ dl \in [Parties -> Deletion] BY DEF CatalogueInv, Shape
  <1>2. /\ bk' \in [Backups -> BackupRow]
        /\ bk'[b].status = "deleting" /\ bk'[b].locked = bk[b].locked /\ bk'[b].key = bk[b].key
        /\ \A c \in Backups \ {b} : bk'[c] = bk[c]
    BY <1>1 DEF StartDeletion, BackupRow
  <1>3. bk[b].locked = FALSE /\ bk[b].status \in {"succeeded", "failed"}
    BY <1>1 DEF BeginBackupDeletion, Settled, BackupRow
  <1>4. /\ dl' \in [Parties -> Deletion]
        /\ dl'[x].pc = "remove" /\ dl'[x].b = b /\ dl'[x].previous = PreviousStatus(b)
        /\ \A y \in Parties \ {x} : dl'[y] = dl[y]
    BY <1>1 DEF StartDeletion, Deletion, PreviousStatus
  <1>5. \A y \in Parties : Deleting(y) => dl[y].b # b BY <1>3 DEF CatalogueInv, Claimed
  <1>6. Shape' /\ Holds' BY <1>2, <1>4 DEF CatalogueInv, Shape, Holds, Deleting
  <1>7. NotBegun' BY <1>2, <1>3 DEF CatalogueInv, NotBegun
  <1>8. Archiving' BY <1>2, <1>3 DEF CatalogueInv, Archiving, Holds
  <1>9. Claimed'
    <2>1. \A y \in Parties \ {x} : Deleting(y)' => Deleting(y) /\ dl[y].b # b /\ dl[y].b \in Backups
      BY <1>4, <1>5 DEF Deleting, CatalogueInv, Holds
    <2>2. dl'[x].previous = IF bk'[b].key THEN "succeeded" ELSE "failed" BY <1>2, <1>4 DEF PreviousStatus
    <2> QED BY <1>2, <1>4, <2>1, <2>2 DEF CatalogueInv, Claimed
  <1>10. Alone' BY <1>4, <1>5 DEF CatalogueInv, Alone, Deleting
  <1>11. Unlocked' BY <1>2, <1>3 DEF CatalogueInv, Unlocked
  <1>12. KeyTells' BY <1>2 DEF CatalogueInv, KeyTells
  <1>13. ArchiveThere'
    <2>1. faults.lost = 0 /\ dl'[x].previous = "succeeded" => b \in file
      BY <1>1, <1>3, <1>4 DEF CatalogueInv, ArchiveThere, PreviousStatus, KeyTells, BackupRow
    <2> QED BY <1>2, <1>4, <2>1 DEF CatalogueInv, ArchiveThere
  <1> QED BY <1>6, <1>7, <1>8, <1>9, <1>10, <1>11, <1>12, <1>13 DEF CatalogueInv

\* The engine removes the archive of a backup whose row is claimed, or fails to.
LEMMA EngineDeletes ==
  ASSUME CatalogueInv, NEW x \in Parties, EngineDelete(x)
  PROVE  CatalogueInv'
  <1>1. dl \in [Parties -> Deletion] /\ faults \in [error : Nat, lost : Nat, crash : Nat] BY DEF CatalogueInv, Shape
  <1> DEFINE b == dl[x].b
  <1>2. b \in Backups /\ bk[b].status = "deleting" /\ dl[x].pc = "remove" /\ Deleting(x)
    BY DEF EngineDelete, CatalogueInv, Claimed, Holds, Deleting
  <1>3. \E q \in {"record", "cancel"} : dl' = [dl EXCEPT ![x].pc = q] BY DEF EngineDelete
  <1>4. /\ dl' \in [Parties -> Deletion]
        /\ \A y \in Parties : dl'[y].b = dl[y].b /\ dl'[y].previous = dl[y].previous /\ (Deleting(y)' <=> Deleting(y))
        /\ \A y \in Parties \ {x} : dl'[y] = dl[y]
        /\ dl'[x].pc \in {"record", "cancel"}
    BY <1>1, <1>2, <1>3 DEF Deletion, Deleting
  <1>5. faults' \in [error : Nat, lost : Nat, crash : Nat] /\ (faults'.lost = 0 => faults.lost = 0)
    BY <1>1, FaultCounted DEF EngineDelete
  <1>6. Shape' /\ Holds' BY <1>4, <1>5 DEF EngineDelete, CatalogueInv, Shape, Holds
  <1>7. NotBegun' /\ Archiving' /\ Unlocked' /\ KeyTells'
    BY DEF EngineDelete, CatalogueInv, NotBegun, Archiving, Unlocked, KeyTells
  <1>8. Claimed' /\ Alone' BY <1>4 DEF EngineDelete, CatalogueInv, Claimed, Alone
  <1>9. ArchiveThere'
    <2>1. \A c \in Backups \ {b} : c \in file => c \in file' BY DEF EngineDelete
    <2>2. wk.pc = "succeeded" => wk.b # b BY <1>2 DEF CatalogueInv, Archiving
    <2>3. \A y \in Parties \ {x} : Deleting(y) => dl[y].b # b BY <1>2 DEF CatalogueInv, Alone
    <2>4. faults'.lost = 0 /\ dl'[x].pc = "cancel" => file' = file
      <3>1. dl'[x].pc = "cancel" => (Fault("error") /\ file' = file) \/ Fault("lost")
        BY <1>1 DEF EngineDelete, Deletion
      <3>2. Fault("lost") => faults'.lost # 0 BY <1>1, FaultCounted
      <3> QED BY <3>1, <3>2
    <2>5. (wk.pc = "succeeded" => wk.b \in file)' BY <2>1, <2>2 DEF EngineDelete, CatalogueInv, ArchiveThere, Holds
    <2>6. ASSUME faults'.lost = 0, NEW c \in Backups, bk'[c].status = "succeeded"
          PROVE  bk'[c].key = TRUE /\ c \in file'
      BY <1>2, <1>5, <2>1, <2>6 DEF EngineDelete, CatalogueInv, ArchiveThere
    <2>7. ASSUME faults'.lost = 0, NEW y \in Parties, dl'[y].pc \in {"remove", "cancel"}, dl'[y].previous = "succeeded"
          PROVE  dl'[y].b \in file'
      <3>1. Deleting(y)' BY <2>7 DEF Deleting
      <3>2. dl[y].b \in Backups BY <1>4, <3>1 DEF CatalogueInv, Holds
      <3>3. CASE y = x BY <1>2, <1>4, <1>5, <2>4, <2>7, <3>3 DEF CatalogueInv, ArchiveThere
      <3>4. CASE y # x
        BY <1>4, <1>5, <2>1, <2>3, <2>7, <3>1, <3>2, <3>4 DEF CatalogueInv, ArchiveThere
      <3> QED BY <3>3, <3>4
    <2> QED BY <2>5, <2>6, <2>7 DEF ArchiveThere
  <1> QED BY <1>6, <1>7, <1>8, <1>9 DEF CatalogueInv

\* A deletion ends: the worker goes on, drops its list, or is not concerned.
LEMMA EndOfDeletion ==
  ASSUME CatalogueInv, NEW x \in Parties, Deleting(x), NEW g \in BOOLEAN, DeletionEnds(x, g)
  PROVE  /\ dl' \in [Parties -> Deletion] /\ ~Deleting(x)'
         /\ \A y \in Parties \ {x} : dl'[y] = dl[y]
         /\ wk' \in WorkerState
         /\ wk'.pc # "idle" => wk'.pc = wk.pc /\ wk'.b = wk.b
  <1>1. dl \in [Parties -> Deletion] /\ wk \in WorkerState BY DEF CatalogueInv, Shape
  <1>2. dl' \in [Parties -> Deletion] /\ ~Deleting(x)' /\ \A y \in Parties \ {x} : dl'[y] = dl[y]
    BY <1>1, NoDeletionTyped DEF DeletionEnds, Deleting
  <1>3. dl[x].b \in Backups BY DEF CatalogueInv, Holds
  <1>4. wk' = wk \/ wk' = [wk EXCEPT !.list = @ \ {dl[x].b}] \/ wk' = Resting BY DEF DeletionEnds
  <1>5. wk' \in WorkerState /\ (wk'.pc # "idle" => wk'.pc = wk.pc /\ wk'.b = wk.b)
    <2>1. CASE wk' = wk BY <1>1, <2>1
    <2>2. CASE wk' = [wk EXCEPT !.list = @ \ {dl[x].b}]
      <3> DEFINE w == [wk EXCEPT !.list = @ \ {dl[x].b}]
      <3>1. w \in WorkerState /\ w.pc = wk.pc /\ w.b = wk.b BY <1>1, <1>3, MovesOn
      <3> QED BY <2>2, <3>1
    <2>3. CASE wk' = Resting
      <3>1. Resting \in WorkerState /\ Resting.pc = "idle" BY RestingTyped
      <3> QED BY <2>3, <3>1
    <2> QED BY <1>4, <2>1, <2>2, <2>3
  <1> QED BY <1>2, <1>5

\* A removal that failed returns the row to the status its object_key tells, one that
\* succeeded removes the row.
LEMMA DeletionConcludes ==
  ASSUME CatalogueInv, NEW x \in Parties, CancelBackupDeletion(x) \/ DeleteBackupRecord(x)
  PROVE  CatalogueInv'
  <1>1. bk \in [Backups -> BackupRow] /\ dl \in [Parties -> Deletion] BY DEF CatalogueInv, Shape
  <1> DEFINE b == dl[x].b
  <1>2. /\ Deleting(x) /\ b \in Backups /\ bk[b].status = "deleting"
        /\ dl[x].previous = IF bk[b].key THEN "succeeded" ELSE "failed"
    BY DEF CancelBackupDeletion, DeleteBackupRecord, CatalogueInv, Claimed, Holds, Deleting
  <1>3. \E g \in BOOLEAN : DeletionEnds(x, g) BY <1>2 DEF CancelBackupDeletion, DeleteBackupRecord
  <1>4. /\ dl' \in [Parties -> Deletion] /\ ~Deleting(x)'
        /\ \A y \in Parties \ {x} : dl'[y] = dl[y]
        /\ wk' \in WorkerState
        /\ wk'.pc # "idle" => wk'.pc = wk.pc /\ wk'.b = wk.b
    BY <1>2, <1>3, EndOfDeletion
  <1>5. \A y \in Parties \ {x} : Deleting(y) => dl[y].b # b /\ dl[y].b \in Backups
    BY <1>2 DEF CatalogueInv, Alone, Holds
  <1>6. \E s \in {"succeeded", "failed", "gone"} :
           /\ bk' = [bk EXCEPT ![b].status = s]
           /\ s = "gone" \/ (dl[x].pc = "cancel" /\ s = dl[x].previous)
    <2>1. dl[x].previous \in {"succeeded", "failed"} BY <1>2
    <2> QED BY <1>2, <2>1 DEF CancelBackupDeletion, DeleteBackupRecord
  <1>7. PICK s \in {"succeeded", "failed", "gone"} :
           /\ bk' = [bk EXCEPT ![b].status = s]
           /\ s = "gone" \/ (dl[x].pc = "cancel" /\ s = dl[x].previous)
    BY <1>6
  <1>8. /\ bk' \in [Backups -> BackupRow]
        /\ bk'[b].status = s /\ bk'[b].locked = bk[b].locked /\ bk'[b].key = bk[b].key
        /\ \A c \in Backups \ {b} : bk'[c] = bk[c]
    BY <1>1, <1>2, <1>7 DEF BackupRow
  <1>9. UNCHANGED <<file, create, faults>> BY DEF CancelBackupDeletion, DeleteBackupRecord
  <1>10. bk[b].key \in BOOLEAN BY <1>1, <1>2 DEF BackupRow
  <1> HIDE DEF b
  <1>11. Shape' BY <1>4, <1>8, <1>9 DEF CatalogueInv, Shape
  <1>12. Holds' BY <1>4 DEF CatalogueInv, Holds, Deleting
  <1>13. NotBegun' BY <1>2, <1>8, <1>9 DEF CatalogueInv, NotBegun
  <1>14. Archiving' BY <1>2, <1>4, <1>8 DEF CatalogueInv, Archiving, Holds
  <1>15. Claimed' /\ Alone'
    <2>1. \A y \in Parties : Deleting(y)' => y # x /\ dl'[y] = dl[y] /\ Deleting(y) /\ bk'[dl[y].b] = bk[dl[y].b]
      BY <1>4, <1>5, <1>8 DEF Deleting
    <2> QED BY <2>1 DEF CatalogueInv, Claimed, Alone
  <1>16. Unlocked' BY <1>8 DEF CatalogueInv, Unlocked
  <1>17. KeyTells' BY <1>2, <1>7, <1>8, <1>10 DEF CatalogueInv, KeyTells
  <1>18. ArchiveThere'
    <2>1. (wk.pc = "succeeded" => wk.b \in file)' BY <1>4, <1>9 DEF CatalogueInv, ArchiveThere
    <2>2. ASSUME faults.lost = 0, s = "succeeded" PROVE bk'[b].key = TRUE /\ b \in file
      BY <1>2, <1>7, <1>8, <1>10, <2>2 DEF CatalogueInv, ArchiveThere, b
    <2>3. \A y \in Parties : dl'[y].pc \in {"remove", "cancel"} => dl'[y] = dl[y] BY <1>4 DEF Deleting
    <2> QED BY <1>8, <1>9, <2>1, <2>2, <2>3 DEF CatalogueInv, ArchiveThere
  <1> QED BY <1>11, <1>12, <1>13, <1>14, <1>15, <1>16, <1>17, <1>18 DEF CatalogueInv

\* Who deletes a backup may go away at any time; its row stays claimed.
LEMMA DeletionDropped ==
  ASSUME CatalogueInv, NEW x \in Parties, UNCHANGED <<bk, create>>,
         \/ wk' = wk /\ Deleting(x)
         \/ wk' = Resting,
         NEW n \in {NoDeletion, [NoDeletion EXCEPT !.pc = "done"]}, dl' = [dl EXCEPT ![x] = n],
         Fault("crash"),
         \/ \A c \in Backups : c \in file => c \in file'
         \/ dl[x].pc = "remove" /\ file' = file \ {dl[x].b}
  PROVE  CatalogueInv'
  <1>1. dl \in [Parties -> Deletion] /\ wk \in WorkerState /\ faults \in [error : Nat, lost : Nat, crash : Nat]
    BY DEF CatalogueInv, Shape
  <1>2. /\ dl' \in [Parties -> Deletion] /\ ~Deleting(x)'
        /\ \A y \in Parties \ {x} : dl'[y] = dl[y]
    BY <1>1, NoDeletionTyped DEF Deleting
  <1>3. wk' \in WorkerState /\ (wk'.pc # "idle" => wk' = wk)
    <2>1. Resting \in WorkerState /\ Resting.pc = "idle" BY RestingTyped
    <2> QED BY <1>1, <2>1
  <1>4. faults' \in [error : Nat, lost : Nat, crash : Nat] /\ (faults'.lost = 0 => faults.lost = 0)
    BY <1>1, FaultCounted
  <1>5. \A y \in Parties : Deleting(y)' => y # x /\ dl'[y] = dl[y] /\ Deleting(y) BY <1>2 DEF Deleting
  <1>6. Shape' BY <1>2, <1>3, <1>4 DEF CatalogueInv, Shape
  <1>7. Holds' BY <1>3, <1>5 DEF CatalogueInv, Holds
  <1>8. NotBegun' /\ Unlocked' /\ KeyTells' BY DEF CatalogueInv, NotBegun, Unlocked, KeyTells
  <1>9. Archiving' BY <1>3 DEF CatalogueInv, Archiving
  <1>10. Claimed' /\ Alone' BY <1>5 DEF CatalogueInv, Claimed, Alone
  <1>11. ArchiveThere'
    <2>1. \A c \in Backups : c \in file /\ c \notin file' =>
             /\ bk[c].status = "deleting"
             /\ \A y \in Parties \ {x} : Deleting(y) => dl[y].b # c
      BY DEF CatalogueInv, Claimed, Alone, Holds, Deleting
    <2>2. (wk.pc = "succeeded" => wk.b \in file)'
      BY <1>3, <2>1 DEF CatalogueInv, ArchiveThere, Archiving, Holds
    <2>3. ASSUME NEW y \in Parties, dl'[y].pc \in {"remove", "cancel"}
          PROVE  y # x /\ dl'[y] = dl[y] /\ Deleting(y) /\ dl[y].b \in Backups
      BY <1>5, <2>3 DEF Deleting, CatalogueInv, Holds
    <2> QED BY <1>4, <2>1, <2>2, <2>3 DEF CatalogueInv, ArchiveThere
  <1> QED BY <1>6, <1>7, <1>8, <1>9, <1>10, <1>11 DEF CatalogueInv

\* The worker takes a queued backup, or one whose event came again, and archives it:
\* nobody can begin to delete it meanwhile.
LEMMA WorkerArchives ==
  ASSUME CatalogueInv, BeginBackup \/ Archive
  PROVE  CatalogueInv'
  <1>1. /\ bk \in [Backups -> BackupRow] /\ wk \in WorkerState
        /\ faults \in [error : Nat, lost : Nat, crash : Nat] /\ create \in [Backups -> CreateEvent]
    BY DEF CatalogueInv, Shape
  <1>2. wk.b \in Backups BY DEF BeginBackup, Archive, CatalogueInv, Holds
  <1>3. Resting \in WorkerState /\ Resting.pc = "idle" BY RestingTyped
  <1>4. \A q \in {"archive", "succeeded", "failed"} :
          LET w == [wk EXCEPT !.pc = q] IN w \in WorkerState /\ w.pc = q /\ w.b = wk.b
    BY <1>1, MovesOn
  <1>5. CASE BeginBackup
    <2>1. CASE HasJob(wk.b)
      <3>1. bk' = [bk EXCEPT ![wk.b].status = "running"] /\ wk' = [wk EXCEPT !.pc = "archive"]
        BY <1>5, <2>1 DEF BeginBackup, Goto
      <3>2. /\ bk' \in [Backups -> BackupRow]
            /\ bk'[wk.b].status = "running" /\ bk'[wk.b].key = bk[wk.b].key
            /\ \A c \in Backups \ {wk.b} : bk'[c] = bk[c]
        BY <1>1, <1>2, <3>1 DEF BackupRow
      <3>3. wk' \in WorkerState /\ wk'.pc = "archive" /\ wk'.b = wk.b BY <1>4, <3>1
      <3>4. bk[wk.b].status \in {"queued", "running"} BY <2>1 DEF HasJob
      <3>5. bk[wk.b].key # TRUE BY <1>2, <3>4 DEF CatalogueInv, KeyTells
      <3>6. \A x \in Parties : Deleting(x) => dl[x].b # wk.b /\ dl[x].b \in Backups
        BY <3>4 DEF CatalogueInv, Claimed, Holds
      <3>7. UNCHANGED <<file, create, dl, faults>> BY <1>5 DEF BeginBackup
      <3>8. Shape' /\ Holds' BY <1>2, <3>2, <3>3, <3>7 DEF CatalogueInv, Shape, Holds, Deleting
      <3>9. NotBegun' BY <3>2, <3>4, <3>7 DEF CatalogueInv, NotBegun
      <3>10. Archiving' BY <3>2, <3>3 DEF Archiving
      <3>11. Claimed' /\ Alone' BY <3>2, <3>6, <3>7 DEF CatalogueInv, Claimed, Alone, Deleting
      <3>12. Unlocked' /\ KeyTells' BY <3>2, <3>5 DEF CatalogueInv, Unlocked, KeyTells
      <3>13. ArchiveThere' BY <3>2, <3>3, <3>7 DEF CatalogueInv, ArchiveThere
      <3> QED BY <3>8, <3>9, <3>10, <3>11, <3>12, <3>13 DEF CatalogueInv
    <2>2. CASE ~HasJob(wk.b)
      <3>1. wk' = Resting /\ UNCHANGED <<bk, file, create, dl, faults>> BY <1>5, <2>2 DEF BeginBackup, RetryLater
      <3> QED BY <1>1, <1>3, <3>1, WorkerElsewhere
    <2> QED BY <2>1, <2>2
  <1>6. CASE Archive
    <2>1. UNCHANGED <<bk, create, dl>> BY <1>6 DEF Archive
    <2>2. bk[wk.b].status = "running" BY <1>6 DEF Archive, CatalogueInv, Archiving
    <2>3. faults' \in [error : Nat, lost : Nat, crash : Nat] /\ (faults'.lost = 0 => faults.lost = 0)
      BY <1>1, <1>6, FaultCounted DEF Archive
    <2>4. file' = file \/ file' = file \cup {wk.b} BY <1>6 DEF Archive
    <2>5. \/ wk' = [wk EXCEPT !.pc = "succeeded"] /\ wk.b \in file'
          \/ wk' = [wk EXCEPT !.pc = "failed"] \/ wk' = Resting
      BY <1>6 DEF Archive, Goto, RetryLater
    <2>6. /\ wk' \in WorkerState
          /\ wk'.pc # "idle" => wk'.b = wk.b /\ wk'.pc \in {"succeeded", "failed"}
          /\ wk'.pc = "succeeded" => wk.b \in file'
      <3>1. CASE wk' = [wk EXCEPT !.pc = "succeeded"] /\ wk.b \in file' BY <1>4, <3>1
      <3>2. CASE wk' = [wk EXCEPT !.pc = "failed"] BY <1>4, <3>2
      <3>3. CASE wk' = Resting BY <1>3, <3>3
      <3> QED BY <2>5, <3>1, <3>2, <3>3
    <2>7. Shape' /\ Holds' BY <1>2, <2>1, <2>3, <2>6 DEF CatalogueInv, Shape, Holds, Deleting
    <2>8. NotBegun' /\ Claimed' /\ Alone' /\ Unlocked' /\ KeyTells'
      BY <2>1 DEF CatalogueInv, NotBegun, Claimed, Alone, Unlocked, KeyTells, Deleting
    <2>9. Archiving' BY <2>1, <2>2, <2>6 DEF Archiving
    <2>10. ArchiveThere' BY <2>1, <2>3, <2>4, <2>6 DEF CatalogueInv, ArchiveThere
    <2> QED BY <2>7, <2>8, <2>9, <2>10 DEF CatalogueInv
  <1> QED BY <1>5, <1>6

\* The outcome is recorded; the archive of a backup recorded as succeeded is there.
LEMMA WorkerRecords ==
  ASSUME CatalogueInv, MarkBackupSucceeded \/ MarkBackupFailed
  PROVE  CatalogueInv'
  <1>1. bk \in [Backups -> BackupRow] /\ wk \in WorkerState BY DEF CatalogueInv, Shape
  <1>2. wk.b \in Backups /\ bk[wk.b].status = "running"
    BY DEF MarkBackupSucceeded, MarkBackupFailed, CatalogueInv, Holds, Archiving
  <1>3. UNCHANGED <<file, create, dl, faults>> /\ wk' = [wk EXCEPT !.pc = "ack"]
    BY DEF MarkBackupSucceeded, MarkBackupFailed, Goto
  <1>4. wk' \in WorkerState /\ wk'.pc = "ack" /\ wk'.b = wk.b BY <1>1, <1>3, MovesOn
  <1>5. /\ bk' \in [Backups -> BackupRow]
        /\ \/ bk'[wk.b].status = "succeeded" /\ bk'[wk.b].key = TRUE /\ wk.b \in file
           \/ bk'[wk.b].status = "failed" /\ bk'[wk.b].key = bk[wk.b].key
        /\ \A c \in Backups \ {wk.b} : bk'[c] = bk[c]
    <2>1. CASE MarkBackupSucceeded
      <3>1. wk.b \in file BY <2>1 DEF MarkBackupSucceeded, CatalogueInv, ArchiveThere
      <3>2. bk' = [bk EXCEPT ![wk.b].status = "succeeded", ![wk.b].key = TRUE]
        BY <1>2, <2>1 DEF MarkBackupSucceeded
      <3> QED BY <1>1, <1>2, <3>1, <3>2 DEF BackupRow
    <2>2. CASE MarkBackupFailed
      <3>1. bk' = [bk EXCEPT ![wk.b].status = "failed"] BY <1>2, <2>2 DEF MarkBackupFailed
      <3> QED BY <1>1, <1>2, <3>1 DEF BackupRow
    <2> QED BY <2>1, <2>2
  <1>6. bk[wk.b].key # TRUE BY <1>2 DEF CatalogueInv, KeyTells
  <1>7. \A x \in Parties : Deleting(x) => dl[x].b # wk.b /\ dl[x].b \in Backups
    BY <1>2 DEF CatalogueInv, Claimed, Holds
  <1>8. Shape' /\ Holds' BY <1>2, <1>3, <1>4, <1>5 DEF CatalogueInv, Shape, Holds, Deleting
  <1>9. NotBegun' BY <1>2, <1>3, <1>5 DEF CatalogueInv, NotBegun
  <1>10. Archiving' BY <1>4 DEF Archiving
  <1>11. Claimed' /\ Alone' BY <1>3, <1>5, <1>7 DEF CatalogueInv, Claimed, Alone, Deleting
  <1>12. Unlocked' BY <1>5 DEF CatalogueInv, Unlocked
  <1>13. KeyTells' BY <1>5, <1>6 DEF CatalogueInv, KeyTells
  <1>14. ArchiveThere' BY <1>3, <1>4, <1>5 DEF CatalogueInv, ArchiveThere
  <1> QED BY <1>8, <1>9, <1>10, <1>11, <1>12, <1>13, <1>14 DEF CatalogueInv

\* Claims, deliveries and acknowledgements do not touch rows and archives.
LEMMA WorkerDelivers ==
  ASSUME CatalogueInv,
         \/ \E b \in Backups : ClaimCreate(b) \/ \E d \in Dests : ClaimDelivery(b, d)
         \/ ExpiredBackups \/ ExpireDone
         \/ BeginBackupDelivery \/ OpenBackup \/ SendBackup \/ FinishBackupDelivery \/ Ack
  PROVE  CatalogueInv'
  <1>1. /\ wk \in WorkerState /\ create \in [Backups -> CreateEvent]
        /\ faults \in [error : Nat, lost : Nat, crash : Nat]
    BY DEF CatalogueInv, Shape
  <1>2. UNCHANGED <<bk, file, dl>>
    BY DEF ClaimCreate, ClaimDelivery, ExpiredBackups, ExpireDone, BeginBackupDelivery, OpenBackup, SendBackup,
           FinishBackupDelivery, Ack
  <1>3. /\ create' \in [Backups -> CreateEvent]
        /\ \A b \in Backups : create'[b].phase \in {"idle", "checked"} => create[b].phase \in {"idle", "checked"}
    <2>1. ASSUME NEW b \in Backups, ClaimCreate(b)
          PROVE  create' \in [Backups -> CreateEvent] /\ \A c \in Backups : create'[c].phase = create[c].phase
      <3>1. (IF create[b].attempts = BackupAttempts THEN create[b].attempts ELSE create[b].attempts + 1)
               \in 0 .. BackupAttempts
        BY <1>1, BackupsAssumption DEF CreateEvent
      <3> QED BY <1>1, <2>1, <3>1 DEF ClaimCreate, CreateEvent
    <2>2. CASE Ack BY <1>1, <2>2 DEF Ack, CreateEvent
    <2>3. CASE create' = create BY <1>1, <2>3
    <2> QED BY <2>1, <2>2, <2>3 DEF ClaimDelivery, ExpiredBackups, ExpireDone, BeginBackupDelivery, OpenBackup,
                                    SendBackup, FinishBackupDelivery
  <1>4. faults' \in [error : Nat, lost : Nat, crash : Nat] /\ (faults'.lost = 0 => faults.lost = 0)
    <2>1. CASE Fault("error") BY <1>1, <2>1, FaultCounted
    <2>2. CASE faults' = faults BY <1>1, <2>2
    <2> QED BY <2>1, <2>2 DEF ClaimCreate, ClaimDelivery, ExpiredBackups, ExpireDone, BeginBackupDelivery, OpenBackup,
                              SendBackup, FinishBackupDelivery, Ack
  <1> DEFINE Elsewhere(w) == /\ w \in WorkerState
                             /\ w.pc \notin {"archive", "succeeded", "failed"}
                             /\ w.pc \notin {"idle", "expire"} => w.b \in Backups
  <1>5. Elsewhere(wk')
    <2>1. Elsewhere(Resting) BY RestingTyped
    <2>2. ASSUME NEW b \in Backups, ClaimCreate(b) PROVE Elsewhere(wk') BY <2>2, RestingTyped DEF ClaimCreate
    <2>3. ASSUME NEW b \in Backups, NEW d \in Dests, ClaimDelivery(b, d) PROVE Elsewhere(wk')
      <3> DEFINE w == [Resting EXCEPT !.pc = "begin", !.b = b, !.d = d]
      <3>1. w \in WorkerState /\ w.pc = "begin" /\ w.b = b BY RestingTyped
      <3>2. wk' = w BY <2>3 DEF ClaimDelivery
      <3> QED BY <3>1, <3>2
    <2>4. CASE ExpiredBackups
      <3>1. PICK l \in SUBSET Backups : wk' = [Resting EXCEPT !.pc = "expire", !.list = l] BY <2>4 DEF ExpiredBackups
      <3> QED BY <3>1, RestingTyped
    <2>5. wk.pc \notin {"idle", "expire"} =>
            /\ \A r \in {"queued", "delivered", "too_large", "failed"} : Elsewhere([wk EXCEPT !.pc = "finish", !.result = r])
            /\ Elsewhere([wk EXCEPT !.pc = "open", !.result = "none"])
            /\ Elsewhere([wk EXCEPT !.pc = "send"]) /\ Elsewhere([wk EXCEPT !.pc = "ack"])
      <3> SUFFICES ASSUME wk.pc \notin {"idle", "expire"} PROVE
            /\ \A r \in {"queued", "delivered", "too_large", "failed"} : Elsewhere([wk EXCEPT !.pc = "finish", !.result = r])
            /\ Elsewhere([wk EXCEPT !.pc = "open", !.result = "none"])
            /\ Elsewhere([wk EXCEPT !.pc = "send"]) /\ Elsewhere([wk EXCEPT !.pc = "ack"])
        OBVIOUS
      <3>1. wk.b \in Backups BY DEF CatalogueInv, Holds
      <3>2. \A r \in {"queued", "delivered", "too_large", "failed"} : Elsewhere([wk EXCEPT !.pc = "finish", !.result = r])
        BY <1>1, <3>1, MovesOn
      <3>3. Elsewhere([wk EXCEPT !.pc = "open", !.result = "none"]) BY <1>1, <3>1, MovesOn
      <3>4. \A q \in {"send", "ack"} : Elsewhere([wk EXCEPT !.pc = q]) BY <1>1, <3>1, MovesOn
      <3> QED BY <3>2, <3>3, <3>4
    <2>6. CASE BeginBackupDelivery BY <2>1, <2>5, <2>6 DEF BeginBackupDelivery, RetryLater
    <2>7. CASE OpenBackup BY <2>5, <2>7 DEF OpenBackup, Goto, TryAgain, Result
    <2>8. CASE SendBackup BY <2>5, <2>8 DEF SendBackup, TooLarge, TryAgain, Result
    <2>9. CASE FinishBackupDelivery BY <2>1, <2>5, <2>9 DEF FinishBackupDelivery, Goto, RetryLater
    <2>10. CASE ExpireDone \/ Ack BY <2>1, <2>10 DEF ExpireDone, Ack
    <2> QED BY <2>2, <2>3, <2>4, <2>6, <2>7, <2>8, <2>9, <2>10
  <1> QED BY <1>2, <1>3, <1>4, <1>5, WorkerElsewhere

\* Every step preserves the invariant.
LEMMA CatalogueStep == CatalogueInv /\ [Next]_vars => CatalogueInv'
  <1> SUFFICES ASSUME CatalogueInv, [Next]_vars PROVE CatalogueInv' OBVIOUS
  <1>1. /\ wk \in WorkerState /\ create \in [Backups -> CreateEvent]
        /\ faults \in [error : Nat, lost : Nat, crash : Nat]
    BY DEF CatalogueInv, Shape
  <1>2. CASE UNCHANGED <<bk, file, create, wk, dl, faults>>
    BY <1>2 DEF CatalogueInv, Shape, Holds, NotBegun, Archiving, Claimed, Alone, Unlocked, KeyTells, ArchiveThere, Deleting
  <1>3. CASE UNCHANGED vars BY <1>2, <1>3 DEF vars
  <1>4. ASSUME NEW d \in Dests, DeleteWebhook(d) \/ \E s \in Destination : UpdateWebhook(d, s) PROVE CatalogueInv'
    BY <1>2, <1>4 DEF DeleteWebhook, UpdateWebhook
  <1>5. ASSUME NEW b \in Backups, NEW d \in Dests, RetryBackupDelivery(b, d) PROVE CatalogueInv'
    BY <1>2, <1>5 DEF RetryBackupDelivery
  <1>6. ASSUME NEW b \in Backups, NEW x \in Deleters, RequestDelete(x, b) PROVE CatalogueInv'
    BY <1>6, DeletionBegins DEF RequestDelete, Parties
  <1>7. CASE User BY <1>4, <1>5, <1>6, <1>7, UserRows DEF User
  <1>8. ASSUME NEW x \in Deleters \cup {Worker}, DeletionStep(x) PROVE CatalogueInv'
    BY <1>8, EngineDeletes, DeletionConcludes DEF DeletionStep, Parties
  <1>9. ASSUME NEW x \in Deleters, AbandonDelete(x) PROVE CatalogueInv'
    <2>1. x \in Parties BY DEF Parties
    <2>2. UNCHANGED <<bk, create>> /\ wk' = wk /\ Deleting(x) /\ Fault("crash") BY <1>9 DEF AbandonDelete, Deleting
    <2>3. dl' = [dl EXCEPT ![x] = [NoDeletion EXCEPT !.pc = "done"]] BY <1>9 DEF AbandonDelete
    <2>4. \/ \A c \in Backups : c \in file => c \in file'
          \/ dl[x].pc = "remove" /\ file' = file \ {dl[x].b}
      BY <1>9 DEF AbandonDelete
    <2> DEFINE n == [NoDeletion EXCEPT !.pc = "done"]
    <2>5. n \in {NoDeletion, [NoDeletion EXCEPT !.pc = "done"]} OBVIOUS
    <2> HIDE DEF n
    <2> QED BY <2>1, <2>2, <2>3, <2>4, <2>5, DeletionDropped DEF n
  <1>10. ASSUME NEW b \in Backups, ExpireNext(b) PROVE CatalogueInv'
    <2>1. CASE BeginBackupDeletion(b) BY <1>10, <2>1, DeletionBegins DEF ExpireNext, Parties
    <2>2. CASE ~BeginBackupDeletion(b)
      <3>1. wk' = [wk EXCEPT !.list = @ \ {b}] /\ UNCHANGED <<bk, file, dl, create, faults>> /\ wk.pc = "expire"
        BY <1>10, <2>2 DEF ExpireNext
      <3>2. wk' \in WorkerState /\ wk'.pc = "expire"
        <4> DEFINE w == [wk EXCEPT !.list = @ \ {b}]
        <4>1. w \in WorkerState /\ w.pc = wk.pc BY <1>1, MovesOn
        <4> QED BY <3>1, <4>1
      <3> QED BY <1>1, <3>1, <3>2, WorkerElsewhere
    <2> QED BY <2>1, <2>2
  <1>11. CASE WorkerCrash
    <2>1. Worker \in Parties BY DEF Parties
    <2>2. UNCHANGED <<bk, create>> /\ wk' = Resting /\ Fault("crash") /\ dl' = [dl EXCEPT ![Worker] = NoDeletion]
      BY <1>11 DEF WorkerCrash
    <2>3. \/ \A c \in Backups : c \in file => c \in file'
          \/ dl[Worker].pc = "remove" /\ file' = file \ {dl[Worker].b}
      BY <1>11 DEF WorkerCrash
    <2> QED BY <2>1, <2>2, <2>3, DeletionDropped
  <1>12. CASE WorkerStep BY <1>10, <1>12, WorkerArchives, WorkerRecords, WorkerDelivers DEF WorkerStep
  <1> QED BY <1>3, <1>7, <1>8, <1>9, <1>11, <1>12, UserRows, WorkerDelivers DEF Next

\* The invariant always holds.
LEMMA CatalogueAlways == Spec => []CatalogueInv
  BY CatalogueInit, CatalogueStep, PTL DEF Spec

-----------------------------------------------------------------------------
(* What a user relies on.                                                  *)

\* A backup that is offered for download or restore has its archive, whatever deletions,
\* retention, redelivered events and crashes interleave (MarkBackupSucceeded,
\* BeginBackupDeletion, CancelBackupDeletion): only a deletion that took place although
\* the engine's answer was lost can leave a row without it.
THEOREM OfferedHasArchive == Spec => []ReadyHasArchive
  <1>1. CatalogueInv => ReadyHasArchive BY DEF CatalogueInv, ArchiveThere, ReadyHasArchive
  <1> QED BY <1>1, CatalogueAlways, PTL

\* An archive is removed only while its row is claimed for deletion, and the claim
\* refuses a locked row (BeginBackupDeletion): a lock set after the retention listed the
\* backup, or after a user asked for its deletion, still counts.
THEOREM LockedArchiveKept == Spec => LockedKept
  <1>1. CatalogueInv /\ [Next]_vars => [\A b \in Backups : b \in file \ file' => ~bk[b].locked]_vars
    <2> SUFFICES ASSUME CatalogueInv, Next, NEW b \in Backups, b \in file \ file' PROVE ~bk[b].locked
      OBVIOUS
    <2>1. \E x \in Parties : Deleting(x) /\ dl[x].b = b
      <3>1. ASSUME NEW x \in Deleters \cup {Worker}, DeletionStep(x) PROVE Deleting(x) /\ dl[x].b = b
        BY <3>1 DEF DeletionStep, EngineDelete, CancelBackupDeletion, DeleteBackupRecord, Deleting
      <3>2. ASSUME NEW x \in Deleters, AbandonDelete(x) PROVE Deleting(x) /\ dl[x].b = b
        BY <3>2 DEF AbandonDelete, Deleting
      <3>3. CASE WorkerCrash BY <3>3 DEF WorkerCrash, Deleting, Parties
      <3>4. ~User
        BY DEF User, CheckBackup, CreateBackup, SetBackupLocked, RetryBackupDelivery, RequestDelete, DeleteWebhook,
               UpdateWebhook
      <3>5. ~WorkerStep
        BY DEF WorkerStep, BeginBackup, Archive, MarkBackupSucceeded, MarkBackupFailed, BeginBackupDelivery,
               OpenBackup, SendBackup, FinishBackupDelivery, Ack, ExpireNext, ExpireDone
      <3>6. ~ExpiredBackups /\ (\A c \in Backups : ~RetentionEnds(c) /\ ~ClaimCreate(c))
            /\ \A c \in Backups, d \in Dests : ~ClaimDelivery(c, d)
        BY DEF ExpiredBackups, RetentionEnds, ClaimCreate, ClaimDelivery
      <3> QED BY <3>1, <3>2, <3>3, <3>4, <3>5, <3>6 DEF Next, Parties
    <2>2. bk[b].status = "deleting" BY <2>1 DEF CatalogueInv, Claimed
    <2> QED BY <2>2 DEF CatalogueInv, Unlocked
  <1> QED BY <1>1, CatalogueAlways, PTL DEF Spec, LockedKept
=============================================================================
