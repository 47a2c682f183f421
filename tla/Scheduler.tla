------------------------------ MODULE Scheduler ------------------------------
(***************************************************************************)
(* A cron schedule of one server: the row a user creates, edits, enables   *)
(* and deletes, the worker's search for due schedules, and the runs that   *)
(* the worker executes task by task from the outbox, on a server whose     *)
(* power operations and backups other parties start as well.               *)
(*                                                                         *)
(* Cron arithmetic is abstracted to whether next_run_at is null, ahead or  *)
(* reached.  Rows of finished runs are history the code never reads again, *)
(* so their identities are used anew.                                      *)
(***************************************************************************)
EXTENDS Naturals, Sequences, FiniteSets, PowerRules

CONSTANTS
  Chains,     \* the task lists that users enter, non-empty sequences of Tasks
  Runs,       \* identities of runs
  Users,      \* the power actions that users request meanwhile
  MaxEdits,   \* bound: edits of the schedule after its creation
  MaxFaults,  \* bound: failed calls, expired timeouts and crashes
  None        \* no run, no pending edit

Tasks == PowerActions \cup {"backup", "command", "delay", "notify"}

ASSUME SchedulerAssumption ==
  /\ Chains \subseteq Seq(Tasks) \ {<<>>}
  /\ Users \subseteq PowerActions
  /\ MaxEdits \in Nat
  /\ MaxFaults \in Nat
  /\ None \notin Runs \cup BOOLEAN

VARIABLES
  sch,     \* the row of table schedules, with its tasks
  toggle,  \* the value SetScheduleEnabled is about to write
  run,     \* run[r]: a row of schedule_runs and its schedule.run event
  wk,      \* the worker's handler of schedule.run
  srv,     \* the server's status
  op,      \* active operations: power events queued by tasks, a user's operation
  backup,  \* a backup of the server is queued or running
  edits,   \* edits so far
  faults   \* faults so far

vars == <<sch, toggle, run, wk, srv, op, backup, edits, faults>>

ScheduleRow ==
  [state : {"none", "live", "deleted"}, enabled : BOOLEAN,
   next : {"never", "future", "due"}, tasks : Chains \cup {<<>>}]

RunRow ==
  [status : {"free", "queued", "running", "succeeded", "failed", "gone"},
   manual : BOOLEAN, event : BOOLEAN]

WorkerState ==
  [pc : {"idle", "job", "tasks", "task", "finish", "ack"}, r : Runs \cup {None},
   tasks : Chains \cup {<<>>}, pos : Nat, failed : BOOLEAN]

Statuses == {"running", "stopped", "starting", "stopping", "restarting"}

TypeOK ==
  /\ sch \in ScheduleRow
  /\ toggle \in BOOLEAN \cup {None}
  /\ run \in [Runs -> RunRow]
  /\ wk \in WorkerState
  /\ wk.pc = "task" => wk.pos \in 1 .. Len(wk.tasks)
  /\ srv \in Statuses
  /\ op \in [queued : Nat, user : BOOLEAN]
  /\ backup \in BOOLEAN
  /\ edits \in 0 .. MaxEdits
  /\ faults \in 0 .. MaxFaults

Resting == [pc |-> "idle", r |-> None, tasks |-> <<>>, pos |-> 1, failed |-> FALSE]
FreeRun == [status |-> "free", manual |-> FALSE, event |-> FALSE]

Init ==
  /\ sch = [state |-> "none", enabled |-> FALSE, next |-> "never", tasks |-> <<>>]
  /\ toggle = None
  /\ run = [r \in Runs |-> FreeRun]
  /\ wk = Resting
  /\ srv \in {"running", "stopped"}
  /\ op = [queued |-> 0, user |-> FALSE]
  /\ backup = FALSE
  /\ edits = 0
  /\ faults = 0

Edit == edits < MaxEdits /\ edits' = edits + 1
Fault == faults < MaxFaults /\ faults' = faults + 1
Live == sch.state = "live"
Active(r) == run[r].status \in {"queued", "running"}

-----------------------------------------------------------------------------
(* The schedule's row.                                                     *)

\* Mutant: the next run is not computed when a schedule is enabled.
scheduleNextRunKept(enabled) == IF enabled THEN sch.next ELSE "never"

scheduleNextRun(enabled) == IF enabled THEN "future" ELSE "never"

Save(tasks, enabled) ==
  sch' = [state |-> "live", enabled |-> enabled, next |-> scheduleNextRun(enabled),
          tasks |-> tasks]

CreateSchedule(tasks, enabled) ==
  /\ sch.state = "none"
  /\ Save(tasks, enabled)
  /\ UNCHANGED <<toggle, run, wk, srv, op, backup, edits, faults>>

UpdateSchedule(tasks, enabled) ==
  /\ Live /\ Edit
  /\ Save(tasks, enabled)
  /\ UNCHANGED <<toggle, run, wk, srv, op, backup, faults>>

\* The expression is read in one statement, the row is updated in another.
ReadSchedule(enabled) ==
  /\ Live /\ Edit /\ toggle = None
  /\ toggle' = enabled
  /\ UNCHANGED <<sch, run, wk, srv, op, backup, faults>>

SetScheduleEnabled ==
  /\ toggle # None
  /\ IF Live THEN Save(sch.tasks, toggle) ELSE UNCHANGED sch
  /\ toggle' = None
  /\ UNCHANGED <<run, wk, srv, op, backup, edits, faults>>

\* ON DELETE CASCADE takes the runs along; their events stay.
DeleteSchedule ==
  /\ Live
  /\ sch' = [sch EXCEPT !.state = "deleted", !.tasks = <<>>]
  /\ run' = [r \in Runs |-> IF run[r].status = "free" THEN run[r]
                            ELSE [run[r] EXCEPT !.status = "gone"]]
  /\ UNCHANGED <<toggle, wk, srv, op, backup, edits, faults>>

-----------------------------------------------------------------------------
(* Where runs come from.                                                   *)

Unused(r) == run[r].status \in {"free", "succeeded", "failed"} /\ wk.r # r
Queued(manual) == [FreeRun EXCEPT !.status = "queued", !.manual = manual, !.event = TRUE]

RunScheduleNow(r) ==
  /\ Live /\ Unused(r)
  /\ run' = [run EXCEPT ![r] = Queued(TRUE)]
  /\ UNCHANGED <<sch, toggle, wk, srv, op, backup, edits, faults>>

\* next_run_at is reached.
TimePasses ==
  /\ sch.next = "future"
  /\ sch' = [sch EXCEPT !.next = "due"]
  /\ UNCHANGED <<toggle, run, wk, srv, op, backup, edits, faults>>

\* Mutant: only a run that has begun counts as active.
RunActiveBegun == \E r \in Runs : run[r].status = "running"

RunActive == \E r \in Runs : Active(r)

\* The transaction locks the schedule's row: edits, deletions and manual runs
\* (whose insertion locks the same row) come before it or after it.
EnqueueDueSchedules ==
  /\ wk.pc = "idle"
  /\ Live /\ sch.enabled /\ sch.next = "due"
  /\ IF RunActive THEN UNCHANGED run
     ELSE \E r \in Runs : Unused(r) /\ run' = [run EXCEPT ![r] = Queued(FALSE)]
  /\ sch' = [sch EXCEPT !.next = "future"]
  /\ UNCHANGED <<toggle, wk, srv, op, backup, edits, faults>>

-----------------------------------------------------------------------------
(* The handler of schedule.run.                                            *)

Claim(r) ==
  /\ wk.pc = "idle" /\ run[r].event
  /\ wk' = [Resting EXCEPT !.pc = "job", !.r = r]
  /\ UNCHANGED <<sch, toggle, run, srv, op, backup, edits, faults>>

\* Mutant: a run that was interrupted is not taken up again.
HasJobQueued(r) == run[r].status = "queued"

HasJob(r) == Active(r)

\* ScheduleRunJob first takes the run, then reads the tasks.
ScheduleRunJob ==
  /\ wk.pc = "job"
  /\ IF HasJob(wk.r)
     THEN /\ run' = [run EXCEPT ![wk.r].status = "running"]
          /\ wk' = [wk EXCEPT !.pc = "tasks"]
     ELSE wk' = Resting /\ UNCHANGED run
  /\ UNCHANGED <<sch, toggle, srv, op, backup, edits, faults>>

ReadTasks ==
  /\ wk.pc = "tasks"
  /\ wk' = [wk EXCEPT !.pc = IF sch.tasks = <<>> THEN "finish" ELSE "task",
                      !.tasks = sch.tasks]
  /\ UNCHANGED <<sch, toggle, run, srv, op, backup, edits, faults>>

MayPower(a) ==
  /\ a # "kill" => srv \notin {"starting", "restarting", "stopping"}
  /\ a = "start" => srv # "running"
  /\ a \in {"stop", "kill"} => srv # "stopped"

MayBackup == ~backup /\ op.queued = 0 /\ ~op.user

\* What the store and the engine accept of the task at hand.
Accepted(t) ==
  CASE t \in PowerActions -> MayPower(t)
    [] t = "backup"       -> MayBackup
    [] t = "command"      -> srv # "stopped"
    [] OTHER              -> TRUE

Effect(t) ==
  /\ srv' = IF t \in PowerActions THEN Transition(t) ELSE srv
  /\ op' = IF t \in PowerActions THEN [op EXCEPT !.queued = @ + 1] ELSE op
  /\ backup' = (backup \/ t = "backup")

AfterFailure(w) == [w EXCEPT !.pc = "finish", !.failed = TRUE]

AfterSuccess(w) == IF w.pos = Len(w.tasks) THEN [w EXCEPT !.pc = "finish"]
                   ELSE [w EXCEPT !.pos = @ + 1]

\* One task: it takes effect, is refused, or fails or times out, possibly after
\* it took effect.
executeScheduleTask ==
  /\ wk.pc = "task"
  /\ LET t == wk.tasks[wk.pos] IN
       \/ /\ Accepted(t) /\ Effect(t)
          /\ \/ wk' = AfterSuccess(wk) /\ UNCHANGED faults
             \/ wk' = AfterFailure(wk) /\ Fault
       \/ /\ ~Accepted(t)
          /\ wk' = AfterFailure(wk)
          /\ UNCHANGED <<srv, op, backup, faults>>
       \/ Fault /\ wk' = AfterFailure(wk) /\ UNCHANGED <<srv, op, backup>>
  /\ UNCHANGED <<run, sch, toggle, edits>>

\* The outcome is recorded; if that fails, the event is retried.
FinishScheduleRun ==
  /\ wk.pc = "finish"
  /\ \/ /\ run' = IF run[wk.r].status = "gone" THEN run
                  ELSE [run EXCEPT ![wk.r].status = IF wk.failed THEN "failed" ELSE "succeeded"]
        /\ wk' = [wk EXCEPT !.pc = "ack"]
        /\ UNCHANGED faults
     \/ Fault /\ wk' = Resting /\ UNCHANGED run
  /\ UNCHANGED <<sch, toggle, srv, op, backup, edits>>

Ack ==
  /\ wk.pc = "ack"
  /\ run' = [run EXCEPT ![wk.r].event = FALSE]
  /\ wk' = Resting
  /\ UNCHANGED <<sch, toggle, srv, op, backup, edits, faults>>

Crash ==
  /\ wk.pc # "idle"
  /\ Fault
  /\ wk' = Resting
  /\ UNCHANGED <<sch, toggle, run, srv, op, backup, edits>>

-----------------------------------------------------------------------------
(* What else happens to the server.  The worker is one goroutine: it comes *)
(* to queued power actions and backups only between two runs.              *)

Settle == srv' \in CASE srv \in {"starting", "restarting"} -> {"running"}
                     [] srv = "stopping" -> {"stopped"}
                     [] OTHER -> {srv}

QueuedPower ==
  /\ wk.pc = "idle" /\ op.queued > 0
  /\ op' = [op EXCEPT !.queued = @ - 1]
  /\ Settle
  /\ UNCHANGED <<sch, toggle, run, wk, backup, edits, faults>>

QueuedBackup ==
  /\ wk.pc = "idle" /\ backup
  /\ backup' = FALSE
  /\ UNCHANGED <<sch, toggle, run, wk, srv, op, edits, faults>>

UserPower(a) ==
  /\ a \in Users /\ ~op.user /\ MayPower(a)
  /\ srv' = Transition(a)
  /\ op' = [op EXCEPT !.user = TRUE]
  /\ UNCHANGED <<sch, toggle, run, wk, backup, edits, faults>>

UserPowerDone ==
  /\ op.user
  /\ op' = [op EXCEPT !.user = FALSE]
  /\ Settle
  /\ UNCHANGED <<sch, toggle, run, wk, backup, edits, faults>>

-----------------------------------------------------------------------------
User ==
  \/ \E c \in Chains, e \in BOOLEAN : CreateSchedule(c, e) \/ UpdateSchedule(c, e)
  \/ \E e \in BOOLEAN : ReadSchedule(e)
  \/ SetScheduleEnabled \/ DeleteSchedule
  \/ \E r \in Runs : RunScheduleNow(r)
  \/ \E a \in PowerActions : UserPower(a)
  \/ UserPowerDone

WorkerStep ==
  ScheduleRunJob \/ ReadTasks \/ executeScheduleTask \/ FinishScheduleRun \/ Ack

Next ==
  \/ User
  \/ TimePasses \/ EnqueueDueSchedules
  \/ \E r \in Runs : Claim(r)
  \/ WorkerStep \/ Crash
  \/ QueuedPower \/ QueuedBackup

Spec == Init /\ [][Next]_vars

\* Time passes; the worker looks for due schedules before every event it takes, and
\* comes to every event that is due (Outbox, NoStarvation).
Fairness ==
  /\ WF_vars(WorkerStep)
  /\ WF_vars(TimePasses) /\ SF_vars(EnqueueDueSchedules)
  /\ \A r \in Runs : SF_vars(Claim(r))

FairSpec == Spec /\ Fairness

-----------------------------------------------------------------------------
(* Properties.                                                             *)

\* The runs the clock starts never overlap: one that is due while another is
\* queued or under way is skipped (concurrency policy "skip").
NoOverlap == Cardinality({r \in Runs : Active(r) /\ ~run[r].manual}) <= 1

\* Every run that was accepted ends, through crashes and failed statements.
RunFinishes == \A r \in Runs : Active(r) ~> ~Active(r)

\* A schedule that stays enabled runs again and again: no run that was lost, and
\* no way of enabling it, keeps it from running for ever.
KeepsRunning ==
  <>[](Live /\ sch.enabled) => []<>(\E r \in Runs : run[r].status = "running")

=============================================================================
