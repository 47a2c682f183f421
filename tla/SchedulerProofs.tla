--------------------------- MODULE SchedulerProofs ---------------------------
(***************************************************************************)
(* Proofs about Scheduler, for any task lists, any number of runs, edits   *)
(* and faults: its state is well typed, the worker never runs past the end *)
(* of the tasks it has read, and the runs the clock starts never overlap.  *)
(***************************************************************************)
EXTENDS Scheduler, FiniteSetTheorems, SequenceTheorems, TLAPS

-----------------------------------------------------------------------------
(* Type correctness.                                                       *)

\* A handler that has not read its tasks yet is before the first of them.
BeforeTasks == wk.pc \in {"job", "tasks"} => wk.pos = 1

\* A handler at work has a run.
HoldsRun == wk.pc # "idle" => wk.r \in Runs

TypeInv == TypeOK /\ BeforeTasks /\ HoldsRun

\* Every task list, entered or empty, has a length; an entered one is not empty.
LEMMA ChainLength ==
  /\ \A c \in Chains \cup {<<>>} : Len(c) \in Nat
  /\ \A c \in Chains : Len(c) >= 1
  /\ \A c \in Chains \cup {<<>>} : \A n \in 1 .. Len(c) : c[n] \in Tasks
  <1>1. \A c \in Chains : c \in Seq(Tasks) /\ c # <<>> BY SchedulerAssumption
  <1>2. Len(<<>>) = 0 BY EmptySeq
  <1>3. \A c \in Chains : Len(c) \in Nat \ {0} BY <1>1, EmptySeq
  <1>4. \A c \in Chains : \A n \in 1 .. Len(c) : c[n] \in Tasks BY <1>1, ElementOfSeq
  <1> QED BY <1>2, <1>3, <1>4

\* The worker at rest, and with a run just claimed.
LEMMA RestingTyped ==
  /\ Resting \in WorkerState /\ Resting.pc = "idle"
  /\ \A r \in Runs : [Resting EXCEPT !.pc = "job", !.r = r] \in WorkerState
  BY DEF Resting, WorkerState

\* The initial state is well typed.
LEMMA TypeInit == Init => TypeInv
  <1> SUFFICES ASSUME Init PROVE TypeInv OBVIOUS
  <1>1. sch \in ScheduleRow BY DEF Init, ScheduleRow
  <1>2. run \in [Runs -> RunRow] BY DEF Init, RunRow, FreeRun
  <1>3. wk \in WorkerState BY RestingTyped DEF Init
  <1>4. wk.pc = "idle" BY DEF Init, Resting
  <1>5. op \in [queued : Nat, user : BOOLEAN] /\ backup \in BOOLEAN BY DEF Init
  <1>6. toggle \in BOOLEAN \cup {None} /\ srv \in Statuses BY DEF Init, Statuses
  <1>7. edits \in 0 .. MaxEdits /\ faults \in 0 .. MaxFaults BY SchedulerAssumption DEF Init
  <1> QED BY <1>1, <1>2, <1>3, <1>4, <1>5, <1>6, <1>7 DEF TypeInv, TypeOK, BeforeTasks, HoldsRun

\* A power action moves the server to one of its statuses, and so does its end.
LEMMA StatusTyped ==
  /\ \A a : Transition(a) \in Statuses
  /\ srv \in Statuses /\ Settle => srv' \in Statuses
  BY DEF Transition, Settle, Statuses

\* Edits of the schedule keep the state well typed.
LEMMA EditTyped ==
  ASSUME TypeInv,
         \/ \E c \in Chains, e \in BOOLEAN : CreateSchedule(c, e) \/ UpdateSchedule(c, e)
         \/ \E e \in BOOLEAN : ReadSchedule(e)
         \/ SetScheduleEnabled \/ DeleteSchedule \/ TimePasses
  PROVE  TypeInv'
  <1>1. sch \in ScheduleRow /\ run \in [Runs -> RunRow] BY DEF TypeInv, TypeOK
  <1>2. ASSUME NEW c \in Chains \cup {<<>>}, NEW e \in BOOLEAN, Save(c, e)
        PROVE  sch' \in ScheduleRow
    BY <1>2 DEF Save, scheduleNextRun, ScheduleRow
  <1>3. edits \in Nat /\ edits <= MaxEdits BY SchedulerAssumption DEF TypeInv, TypeOK
  <1>4. Edit => edits' \in 0 .. MaxEdits BY <1>3, SchedulerAssumption DEF Edit
  <1>5. ASSUME NEW c \in Chains, NEW e \in BOOLEAN, CreateSchedule(c, e) PROVE TypeInv'
    BY <1>2, <1>5 DEF CreateSchedule, TypeInv, TypeOK, BeforeTasks, HoldsRun
  <1>6. ASSUME NEW c \in Chains, NEW e \in BOOLEAN, UpdateSchedule(c, e) PROVE TypeInv'
    BY <1>2, <1>4, <1>6 DEF UpdateSchedule, TypeInv, TypeOK, BeforeTasks, HoldsRun
  <1>7. ASSUME NEW e \in BOOLEAN, ReadSchedule(e) PROVE TypeInv'
    BY <1>4, <1>7 DEF ReadSchedule, TypeInv, TypeOK, BeforeTasks, HoldsRun
  <1>8. CASE SetScheduleEnabled
    <2>1. sch.tasks \in Chains \cup {<<>>} BY <1>1 DEF ScheduleRow
    <2>2. toggle \in BOOLEAN BY <1>8 DEF SetScheduleEnabled, TypeInv, TypeOK
    <2>3. sch' \in ScheduleRow BY <1>1, <1>2, <1>8, <2>1, <2>2 DEF SetScheduleEnabled
    <2> QED BY <1>8, <2>3 DEF SetScheduleEnabled, TypeInv, TypeOK, BeforeTasks, HoldsRun
  <1>9. CASE DeleteSchedule
    <2>1. sch' \in ScheduleRow BY <1>1, <1>9 DEF DeleteSchedule, ScheduleRow
    <2>2. run' \in [Runs -> RunRow] BY <1>1, <1>9 DEF DeleteSchedule, RunRow
    <2> QED BY <1>9, <2>1, <2>2 DEF DeleteSchedule, TypeInv, TypeOK, BeforeTasks, HoldsRun
  <1>10. CASE TimePasses
    <2>1. sch' \in ScheduleRow BY <1>1, <1>10 DEF TimePasses, ScheduleRow
    <2> QED BY <1>10, <2>1 DEF TimePasses, TypeInv, TypeOK, BeforeTasks, HoldsRun
  <1> QED BY <1>5, <1>6, <1>7, <1>8, <1>9, <1>10

\* So do the requests for runs, and the power requests made meanwhile.
LEMMA RequestTyped ==
  ASSUME TypeInv,
         \/ \E r \in Runs : RunScheduleNow(r) \/ Claim(r)
         \/ EnqueueDueSchedules
         \/ \E a \in PowerActions : UserPower(a)
         \/ UserPowerDone \/ QueuedPower \/ QueuedBackup
  PROVE  TypeInv'
  <1>1. sch \in ScheduleRow /\ run \in [Runs -> RunRow] /\ op \in [queued : Nat, user : BOOLEAN]
        /\ srv \in Statuses
    BY DEF TypeInv, TypeOK
  <1>2. \A m \in BOOLEAN : Queued(m) \in RunRow BY DEF Queued, FreeRun, RunRow
  <1>3. ASSUME NEW r \in Runs, RunScheduleNow(r) PROVE TypeInv'
    <2>1. run' \in [Runs -> RunRow] BY <1>1, <1>2, <1>3 DEF RunScheduleNow
    <2> QED BY <1>3, <2>1 DEF RunScheduleNow, TypeInv, TypeOK, BeforeTasks, HoldsRun
  <1>4. ASSUME NEW r \in Runs, Claim(r) PROVE TypeInv'
    <2>1. wk' \in WorkerState BY <1>4, RestingTyped DEF Claim
    <2>2. wk'.pc = "job" /\ wk'.pos = 1 /\ wk'.r = r BY <1>4 DEF Claim, Resting
    <2> QED BY <1>4, <2>1, <2>2 DEF Claim, TypeInv, TypeOK, BeforeTasks, HoldsRun
  <1>5. CASE EnqueueDueSchedules
    <2>1. run' \in [Runs -> RunRow] BY <1>1, <1>2, <1>5 DEF EnqueueDueSchedules
    <2>2. sch' \in ScheduleRow BY <1>1, <1>5 DEF EnqueueDueSchedules, ScheduleRow
    <2> QED BY <1>5, <2>1, <2>2 DEF EnqueueDueSchedules, TypeInv, TypeOK, BeforeTasks, HoldsRun
  <1>6. ASSUME NEW a \in PowerActions, UserPower(a) PROVE TypeInv'
    BY <1>1, <1>6, StatusTyped DEF UserPower, TypeInv, TypeOK, BeforeTasks, HoldsRun
  <1>7. CASE UserPowerDone
    BY <1>1, <1>7, StatusTyped DEF UserPowerDone, TypeInv, TypeOK, BeforeTasks, HoldsRun
  <1>8. CASE QueuedPower
    BY <1>1, <1>8, StatusTyped DEF QueuedPower, TypeInv, TypeOK, BeforeTasks, HoldsRun
  <1>9. CASE QueuedBackup BY <1>9 DEF QueuedBackup, TypeInv, TypeOK, BeforeTasks, HoldsRun
  <1> QED BY <1>3, <1>4, <1>5, <1>6, <1>7, <1>8, <1>9

\* The worker's steps keep the state well typed, and within the tasks it has read.
LEMMA WorkerTyped ==
  ASSUME TypeInv, WorkerStep \/ Crash
  PROVE  TypeInv'
  <1>1. /\ sch \in ScheduleRow /\ run \in [Runs -> RunRow] /\ op \in [queued : Nat, user : BOOLEAN]
        /\ srv \in Statuses /\ wk \in WorkerState /\ backup \in BOOLEAN
    BY DEF TypeInv, TypeOK
  <1>2. Fault => faults' \in 0 .. MaxFaults BY SchedulerAssumption DEF Fault, TypeInv, TypeOK
  <1>3. wk' = Resting => wk' \in WorkerState /\ wk'.pc = "idle" BY RestingTyped
  <1>4. /\ AfterFailure(wk) \in WorkerState
        /\ AfterFailure(wk).pc = "finish" /\ AfterFailure(wk).r = wk.r
    BY <1>1 DEF AfterFailure, WorkerState
  <1>5. CASE ScheduleRunJob
    <2>1. run' \in [Runs -> RunRow] BY <1>1, <1>5 DEF ScheduleRunJob, RunRow
    <2>2. [wk EXCEPT !.pc = "tasks"] \in WorkerState BY <1>1 DEF WorkerState
    <2>3. wk' \in WorkerState /\ (wk' = Resting \/ (wk'.pc = "tasks" /\ wk'.r = wk.r /\ wk'.pos = wk.pos))
      <3>1. [wk EXCEPT !.pc = "tasks"].pc = "tasks" /\ [wk EXCEPT !.pc = "tasks"].r = wk.r
            /\ [wk EXCEPT !.pc = "tasks"].pos = wk.pos
        BY <1>1 DEF WorkerState
      <3>2. wk' = Resting \/ wk' = [wk EXCEPT !.pc = "tasks"] BY <1>5 DEF ScheduleRunJob
      <3> QED BY <1>3, <2>2, <3>1, <3>2
    <2> QED BY <1>3, <1>5, <2>1, <2>3 DEF ScheduleRunJob, TypeInv, TypeOK, BeforeTasks, HoldsRun
  <1>6. CASE ReadTasks
    <2>1. sch.tasks \in Chains \cup {<<>>} BY <1>1 DEF ScheduleRow
    <2>2. /\ wk' \in WorkerState /\ wk'.r = wk.r /\ wk'.pos = wk.pos /\ wk'.tasks = sch.tasks
          /\ wk'.pc = IF sch.tasks = <<>> THEN "finish" ELSE "task"
      BY <1>1, <1>6, <2>1 DEF ReadTasks, WorkerState
    <2>3. wk.pos = 1 BY <1>6 DEF ReadTasks, TypeInv, BeforeTasks
    <2>4. wk'.pc = "task" => wk'.pos \in 1 .. Len(wk'.tasks) BY <2>1, <2>2, <2>3, ChainLength
    <2> QED BY <1>6, <2>2, <2>4 DEF ReadTasks, TypeInv, TypeOK, BeforeTasks, HoldsRun
  <1>7. CASE executeScheduleTask
    <2>1. Len(wk.tasks) \in Nat /\ wk.pos \in 1 .. Len(wk.tasks) /\ wk.pos \in Nat
      BY <1>1, <1>7, ChainLength DEF executeScheduleTask, TypeInv, TypeOK, WorkerState
    <2>2. /\ AfterSuccess(wk) \in WorkerState /\ AfterSuccess(wk).r = wk.r
          /\ AfterSuccess(wk).pc \in {"task", "finish"} /\ AfterSuccess(wk).tasks = wk.tasks
          /\ AfterSuccess(wk).pc = "task" => AfterSuccess(wk).pos \in 1 .. Len(wk.tasks)
      <3>1. CASE wk.pos = Len(wk.tasks) BY <1>1, <3>1 DEF AfterSuccess, WorkerState
      <3>2. CASE wk.pos # Len(wk.tasks)
        <4>1. wk.pos + 1 \in 1 .. Len(wk.tasks) /\ wk.pos + 1 \in Nat BY <2>1, <3>2
        <4>2. AfterSuccess(wk) = [wk EXCEPT !.pos = wk.pos + 1] BY <3>2 DEF AfterSuccess
        <4>3. \A n \in Nat : LET w == [wk EXCEPT !.pos = n]
                             IN  w \in WorkerState /\ w.r = wk.r /\ w.pc = wk.pc /\ w.tasks = wk.tasks /\ w.pos = n
          BY <1>1 DEF WorkerState
        <4> QED BY <1>7, <4>1, <4>2, <4>3 DEF executeScheduleTask
      <3> QED BY <3>1, <3>2
    <2>3. \A t : Effect(t) => /\ srv' \in Statuses /\ op' \in [queued : Nat, user : BOOLEAN]
                              /\ backup' \in BOOLEAN
      BY <1>1, StatusTyped DEF Effect
    <2>4. /\ srv' \in Statuses /\ op' \in [queued : Nat, user : BOOLEAN] /\ backup' \in BOOLEAN
          /\ faults' \in 0 .. MaxFaults
          /\ wk' = AfterSuccess(wk) \/ wk' = AfterFailure(wk)
      BY <1>1, <1>2, <1>7, <2>3 DEF executeScheduleTask, TypeInv, TypeOK
    <2>5. wk.r \in Runs BY <1>7 DEF executeScheduleTask, TypeInv, HoldsRun
    <2> QED BY <1>4, <1>7, <2>2, <2>4, <2>5 DEF executeScheduleTask, TypeInv, TypeOK, BeforeTasks, HoldsRun
  <1>8. CASE FinishScheduleRun
    <2>1. run' \in [Runs -> RunRow] BY <1>1, <1>8 DEF FinishScheduleRun, RunRow
    <2>2. [wk EXCEPT !.pc = "ack"] \in WorkerState /\ [wk EXCEPT !.pc = "ack"].r = wk.r
          /\ [wk EXCEPT !.pc = "ack"].pc = "ack"
      BY <1>1 DEF WorkerState
    <2>3. wk.r \in Runs BY <1>8 DEF FinishScheduleRun, TypeInv, HoldsRun
    <2>4. wk' = [wk EXCEPT !.pc = "ack"] \/ wk' = Resting BY <1>8 DEF FinishScheduleRun
    <2>5. faults' \in 0 .. MaxFaults BY <1>2, <1>8 DEF FinishScheduleRun, TypeInv, TypeOK
    <2> QED BY <1>3, <1>8, <2>1, <2>2, <2>3, <2>4, <2>5
            DEF FinishScheduleRun, TypeInv, TypeOK, BeforeTasks, HoldsRun
  <1>9. CASE Ack
    <2>1. run' \in [Runs -> RunRow] BY <1>1, <1>9 DEF Ack, RunRow
    <2> QED BY <1>3, <1>9, <2>1 DEF Ack, TypeInv, TypeOK, BeforeTasks, HoldsRun
  <1>10. CASE Crash BY <1>2, <1>3, <1>10 DEF Crash, TypeInv, TypeOK, BeforeTasks, HoldsRun
  <1> QED BY <1>5, <1>6, <1>7, <1>8, <1>9, <1>10 DEF WorkerStep

\* Every step keeps the state well typed.
LEMMA TypeStep == TypeInv /\ [Next]_vars => TypeInv'
  <1> SUFFICES ASSUME TypeInv, [Next]_vars PROVE TypeInv' OBVIOUS
  <1>1. CASE UNCHANGED vars BY <1>1 DEF vars, TypeInv, TypeOK, BeforeTasks, HoldsRun
  <1>2. CASE User BY <1>2, EditTyped, RequestTyped DEF User
  <1>3. CASE WorkerStep \/ Crash BY <1>3, WorkerTyped
  <1> QED BY <1>1, <1>2, <1>3, EditTyped, RequestTyped DEF Next

\* The state is always well typed; in particular the worker, which has read the tasks
\* once, executes none beyond the last, whatever is made of the schedule meanwhile.
THEOREM SchedulerTyped == Spec => []TypeOK
  <1>1. TypeInv => TypeOK BY DEF TypeInv
  <1> QED BY <1>1, TypeInit, TypeStep, PTL DEF Spec

-----------------------------------------------------------------------------
(* The clock's runs do not overlap.                                        *)

\* Any two runs of the clock that are queued or under way are the same.
OneClockRun ==
  \A r, q \in Runs :
     (Active(r) /\ ~run[r].manual) /\ (Active(q) /\ ~run[q].manual) => r = q

\* A set of which any two elements are equal has at most one.
LEMMA AtMostOne ==
  ASSUME NEW S, \A x, y \in S : x = y
  PROVE  Cardinality(S) <= 1
  <1>1. CASE S = {} BY <1>1, FS_EmptySet
  <1>2. CASE S # {}
    <2>1. PICK x : x \in S BY <1>2
    <2>2. S = {x} BY <2>1
    <2> QED BY <2>2, FS_Singleton
  <1> QED BY <1>1, <1>2

\* The clock's runs are as they were, or fewer of them are active.
LEMMA RunsEnd ==
  ASSUME OneClockRun,
         \A r \in Runs : Active(r)' /\ ~run'[r].manual => Active(r) /\ ~run[r].manual
  PROVE  OneClockRun'
  BY DEF OneClockRun, Active

\* Every step keeps them apart: EnqueueDueSchedules has looked for active runs in the
\* same transaction, and what a user starts is marked as manual.
LEMMA ClockStep ==
  ASSUME TypeInv, OneClockRun, [Next]_vars
  PROVE  OneClockRun'
  <1>1. run \in [Runs -> RunRow] BY DEF TypeInv, TypeOK
  <1>2. CASE EnqueueDueSchedules
    <2>1. CASE RunActive BY <1>2, <2>1 DEF EnqueueDueSchedules, OneClockRun, Active
    <2>2. CASE ~RunActive
      <3>1. PICK q \in Runs : run' = [run EXCEPT ![q] = Queued(FALSE)]
        BY <1>2, <2>2 DEF EnqueueDueSchedules
      <3>2. \A r \in Runs \ {q} : ~Active(r)' BY <1>1, <2>2, <3>1 DEF RunActive, Active
      <3> QED BY <3>2 DEF OneClockRun, Active
    <2> QED BY <2>1, <2>2
  <1>3. ASSUME NEW q \in Runs, RunScheduleNow(q) PROVE OneClockRun'
    <2>1. run'[q].manual BY <1>1, <1>3 DEF RunScheduleNow, Queued, FreeRun
    <2>2. \A r \in Runs \ {q} : run'[r] = run[r] BY <1>1, <1>3 DEF RunScheduleNow
    <2> QED BY <2>1, <2>2, RunsEnd DEF Active
  <1>4. CASE ScheduleRunJob
    <2>1. CASE HasJob(wk.r)
      <3>1. \A r \in Runs : run'[r].manual = run[r].manual BY <1>1, <1>4 DEF ScheduleRunJob, RunRow
      <3>2. \A r \in Runs \ {wk.r} : run'[r] = run[r] BY <1>1, <1>4 DEF ScheduleRunJob
      <3> QED BY <2>1, <3>1, <3>2, RunsEnd DEF HasJob, Active
    <2>2. CASE ~HasJob(wk.r) BY <1>4, <2>2 DEF ScheduleRunJob, OneClockRun, Active
    <2> QED BY <2>1, <2>2
  <1>5. CASE FinishScheduleRun
    <2>1. \A r \in Runs : run'[r].manual = run[r].manual /\ (Active(r)' => Active(r))
      BY <1>1, <1>5 DEF FinishScheduleRun, RunRow, Active
    <2> QED BY <2>1, RunsEnd
  <1>6. CASE Ack
    <2>1. \A r \in Runs : run'[r].manual = run[r].manual /\ (Active(r)' => Active(r))
      BY <1>1, <1>6 DEF Ack, RunRow, Active
    <2> QED BY <2>1, RunsEnd
  <1>7. CASE DeleteSchedule
    <2>1. \A r \in Runs : ~Active(r)' BY <1>1, <1>7 DEF DeleteSchedule, RunRow, Active
    <2> QED BY <2>1 DEF OneClockRun, Active
  <1>8. CASE run' = run BY <1>8 DEF OneClockRun, Active
  <1> QED BY <1>2, <1>3, <1>4, <1>5, <1>6, <1>7, <1>8
          DEF Next, User, WorkerStep, vars, CreateSchedule, UpdateSchedule, ReadSchedule, SetScheduleEnabled,
              UserPower, UserPowerDone, TimePasses, Claim, ReadTasks, executeScheduleTask, Crash,
              QueuedPower, QueuedBackup

\* The runs the clock starts never overlap, whatever edits, manual runs, crashes and
\* retried events come between (EnqueueDueSchedules, concurrency policy "skip").
THEOREM ClockRunsApart == Spec => []NoOverlap
  <1>1. Init => OneClockRun
    <2>1. Init => \A r \in Runs : run[r].status = "free" BY DEF Init, FreeRun
    <2> QED BY <2>1 DEF OneClockRun, Active
  <1>2. TypeInv /\ OneClockRun /\ [Next]_vars => OneClockRun' BY ClockStep
  <1>3. OneClockRun => NoOverlap
    <2> SUFFICES ASSUME OneClockRun PROVE NoOverlap OBVIOUS
    <2> DEFINE S == {r \in Runs : Active(r) /\ ~run[r].manual}
    <2>1. \A x, y \in S : x = y BY DEF OneClockRun
    <2> HIDE DEF S
    <2>2. Cardinality(S) <= 1 BY <2>1, AtMostOne
    <2> QED BY <2>2 DEF NoOverlap, S
  <1> QED BY <1>1, <1>2, <1>3, TypeInit, TypeStep, PTL DEF Spec
=============================================================================
