------------------------------ MODULE IdleTasks ------------------------------
(***************************************************************************)
(* InterfacePlayerRDK.cpp: the callbacks of the first frame, which are      *)
(* tasks of the scheduler.  Two of them ("progress", which starts the       *)
(* periodic progress timer, and "displayed") have a task id that is used    *)
(* under TaskControlMutex (IdleTaskAdd, IdleTaskRemove, IdleTaskClearFlags);*)
(* the third ("first") has an id and a pending flag without a mutex.  The   *)
(* threads of the bus and of the sinks add them, the scheduler's thread     *)
(* executes them, Stop removes them.                                        *)
(*                                                                         *)
(* A region of TaskControlMutex is one action; so is every access to a      *)
(* field of "first".  taskIsPending is written and never read, so it is left*)
(* out.  As in EosNotification the scheduler accepts every task.            *)
(***************************************************************************)
EXTENDS Integers, Sequences

CONSTANTS
  FrameNotifiers,  \* threads that call NotifyFirstFrame for video
  MaxIdleTasks    \* bound: tasks scheduled in one behaviour

ASSUME IdleBoundAssumption == MaxIdleTasks \in Nat

IdleKinds == {"progress", "displayed"}
Kinds == IdleKinds \union {"first"}
NO_TASK_ID == 0    \* PLAYER_TASK_ID_INVALID

VARIABLES
  taskID,        \* GstTaskControlData.taskID of the idle tasks
  firstFrameId,  \* firstFrameCallbackIdleTaskId
  firstFramePending,
  decoderHandleNotified,
  timerId,       \* periodicProgressCallbackIdleTaskId
  timers,        \* the glib timers that are running
  tasks,         \* tasks queued in mScheduler, oldest first
  running,       \* the task being executed, or NoTask
  step,          \* how far its function is
  framePc,       \* where each NotifyFirstFrame is
  frameTid,      \* the id ScheduleTask returned to it
  stopAt,        \* where Stop is; "playing" and "stopped" in between
  added          \* history: how many tasks were scheduled

NoTask == [id |-> NO_TASK_ID, kind |-> "none"]
Task(k, i) == [id |-> i, kind |-> k]

firstVars  == <<firstFrameId, firstFramePending, decoderHandleNotified>>
timerVars  == <<timerId, timers>>
workerVars == <<running, step>>
frameVars  == <<framePc, frameTid>>
idleVars   == <<taskID, firstVars, timerVars, tasks, workerVars, frameVars, stopAt, added>>

IdleTypeOK ==
  /\ taskID \in [IdleKinds -> 0..added]
  /\ firstFrameId \in 0..added
  /\ firstFramePending \in BOOLEAN
  /\ decoderHandleNotified \in BOOLEAN
  /\ timerId \in BOOLEAN
  /\ timers \in Nat
  /\ tasks \in Seq([id : 1..added, kind : Kinds])
  /\ running \in [id : 1..added, kind : Kinds] \union {NoTask}
  /\ step \in {"none", "event", "clear", "clearPending", "timerTest", "timerAdd"}
  /\ framePc \in [FrameNotifiers -> {"out", "test", "mark", "schedule", "store", "testId",
                           "setPending", "progress", "displayed"}]
  /\ frameTid \in [FrameNotifiers -> 0..added]
  /\ stopAt \in {"stopped", "playing", "removeProgress", "removeTimer", "testFirst",
              "removeFirst", "clearPending", "clearId", "removeDisplayed", "destroy"}
  /\ added \in 0..MaxIdleTasks

IdleInit ==
  /\ taskID = [k \in IdleKinds |-> NO_TASK_ID]
  /\ firstFrameId = NO_TASK_ID
  /\ firstFramePending = FALSE
  /\ decoderHandleNotified = FALSE
  /\ timerId = FALSE
  /\ timers = 0
  /\ tasks = <<>>
  /\ running = NoTask
  /\ step = "none"
  /\ framePc = [n \in FrameNotifiers |-> "out"]
  /\ frameTid = [n \in FrameNotifiers |-> NO_TASK_ID]
  /\ stopAt = "stopped"
  /\ added = 0

-----------------------------------------------------------------------------
(* What the scheduler does for its users.                                  *)

ScheduleTask(k) ==
  /\ added < MaxIdleTasks
  /\ added' = added + 1
  /\ tasks' = Append(tasks, Task(k, added'))

RemoveTask(i) ==
  \/ \E p \in 1..Len(tasks) :
       /\ tasks[p].id = i
       /\ tasks' = SubSeq(tasks, 1, p - 1) \o SubSeq(tasks, p + 1, Len(tasks))
  \/ /\ \A p \in 1..Len(tasks) : tasks[p].id # i
     /\ UNCHANGED tasks

\* IdleTaskAdd: the task is scheduled and its id recorded, unless there is an id.
IdleTaskAdd(k) ==
  IF taskID[k] = NO_TASK_ID
  THEN /\ ScheduleTask(k)
       /\ taskID' = [taskID EXCEPT ![k] = added']
  ELSE UNCHANGED <<tasks, added, taskID>>

\* Faulty variant: the task is removed and its id stays.
IdleTaskRemove_KeepsId(k) ==
  /\ RemoveTask(taskID[k])
  /\ UNCHANGED taskID

IdleTaskRemove(k) ==
  /\ IF taskID[k] # NO_TASK_ID THEN RemoveTask(taskID[k]) ELSE UNCHANGED tasks
  /\ taskID' = [taskID EXCEPT ![k] = NO_TASK_ID]

\* Faulty variant: a finished task keeps its id.
IdleTaskClearFlags_Forgotten(k) == UNCHANGED taskID

IdleTaskClearFlags(k) == taskID' = [taskID EXCEPT ![k] = NO_TASK_ID]

-----------------------------------------------------------------------------
(* NotifyFirstFrame for video, lines 3633-3653, called by callbacks that are *)
(* connected while there is a pipeline.  They may outlive Stop.              *)

FrameGoes(n, from, to) == framePc[n] = from /\ framePc' = [framePc EXCEPT ![n] = to]

NotifyFirstFrame(n) ==
  /\ stopAt = "playing"
  /\ FrameGoes(n, "out", "test")
  /\ UNCHANGED <<taskID, firstVars, timerVars, tasks, workerVars, frameTid, stopAt, added>>

TestNotified(n) ==
  /\ FrameGoes(n, "test", IF decoderHandleNotified THEN "progress" ELSE "mark")
  /\ UNCHANGED <<taskID, firstVars, timerVars, tasks, workerVars, frameTid, stopAt, added>>

MarkNotified(n) ==
  /\ FrameGoes(n, "mark", "schedule")
  /\ decoderHandleNotified' = TRUE
  /\ firstFramePending' = FALSE
  /\ UNCHANGED <<taskID, firstFrameId, timerVars, tasks, workerVars, frameTid, stopAt, added>>

ScheduleFirst(n) ==
  /\ FrameGoes(n, "schedule", "store")
  /\ ScheduleTask("first")
  /\ frameTid' = [frameTid EXCEPT ![n] = added']
  /\ UNCHANGED <<taskID, firstVars, timerVars, workerVars, stopAt>>

StoreFirstId(n) ==
  /\ FrameGoes(n, "store", "testId")
  /\ firstFrameId' = frameTid[n]
  /\ UNCHANGED <<taskID, firstFramePending, decoderHandleNotified, timerVars, tasks,
                 workerVars, frameTid, stopAt, added>>

TestFirstId(n) ==
  /\ FrameGoes(n, "testId", IF firstFrameId # NO_TASK_ID THEN "setPending" ELSE "progress")
  /\ UNCHANGED <<taskID, firstVars, timerVars, tasks, workerVars, frameTid, stopAt, added>>

SetFirstPending(n) ==
  /\ FrameGoes(n, "setPending", "progress")
  /\ firstFramePending' = TRUE
  /\ UNCHANGED <<taskID, firstFrameId, decoderHandleNotified, timerVars, tasks,
                 workerVars, frameTid, stopAt, added>>

AddProgress(n) ==
  /\ FrameGoes(n, "progress", "displayed")
  /\ IdleTaskAdd("progress")
  /\ UNCHANGED <<firstVars, timerVars, workerVars, frameTid, stopAt>>

\* requireFirstVideoFrameDisplay is the application's choice.
AddDisplayed(n) ==
  /\ FrameGoes(n, "displayed", "out")
  /\ IdleTaskAdd("displayed") \/ UNCHANGED <<tasks, added, taskID>>
  /\ UNCHANGED <<firstVars, timerVars, workerVars, frameTid, stopAt>>

-----------------------------------------------------------------------------
(* The scheduler's thread.                                                 *)

TakeIdleTask ==
  /\ step = "none" /\ tasks # <<>>
  /\ running' = Head(tasks)
  /\ tasks' = Tail(tasks)
  /\ step' = "event"
  /\ UNCHANGED <<taskID, firstVars, timerVars, frameVars, stopAt, added>>

\* All three functions begin with TriggerEvent.
TriggerIdleEvent ==
  /\ step = "event" /\ step' = "clear"
  /\ UNCHANGED <<taskID, firstVars, timerVars, tasks, running, frameVars, stopAt, added>>

Ends == running' = NoTask /\ step' = "none"

\* IdleCallback, lines 767-780.
ProgressClears ==
  /\ step = "clear" /\ running.kind = "progress"
  /\ IdleTaskClearFlags("progress")
  /\ step' = "timerTest"
  /\ UNCHANGED <<firstVars, timerVars, tasks, running, frameVars, stopAt, added>>

TimerIsRunning ==
  /\ step = "timerTest"
  /\ IF timerId THEN Ends ELSE step' = "timerAdd" /\ UNCHANGED running
  /\ UNCHANGED <<taskID, firstVars, timerVars, tasks, frameVars, stopAt, added>>

TimerAdd ==
  /\ step = "timerAdd"
  /\ Ends
  /\ timers' = IF timerId THEN timers ELSE timers + 1
  /\ timerId' = TRUE
  /\ UNCHANGED <<taskID, firstVars, tasks, frameVars, stopAt, added>>

\* IdleCallbackFirstVideoFrameDisplayed, line 797.
DisplayedClears ==
  /\ step = "clear" /\ running.kind = "displayed"
  /\ IdleTaskRemove("displayed")
  /\ Ends
  /\ UNCHANGED <<firstVars, timerVars, frameVars, stopAt, added>>

\* IdleCallbackOnFirstFrame, lines 538-539.
FirstClearsId ==
  /\ step = "clear" /\ running.kind = "first"
  /\ firstFrameId' = NO_TASK_ID
  /\ step' = "clearPending"
  /\ UNCHANGED <<taskID, firstFramePending, decoderHandleNotified, timerVars, tasks,
                 running, frameVars, stopAt, added>>

FirstClearsPending ==
  /\ step = "clearPending"
  /\ firstFramePending' = FALSE
  /\ Ends
  /\ UNCHANGED <<taskID, firstFrameId, decoderHandleNotified, timerVars, tasks,
                 frameVars, stopAt, added>>

-----------------------------------------------------------------------------
(* Stop, lines 1382-1411 and DestroyPipeline, line 1075.                   *)

StopGoesOn(from, to) == stopAt = from /\ stopAt' = to

PlaybackStarts ==
  /\ StopGoesOn("stopped", "playing")
  /\ UNCHANGED <<taskID, firstVars, timerVars, tasks, workerVars, frameVars, added>>

IdleStopBegin ==
  /\ StopGoesOn("playing", "removeProgress")
  /\ UNCHANGED <<taskID, firstVars, timerVars, tasks, workerVars, frameVars, added>>

StopRemovesProgress ==
  /\ StopGoesOn("removeProgress", "removeTimer")
  /\ IdleTaskRemove("progress")
  /\ UNCHANGED <<firstVars, timerVars, workerVars, frameVars, added>>

TimerRemove ==
  /\ StopGoesOn("removeTimer", "testFirst")
  /\ timers' = IF timerId THEN timers - 1 ELSE timers
  /\ timerId' = FALSE
  /\ UNCHANGED <<taskID, firstVars, tasks, workerVars, frameVars, added>>

StopTestsFirst ==
  /\ StopGoesOn("testFirst", IF firstFramePending THEN "removeFirst" ELSE "removeDisplayed")
  /\ UNCHANGED <<taskID, firstVars, timerVars, tasks, workerVars, frameVars, added>>

StopRemovesFirst ==
  /\ StopGoesOn("removeFirst", "clearPending")
  /\ RemoveTask(firstFrameId)
  /\ UNCHANGED <<taskID, firstVars, timerVars, workerVars, frameVars, added>>

StopClearsFirstPending ==
  /\ StopGoesOn("clearPending", "clearId")
  /\ firstFramePending' = FALSE
  /\ UNCHANGED <<taskID, firstFrameId, decoderHandleNotified, timerVars, tasks,
                 workerVars, frameVars, added>>

StopClearsFirstId ==
  /\ StopGoesOn("clearId", "removeDisplayed")
  /\ firstFrameId' = NO_TASK_ID
  /\ UNCHANGED <<taskID, firstFramePending, decoderHandleNotified, timerVars, tasks,
                 workerVars, frameVars, added>>

StopRemovesDisplayed ==
  /\ StopGoesOn("removeDisplayed", "destroy")
  /\ IdleTaskRemove("displayed")
  /\ UNCHANGED <<firstVars, timerVars, workerVars, frameVars, added>>

DestroyPipeline ==
  /\ StopGoesOn("destroy", "stopped")
  /\ decoderHandleNotified' = FALSE
  /\ UNCHANGED <<taskID, firstFrameId, firstFramePending, timerVars, tasks,
                 workerVars, frameVars, added>>

-----------------------------------------------------------------------------
Notifying(n) ==
  \/ TestNotified(n) \/ MarkNotified(n) \/ ScheduleFirst(n) \/ StoreFirstId(n)
  \/ TestFirstId(n) \/ SetFirstPending(n) \/ AddProgress(n) \/ AddDisplayed(n)

Worker ==
  \/ TakeIdleTask \/ TriggerIdleEvent \/ ProgressClears \/ TimerIsRunning \/ TimerAdd
  \/ DisplayedClears \/ FirstClearsId \/ FirstClearsPending

IdleStop ==
  \/ StopRemovesProgress \/ TimerRemove \/ StopTestsFirst \/ StopRemovesFirst
  \/ StopClearsFirstPending \/ StopClearsFirstId \/ StopRemovesDisplayed \/ DestroyPipeline

IdleNext ==
  \/ \E n \in FrameNotifiers : NotifyFirstFrame(n) \/ Notifying(n)
  \/ Worker
  \/ IdleStop \/ IdleStopBegin \/ PlaybackStarts

\* The threads run; nothing is assumed of when frames arrive or Stop is called.
IdleFairness ==
  /\ \A n \in FrameNotifiers : WF_idleVars(Notifying(n))
  /\ WF_idleVars(Worker) /\ WF_idleVars(IdleStop)

IdleSpec == IdleInit /\ [][IdleNext]_idleVars
IdleFairSpec == IdleSpec /\ IdleFairness

-----------------------------------------------------------------------------
\* An idle task whose id is recorded is queued, or is executing and has not
\* cleared the id yet: IdleTaskAdd never takes a task for pending ("was already
\* pending") that has run or was removed.  This is what TaskControlMutex is for:
\* the task may run before ScheduleTask has returned its id.  In the same way
\* periodicProgressCallbackIdleTaskId tells whether the progress timer runs, and
\* there is never more than one.
IdsAreLive ==
  /\ \A k \in IdleKinds :
       taskID[k] # NO_TASK_ID =>
         \/ \E p \in 1..Len(tasks) : tasks[p] = Task(k, taskID[k])
         \/ running = Task(k, taskID[k]) /\ step \in {"event", "clear"}
  /\ timers = (IF timerId THEN 1 ELSE 0)

\* A first frame starts the progress timer if playback is not stopped, also
\* when tasks of the playback before are still queued or executing.
ProgressStarts ==
  \A n \in FrameNotifiers :
    (framePc[n] = "progress" /\ added < MaxIdleTasks /\ [](stopAt = "playing")) ~> timerId
=============================================================================
