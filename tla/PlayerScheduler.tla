--------------------------- MODULE PlayerScheduler ---------------------------
(***************************************************************************)
(* PlayerScheduler.cpp: one worker thread (ExecuteAsyncTask) serves a queue *)
(* of tasks that any thread may fill; a controlling thread suspends,        *)
(* resumes, empties and stops it.                                           *)
(*                                                                         *)
(* Two mutexes are involved.  mQMutex protects the queue; every region of   *)
(* the code that holds it is one action here.  mExMutex is held across such *)
(* regions (the worker runs a task under it, SuspendScheduler keeps it until*)
(* ResumeScheduler), so it is explicit, and so is mExLock, the single       *)
(* std::unique_lock through which every client takes and releases it.       *)
(* The code reads mSchedulerRunning and mLockOut outside mQMutex in two     *)
(* places; those reads are actions of their own.                            *)
(***************************************************************************)
EXTENDS Integers, Sequences, FiniteSets

CONSTANTS
  Clients,      \* threads that call the public operations
  Controllers,  \* those that also start, suspend, resume, empty and stop it
  MaxId,        \* PLAYER_SCHEDULER_ID_MAX_VALUE
  MaxTasks      \* bound: tasks accepted in one behaviour

ASSUME ClientsAssumption == Controllers \subseteq Clients
ASSUME BoundsAssumption  == MaxId \in Nat /\ MaxId > 1 /\ MaxTasks \in Nat

VARIABLES
  mTaskQueue,         \* queued tasks, oldest first
  mSchedulerRunning,
  mLockOut,
  mNextTaskId,
  mCurrentTaskId,     \* id of the last task started; never reset by the code
  mExMutex,           \* who holds it: "free", "worker" or "client"
  mExLock,            \* mExLock.owns_lock()
  worker,             \* where ExecuteAsyncTask is
  running,            \* number of the task being executed, 0 if none
  pc,                 \* where each client is
  stopping,           \* the client is inside StopScheduler
  suspendedBy,        \* the clients that suspended it and have to resume it
  accepted,           \* history: how many tasks ScheduleTask took
  started,            \* history: the tasks whose function was called
  removed,            \* history: the tasks taken out before they started
  drained             \* history: emptied while suspended, with nobody between
                      \* lines 210 and 212, and not let go since

queueVars   == <<mTaskQueue, mNextTaskId, accepted>>
workerVars  == <<worker, running, mCurrentTaskId, started>>
lockVars    == <<mExMutex, mExLock>>
callVars    == <<stopping, suspendedBy>>
clientVars  == <<pc, callVars>>
vars == <<queueVars, workerVars, lockVars, clientVars,
          mSchedulerRunning, mLockOut, removed, drained>>

INVALID == 0    \* PLAYER_TASK_ID_INVALID
DEFAULT == 1    \* PLAYER_SCHEDULER_ID_DEFAULT

WorkerPcs == {"none", "begin", "waiting", "woken", "wantEx", "holdsEx",
              "running", "exited"}
ClientPcs == {"idle", "schedule", "exLock", "setLockOut", "stopTest",
              "removeAll", "exUnlock", "clearLockOut", "notify", "join",
              "threw"}

\* A task is known by its place in the order of acceptance; id is its mId.
Tasks == [num : Nat \ {0}, id : DEFAULT..(MaxId - 1)]

FlagsOK ==
  /\ mSchedulerRunning \in BOOLEAN
  /\ mLockOut \in BOOLEAN
  /\ mExLock \in BOOLEAN
  /\ stopping \in [Clients -> BOOLEAN]
  /\ drained \in BOOLEAN

DataOK ==
  /\ mTaskQueue \in Seq(Tasks)
  /\ mNextTaskId \in DEFAULT..(MaxId - 1)
  /\ mCurrentTaskId \in INVALID..(MaxId - 1)
  /\ mExMutex \in {"free", "worker", "client"}
  /\ worker \in WorkerPcs
  /\ running \in Nat
  /\ pc \in [Clients -> ClientPcs]
  /\ suspendedBy \subseteq Clients
  /\ accepted \in Nat
  /\ started \subseteq Nat
  /\ removed \subseteq Nat

\* Every variable has its type; in particular every id ScheduleTask returns
\* lies within DEFAULT..MaxId-1, also after mNextTaskId wrapped.
TypeOK == FlagsOK /\ DataOK

\* Constructor, lines 31-36: no thread yet, mExLock deferred.
Init ==
  /\ mTaskQueue = <<>>
  /\ mSchedulerRunning = FALSE
  /\ mLockOut = FALSE
  /\ mNextTaskId = DEFAULT
  /\ mCurrentTaskId = INVALID
  /\ mExMutex = "free"
  /\ mExLock = FALSE
  /\ worker = "none"
  /\ running = 0
  /\ pc = [c \in Clients |-> "idle"]
  /\ stopping = [c \in Clients |-> FALSE]
  /\ suspendedBy = {}
  /\ accepted = 0
  /\ started = {}
  /\ removed = {}
  /\ drained = FALSE

Queued == {mTaskQueue[i].num : i \in 1..Len(mTaskQueue)}

Goto(c, from, to) == pc[c] = from /\ pc' = [pc EXCEPT ![c] = to]

\* mQCond.notify_one(): the worker is the only thread that ever waits.
Notify == worker' = IF worker = "waiting" THEN "woken" ELSE worker

-----------------------------------------------------------------------------
(* The worker thread.                                                      *)

\* The head of the while loop, entered with mQMutex held.
LoopTop ==
  worker' = CASE ~mSchedulerRunning                        -> "exited"
              [] mSchedulerRunning /\ mTaskQueue = <<>>    -> "waiting"
              [] OTHER                                     -> "wantEx"

\* The thread begins, or returns from mQCond.wait (a notification, or a
\* spurious wake-up), and tests the loop condition.
WorkerEnterLoop ==
  /\ worker \in {"begin", "woken"}
  /\ LoopTop
  /\ UNCHANGED <<queueVars, running, mCurrentTaskId, started, lockVars,
                 clientVars, mSchedulerRunning, mLockOut, removed, drained>>

WorkerSpuriousWake ==
  /\ worker = "waiting"
  /\ worker' = "woken"
  /\ UNCHANGED <<queueVars, running, mCurrentTaskId, started, lockVars,
                 clientVars, mSchedulerRunning, mLockOut, removed, drained>>

\* Line 122: queueLock is released, then mExMutex is taken.
WorkerLockEx ==
  /\ worker = "wantEx"
  /\ mExMutex = "free"
  /\ mExMutex' = "worker"
  /\ worker' = "holdsEx"
  /\ UNCHANGED <<queueVars, running, mCurrentTaskId, started, mExLock,
                 clientVars, mSchedulerRunning, mLockOut, removed, drained>>

\* Faulty variant: the task is run from the front of the queue and only
\* leaves it with the next one.
WorkerTakeTask_NoPop ==
  /\ worker = "holdsEx"
  /\ mTaskQueue # <<>>
  /\ running' = Head(mTaskQueue).num
  /\ mCurrentTaskId' = Head(mTaskQueue).id
  /\ started' = started \union {running'}
  /\ worker' = "running"
  /\ UNCHANGED <<queueVars, lockVars, clientVars, mSchedulerRunning, mLockOut,
                 removed, drained>>

\* Faulty variant: newest first.
WorkerTakeTask_Lifo ==
  /\ worker = "holdsEx"
  /\ mTaskQueue # <<>>
  /\ LET last == Len(mTaskQueue) IN
     /\ running' = mTaskQueue[last].num
     /\ mCurrentTaskId' = mTaskQueue[last].id
     /\ mTaskQueue' = SubSeq(mTaskQueue, 1, last - 1)
  /\ started' = started \union {running'}
  /\ worker' = "running"
  /\ UNCHANGED <<mNextTaskId, accepted, lockVars, clientVars,
                 mSchedulerRunning, mLockOut, removed, drained>>

\* Lines 126-139: both locks held, the front task is taken and mQMutex is
\* released.  ScheduleTask gives every task a valid id, so the branch for an
\* invalid one (lines 143-146) is dead code.
WorkerTakeTask ==
  /\ worker = "holdsEx"
  /\ mTaskQueue # <<>>
  /\ running' = Head(mTaskQueue).num
  /\ mCurrentTaskId' = Head(mTaskQueue).id
  /\ mTaskQueue' = Tail(mTaskQueue)
  /\ started' = started \union {running'}
  /\ worker' = "running"
  /\ UNCHANGED <<mNextTaskId, accepted, lockVars, clientVars,
                 mSchedulerRunning, mLockOut, removed, drained>>

\* Line 126 fails: the queue was emptied while the worker waited for mExMutex.
WorkerFindsNothing ==
  /\ worker = "holdsEx"
  /\ mTaskQueue = <<>>
  /\ mExMutex' = "free"
  /\ LoopTop
  /\ UNCHANGED <<queueVars, running, mCurrentTaskId, started, mExLock,
                 clientVars, mSchedulerRunning, mLockOut, removed, drained>>

\* Lines 139-141: the task returns, mQMutex is taken again, executionLock goes
\* out of scope and the loop condition is tested.
WorkerFinishTask ==
  /\ worker = "running"
  /\ running' = 0
  /\ mExMutex' = "free"
  /\ LoopTop
  /\ UNCHANGED <<queueVars, mCurrentTaskId, started, mExLock, clientVars,
                 mSchedulerRunning, mLockOut, removed, drained>>

-----------------------------------------------------------------------------
(* Operations any client may call.                                         *)

\* ScheduleTask, line 74: mSchedulerRunning is read without mQMutex.  When it
\* is FALSE the call returns PLAYER_TASK_ID_INVALID and changes nothing.
ScheduleTest(c) ==
  /\ accepted + Cardinality({d \in Clients : pc[d] = "schedule"}) < MaxTasks
  /\ mSchedulerRunning
  /\ Goto(c, "idle", "schedule")
  /\ UNCHANGED <<queueVars, workerVars, lockVars, callVars, mSchedulerRunning,
                 mLockOut, removed, drained>>

\* Faulty variants: nobody is notified; the lock-out is not looked at; the
\* id wraps to PLAYER_TASK_ID_INVALID; the task is put before the others.
SchedulePush_NoNotify(c) ==
  /\ Goto(c, "schedule", "idle")
  /\ ~mLockOut
  /\ mTaskQueue' = Append(mTaskQueue, [num |-> accepted + 1, id |-> mNextTaskId])
  /\ accepted' = accepted + 1
  /\ mNextTaskId' = IF mNextTaskId + 1 >= MaxId THEN DEFAULT ELSE mNextTaskId + 1
  /\ UNCHANGED <<workerVars, lockVars, callVars, mSchedulerRunning, mLockOut,
                 removed, drained>>

SchedulePush_IgnoresLockOut(c) ==
  /\ Goto(c, "schedule", "idle")
  /\ mTaskQueue' = Append(mTaskQueue, [num |-> accepted + 1, id |-> mNextTaskId])
  /\ accepted' = accepted + 1
  /\ mNextTaskId' = IF mNextTaskId + 1 >= MaxId THEN DEFAULT ELSE mNextTaskId + 1
  /\ Notify
  /\ UNCHANGED <<running, mCurrentTaskId, started, lockVars, callVars,
                 mSchedulerRunning, mLockOut, removed, drained>>

SchedulePush_WrapsLate(c) ==
  /\ Goto(c, "schedule", "idle")
  /\ ~mLockOut
  /\ mTaskQueue' = Append(mTaskQueue, [num |-> accepted + 1, id |-> mNextTaskId])
  /\ accepted' = accepted + 1
  /\ mNextTaskId' = IF mNextTaskId >= MaxId THEN DEFAULT ELSE mNextTaskId + 1
  /\ Notify
  /\ UNCHANGED <<running, mCurrentTaskId, started, lockVars, callVars,
                 mSchedulerRunning, mLockOut, removed, drained>>

\* Lines 76-85: the task is queued under the next id and the worker notified.
SchedulePush(c) ==
  /\ Goto(c, "schedule", "idle")
  /\ ~mLockOut
  /\ mTaskQueue' = Append(mTaskQueue, [num |-> accepted + 1, id |-> mNextTaskId])
  /\ accepted' = accepted + 1
  /\ mNextTaskId' = IF mNextTaskId + 1 >= MaxId THEN DEFAULT ELSE mNextTaskId + 1
  /\ Notify
  /\ UNCHANGED <<running, mCurrentTaskId, started, lockVars, callVars,
                 mSchedulerRunning, mLockOut, removed, drained>>

\* Lines 87-91: locked out, the operation is skipped.
ScheduleSkip(c) ==
  /\ Goto(c, "schedule", "idle")
  /\ mLockOut
  /\ UNCHANGED <<queueVars, workerVars, lockVars, callVars, mSchedulerRunning,
                 mLockOut, removed, drained>>

\* RemoveTask succeeds (lines 223-232): the first queued task with this id,
\* which is not the id of the task started last.  Otherwise it returns false
\* and changes nothing.
RemoveTask(c, id) ==
  /\ pc[c] = "idle"
  /\ mCurrentTaskId # id
  /\ \E i \in 1..Len(mTaskQueue) :
       /\ mTaskQueue[i].id = id
       /\ \A j \in 1..(i - 1) : mTaskQueue[j].id # id
       /\ mTaskQueue' = SubSeq(mTaskQueue, 1, i - 1)
                          \o SubSeq(mTaskQueue, i + 1, Len(mTaskQueue))
       /\ removed' = removed \union {mTaskQueue[i].num}
  /\ UNCHANGED <<mNextTaskId, accepted, workerVars, lockVars, clientVars,
                 mSchedulerRunning, mLockOut, drained>>

-----------------------------------------------------------------------------
(* Operations of a controller.                                             *)

NobodyStops == \A c \in Clients : ~stopping[c]

\* StartScheduler: one region of mQMutex, so the new thread cannot look at
\* mSchedulerRunning before it is set.
StartScheduler(c) ==
  /\ pc[c] = "idle" /\ NobodyStops
  /\ worker = "none"
  /\ worker' = "begin"
  /\ mSchedulerRunning' = TRUE
  /\ UNCHANGED <<queueVars, running, mCurrentTaskId, started, lockVars,
                 clientVars, mLockOut, removed, drained>>

\* SuspendScheduler is called only when the caller sees it not suspended.
SuspendScheduler(c) ==
  /\ ~mExLock
  /\ Goto(c, "idle", "exLock")
  /\ UNCHANGED <<queueVars, workerVars, lockVars, callVars, mSchedulerRunning,
                 mLockOut, removed, drained>>

\* Faulty variant: SuspendScheduler does not wait for the task that is being
\* executed.
ExLock_NoWait(c) ==
  /\ ~mExLock
  /\ Goto(c, "exLock", "setLockOut")
  /\ mExMutex' = "client"
  /\ mExLock' = TRUE
  /\ UNCHANGED <<queueVars, workerVars, callVars, mSchedulerRunning, mLockOut,
                 removed, drained>>

\* Line 200, mExLock.lock().  It throws if mExLock owns the mutex already.
ExLock(c) ==
  /\ mExMutex = "free" /\ ~mExLock
  /\ Goto(c, "exLock", "setLockOut")
  /\ mExMutex' = "client"
  /\ mExLock' = TRUE
  /\ UNCHANGED <<queueVars, workerVars, callVars, mSchedulerRunning, mLockOut,
                 removed, drained>>

ExLockThrows(c) ==
  /\ mExLock
  /\ Goto(c, "exLock", "threw")
  /\ UNCHANGED <<queueVars, workerVars, lockVars, callVars, mSchedulerRunning,
                 mLockOut, removed, drained>>

\* Lines 201-202.  StopScheduler goes on to RemoveAllTasks.
SetLockOut(c) ==
  /\ Goto(c, "setLockOut", IF stopping[c] THEN "removeAll" ELSE "idle")
  /\ mLockOut' = TRUE
  /\ suspendedBy' = IF stopping[c] THEN suspendedBy ELSE suspendedBy \union {c}
  /\ UNCHANGED <<queueVars, workerVars, lockVars, stopping, mSchedulerRunning,
                 removed, drained>>

EmptyQueue ==
  /\ mTaskQueue' = <<>>
  /\ removed' = removed \union Queued
  /\ drained' = \/ drained
                \/ /\ mLockOut /\ mExMutex = "client"
                   /\ \A c \in Clients : pc[c] # "clearLockOut"

\* RemoveAllTasks, called on its own or by StopScheduler (line 186).
RemoveAllTasks(c) ==
  /\ \/ pc[c] = "idle" /\ UNCHANGED pc
     \/ Goto(c, "removeAll", "exUnlock")
  /\ EmptyQueue
  /\ UNCHANGED <<mNextTaskId, accepted, workerVars, lockVars, callVars,
                 mSchedulerRunning, mLockOut>>

\* ResumeScheduler is called by a client that suspended the scheduler, or by
\* StopScheduler (line 189) on whoever's behalf.
Resumes(c, to) ==
  /\ \/ pc[c] = "exUnlock"
     \/ pc[c] = "idle" /\ c \in suspendedBy
  /\ pc' = [pc EXCEPT ![c] = to]

\* Line 210, mExLock.unlock().
ExUnlock(c) ==
  /\ mExLock
  /\ Resumes(c, "clearLockOut")
  /\ mExMutex' = "free"
  /\ mExLock' = FALSE
  /\ drained' = FALSE
  /\ suspendedBy' = suspendedBy \ {c}
  /\ UNCHANGED <<queueVars, workerVars, stopping, mSchedulerRunning, mLockOut,
                 removed>>

\* It throws if mExLock does not own the mutex.
ExUnlockThrows(c) ==
  /\ ~mExLock
  /\ Resumes(c, "threw")
  /\ UNCHANGED <<queueVars, workerVars, lockVars, callVars, mSchedulerRunning,
                 mLockOut, removed, drained>>

\* Lines 211-212.
ClearLockOut(c) ==
  /\ Goto(c, "clearLockOut", IF stopping[c] THEN "notify" ELSE "idle")
  /\ mLockOut' = FALSE
  /\ UNCHANGED <<queueVars, workerVars, lockVars, callVars, mSchedulerRunning,
                 removed, drained>>

\* EnableScheduleTask.  A caller that has suspended the scheduler must resume
\* it instead: with mLockOut cleared under it StopScheduler would take mExLock
\* twice.
EnableScheduleTask(c) ==
  /\ pc[c] = "idle"
  /\ ~mExLock
  /\ mLockOut' = FALSE
  /\ UNCHANGED <<queueVars, workerVars, lockVars, clientVars,
                 mSchedulerRunning, removed, drained>>

\* StopScheduler, line 177, and the unprotected test of mLockOut, line 181.
StopScheduler(c) ==
  /\ NobodyStops
  /\ worker # "none"
  /\ Goto(c, "idle", "stopTest")
  /\ stopping' = [stopping EXCEPT ![c] = TRUE]
  /\ UNCHANGED suspendedBy
  /\ mSchedulerRunning' = FALSE
  /\ UNCHANGED <<queueVars, workerVars, lockVars, mLockOut, removed, drained>>

StopTest(c) ==
  /\ Goto(c, "stopTest", IF mLockOut THEN "removeAll" ELSE "exLock")
  /\ UNCHANGED <<queueVars, workerVars, lockVars, callVars, mSchedulerRunning,
                 mLockOut, removed, drained>>

\* Faulty variant: the worker is left waiting on mQCond.
StopNotify_Forgotten(c) ==
  /\ Goto(c, "notify", "join")
  /\ UNCHANGED <<queueVars, workerVars, lockVars, callVars,
                 mSchedulerRunning, mLockOut, removed, drained>>

StopNotify(c) ==
  /\ Goto(c, "notify", "join")
  /\ Notify
  /\ UNCHANGED <<queueVars, running, mCurrentTaskId, started, lockVars,
                 callVars, mSchedulerRunning, mLockOut, removed, drained>>

\* Lines 191-192: the thread is joined.
StopJoin(c) ==
  /\ worker = "exited"
  /\ worker' = "none"
  /\ Goto(c, "join", "idle")
  /\ stopping' = [stopping EXCEPT ![c] = FALSE]
  /\ UNCHANGED suspendedBy
  /\ UNCHANGED <<queueVars, running, mCurrentTaskId, started, lockVars,
                 mSchedulerRunning, mLockOut, removed, drained>>

-----------------------------------------------------------------------------
Worker ==
  \/ WorkerEnterLoop \/ WorkerLockEx \/ WorkerTakeTask
  \/ WorkerFindsNothing \/ WorkerFinishTask

\* The steps by which a call under way goes on, as opposed to a new call.
Continue(c) ==
  \/ SchedulePush(c) \/ ScheduleSkip(c)
  \/ ExLock(c) \/ ExLockThrows(c) \/ SetLockOut(c)
  \/ (pc[c] # "idle" /\ (RemoveAllTasks(c) \/ ExUnlock(c) \/ ExUnlockThrows(c)))
  \/ ClearLockOut(c)
  \/ StopTest(c) \/ StopNotify(c) \/ StopJoin(c)

Call(c) ==
  \/ ScheduleTest(c)
  \/ \E id \in DEFAULT..(MaxId - 1) : RemoveTask(c, id)

Control(c) ==
  \/ StartScheduler(c) \/ SuspendScheduler(c) \/ EnableScheduleTask(c)
  \/ (pc[c] = "idle" /\ (RemoveAllTasks(c) \/ ExUnlock(c) \/ ExUnlockThrows(c)))
  \/ StopScheduler(c)

Next ==
  \/ Worker
  \/ WorkerSpuriousWake
  \/ \E c \in Clients : Continue(c) \/ Call(c)
  \/ \E c \in Controllers : Control(c)

\* The operating system runs every thread that can run, and a task, once
\* started, returns.  Nothing is assumed of spurious wake-ups or of new calls.
Fairness == WF_vars(Worker) /\ \A c \in Clients : WF_vars(Continue(c))

Spec == Init /\ [][Next]_vars
FairSpec == Spec /\ Fairness

-----------------------------------------------------------------------------
(* Properties.                                                             *)

\* Every task ScheduleTask accepted is queued, or was started, or was taken
\* out by RemoveTask or RemoveAllTasks: never two of these, never none.  So a
\* task is not lost, not run twice, and not run after RemoveTask returned true.
ExactlyOnce ==
  /\ Queued \union started \union removed = 1..accepted
  /\ Queued \intersect (started \union removed) = {}
  /\ started \intersect removed = {}

\* From the moment RemoveAllTasks empties a suspended scheduler, while nobody
\* is about to clear mLockOut (line 211), until ResumeScheduler no task is
\* executed and none is queued, although clients go on calling ScheduleTask
\* and the worker may have been about to take a task (the comment in
\* ExecuteAsyncTask, lines 116-120).
DrainedIsQuiet == drained => mTaskQueue = <<>> /\ running = 0

\* The scheduler implements AsyncExecutor: tasks start in the order of
\* acceptance, one at a time, never between SuspendScheduler and
\* ResumeScheduler, whatever is removed in between.
Abstract == INSTANCE AsyncExecutor WITH
  pending <- [i \in 1..Len(mTaskQueue) |-> mTaskQueue[i].num],
  active  <- running,
  taken   <- accepted,
  open    <- ~mLockOut,
  frozen  <- mExLock

RunsTasksInOrder == Abstract!Spec

\* StopScheduler returns, or throws if another controller took the lock away:
\* the worker is neither asleep on mQCond nor blocked on mExMutex when it is
\* joined, unless another controller suspends the scheduler meanwhile.
StopReturns ==
  \A c \in Controllers :
    (pc[c] = "stopTest") ~> (pc[c] \in {"idle", "threw"} \/ suspendedBy \ {c} # {})

\* If the scheduler is at last left running and not suspended, every queued
\* task leaves the queue: no notification is lost.
QueueServed ==
  <>[](mSchedulerRunning /\ ~mExLock)
    => \A n \in 1..MaxTasks : (n \in Queued) ~> (n \notin Queued)

\* With one controller mExLock is never locked while it owns the mutex nor
\* unlocked while it does not (std::unique_lock throws in both cases), whether
\* StopScheduler is called on a suspended scheduler or not.
NoLockMisuse == \A c \in Clients : pc[c] # "threw"
=============================================================================
