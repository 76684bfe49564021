--------------------------- MODULE EosNotification ---------------------------
(***************************************************************************)
(* InterfacePlayerRDK.cpp: how the end of the stream reaches the            *)
(* application.  NotifyEOS runs on the GLib thread (bus_message, the PTS    *)
(* check timer) and on the thread that injects fragments                    *)
(* (EndOfStreamReached); the callback is a task of the scheduler; Flush and *)
(* Stop remove that task.  Two atomic flags and a plain task id are shared  *)
(* without a mutex, so every access to one of them is a step.               *)
(*                                                                         *)
(* The scheduler is that of AsyncExecutor: between the constructor of the   *)
(* player (line 81) and its destructor (line 92) it runs and is never       *)
(* suspended, so ScheduleTask is not refused and the branch of NotifyEOS    *)
(* for a refused task (lines 4871-4876) is not taken.                       *)
(***************************************************************************)
EXTENDS Integers, Sequences, FiniteSets

CONSTANTS
  Notifiers,   \* threads that call NotifyEOS
  MaxTasks     \* bound: tasks scheduled in one behaviour

ASSUME BoundAssumption == MaxTasks \in Nat

VARIABLES
  eosSignalled,
  eosCallbackIdleTaskPending,
  eosCallbackIdleTaskId,
  queue,       \* ids of the tasks queued in mScheduler, oldest first
  worker,      \* IdleCallbackOnEOS: "none", "event", "clearId", "clearPending"
  pc,          \* where each NotifyEOS is
  tid,         \* the id ScheduleTask returned to it
  app,         \* where Flush or Stop of the application is
  busEnabled,  \* aSyncControl is enabled: there is a pipeline
  scheduled,   \* history: how many tasks were scheduled
  signals      \* history: how often eosSignalled was set since its last reset

flagVars  == <<eosSignalled, eosCallbackIdleTaskPending, eosCallbackIdleTaskId>>
notifyVars == <<pc, tid, scheduled>>
eosVars == <<flagVars, queue, worker, notifyVars, app, busEnabled, signals>>

INVALID == 0    \* PLAYER_TASK_ID_INVALID

WorkerPcs == {"none", "event", "clearId", "clearPending"}
NotifyPcs == {"out", "testPending", "setPending", "setSignalled", "schedule", "store"}
AppPcs == {"idle", "flushRemove", "flushId", "flushPending", "flushRest",
           "stopTest", "stopRemove", "stopPending", "stopId", "stopWait"}

EosTypeOK ==
  /\ eosSignalled \in BOOLEAN
  /\ eosCallbackIdleTaskPending \in BOOLEAN
  /\ eosCallbackIdleTaskId \in 0..scheduled
  /\ queue \in Seq(1..scheduled)
  /\ worker \in WorkerPcs
  /\ pc \in [Notifiers -> NotifyPcs]
  /\ tid \in [Notifiers -> 0..scheduled]
  /\ app \in AppPcs
  /\ busEnabled \in BOOLEAN
  /\ scheduled \in 0..MaxTasks
  /\ signals \in Nat

EosInit ==
  /\ eosSignalled = FALSE
  /\ eosCallbackIdleTaskPending = FALSE
  /\ eosCallbackIdleTaskId = INVALID
  /\ queue = <<>>
  /\ worker = "none"
  /\ pc = [n \in Notifiers |-> "out"]
  /\ tid = [n \in Notifiers |-> INVALID]
  /\ app = "idle"
  /\ busEnabled = FALSE
  /\ scheduled = 0
  /\ signals = 0

Goes(n, from, to) == pc[n] = from /\ pc' = [pc EXCEPT ![n] = to]
AppGoes(from, to) == app = from /\ app' = to

-----------------------------------------------------------------------------
(* NotifyEOS, lines 4859-4883.  The two flags are read one after the other, *)
(* set one after the other, and the id is stored last.                      *)

\* Faulty variant: an end of stream already signalled does not stop it.
TestSignalled_Ignored(n) ==
  /\ busEnabled
  /\ Goes(n, "out", "testPending")
  /\ UNCHANGED <<flagVars, queue, worker, tid, scheduled, app, busEnabled, signals>>

\* Line 4859; when it is signalled already the call is skipped.
TestSignalled(n) ==
  /\ busEnabled
  /\ ~eosSignalled
  /\ Goes(n, "out", "testPending")
  /\ UNCHANGED <<flagVars, queue, worker, tid, scheduled, app, busEnabled, signals>>

\* Line 4861; a callback registered previously makes the call skip.
TestPending(n) ==
  /\ Goes(n, "testPending", IF eosCallbackIdleTaskPending THEN "out" ELSE "setPending")
  /\ UNCHANGED <<flagVars, queue, worker, tid, scheduled, app, busEnabled, signals>>

SetPending(n) ==
  /\ Goes(n, "setPending", "setSignalled")
  /\ eosCallbackIdleTaskPending' = TRUE
  /\ UNCHANGED <<eosSignalled, eosCallbackIdleTaskId, queue, worker, tid, scheduled,
                 app, busEnabled, signals>>

SetSignalled(n) ==
  /\ Goes(n, "setSignalled", "schedule")
  /\ eosSignalled' = TRUE
  /\ signals' = signals + 1
  /\ UNCHANGED <<eosCallbackIdleTaskPending, eosCallbackIdleTaskId, queue, worker, tid,
                 scheduled, app, busEnabled>>

Schedule(n) ==
  /\ scheduled < MaxTasks
  /\ Goes(n, "schedule", "store")
  /\ scheduled' = scheduled + 1
  /\ queue' = Append(queue, scheduled')
  /\ tid' = [tid EXCEPT ![n] = scheduled']
  /\ UNCHANGED <<flagVars, worker, app, busEnabled, signals>>

\* Faulty variants: the flag is set when the id is known, as NotifyFirstFrame
\* does for its own task; the id stored is the next one.
StoreId_SetsPending(n) ==
  /\ Goes(n, "store", "out")
  /\ eosCallbackIdleTaskId' = tid[n]
  /\ eosCallbackIdleTaskPending' = TRUE
  /\ UNCHANGED <<eosSignalled, queue, worker, tid, scheduled, app, busEnabled,
                 signals>>

StoreId(n) ==
  /\ Goes(n, "store", "out")
  /\ eosCallbackIdleTaskId' = tid[n]
  /\ UNCHANGED <<eosSignalled, eosCallbackIdleTaskPending, queue, worker, tid, scheduled,
                 app, busEnabled, signals>>

-----------------------------------------------------------------------------
(* IdleCallbackOnEOS, on the scheduler's thread: the event, then the two    *)
(* fields are cleared.                                                      *)

TakeTask ==
  /\ worker = "none" /\ queue # <<>>
  /\ worker' = "event"
  /\ queue' = Tail(queue)
  /\ UNCHANGED <<flagVars, notifyVars, app, busEnabled, signals>>

TriggerEvent ==
  /\ worker = "event" /\ worker' = "clearId"
  /\ UNCHANGED <<flagVars, queue, notifyVars, app, busEnabled, signals>>

CallbackClearsId ==
  /\ worker = "clearId" /\ worker' = "clearPending"
  /\ eosCallbackIdleTaskId' = INVALID
  /\ UNCHANGED <<eosSignalled, eosCallbackIdleTaskPending, queue, notifyVars, app,
                 busEnabled, signals>>

CallbackClearsPending ==
  /\ worker = "clearPending" /\ worker' = "none"
  /\ eosCallbackIdleTaskPending' = FALSE
  /\ UNCHANGED <<eosSignalled, eosCallbackIdleTaskId, queue, notifyVars, app,
                 busEnabled, signals>>

-----------------------------------------------------------------------------
(* The application's thread.                                               *)

\* RemoveTask takes the task with the stored id out of the queue, if there.
RemoveEosTask ==
  \/ \E i \in 1..Len(queue) :
       /\ queue[i] = eosCallbackIdleTaskId
       /\ queue' = SubSeq(queue, 1, i - 1) \o SubSeq(queue, i + 1, Len(queue))
  \/ /\ \A i \in 1..Len(queue) : queue[i] # eosCallbackIdleTaskId
     /\ UNCHANGED queue

\* Flush, lines 1540-1547.
FlushBegin ==
  /\ busEnabled
  /\ AppGoes("idle", IF eosCallbackIdleTaskPending THEN "flushRemove" ELSE "flushRest")
  /\ UNCHANGED <<flagVars, queue, worker, notifyVars, busEnabled, signals>>

FlushRemoves ==
  /\ AppGoes("flushRemove", "flushId")
  /\ RemoveEosTask
  /\ UNCHANGED <<flagVars, worker, notifyVars, busEnabled, signals>>

FlushClearsId ==
  /\ AppGoes("flushId", "flushPending")
  /\ eosCallbackIdleTaskId' = INVALID
  /\ UNCHANGED <<eosSignalled, eosCallbackIdleTaskPending, queue, worker, notifyVars,
                 busEnabled, signals>>

FlushClearsPending ==
  /\ AppGoes("flushPending", "flushRest")
  /\ eosCallbackIdleTaskPending' = FALSE
  /\ UNCHANGED <<eosSignalled, eosCallbackIdleTaskId, queue, worker, notifyVars,
                 busEnabled, signals>>

\* Line 1665.  The returns of lines 1569, 1598 and 1616 leave the flag alone.
FlushEnds ==
  /\ AppGoes("flushRest", "idle")
  /\ \/ eosSignalled' = FALSE /\ signals' = 0
     \/ UNCHANGED <<eosSignalled, signals>>
  /\ UNCHANGED <<eosCallbackIdleTaskPending, eosCallbackIdleTaskId, queue, worker,
                 notifyVars, busEnabled>>

\* ResetEOSSignalledFlag and ConfigurePipeline (line 491).
ResetEOSSignalled ==
  /\ app = "idle"
  /\ eosSignalled' = FALSE
  /\ signals' = 0
  /\ UNCHANGED <<eosCallbackIdleTaskPending, eosCallbackIdleTaskId, queue, worker,
                 notifyVars, app, busEnabled>>

\* CreatePipeline, line 3842.
CreatePipeline ==
  /\ app = "idle" /\ ~busEnabled
  /\ busEnabled' = TRUE
  /\ UNCHANGED <<flagVars, queue, worker, notifyVars, app, signals>>

\* Stop, lines 1368 and 1397-1403.
StopBegin ==
  /\ AppGoes("idle", "stopTest")
  /\ busEnabled
  /\ busEnabled' = FALSE
  /\ UNCHANGED <<flagVars, queue, worker, notifyVars, signals>>

StopTest ==
  /\ AppGoes("stopTest", IF eosCallbackIdleTaskPending THEN "stopRemove" ELSE "stopWait")
  /\ UNCHANGED <<flagVars, queue, worker, notifyVars, busEnabled, signals>>

StopRemoves ==
  /\ AppGoes("stopRemove", "stopPending")
  /\ RemoveEosTask
  /\ UNCHANGED <<flagVars, worker, notifyVars, busEnabled, signals>>

StopClearsPending ==
  /\ AppGoes("stopPending", "stopId")
  /\ eosCallbackIdleTaskPending' = FALSE
  /\ UNCHANGED <<eosSignalled, eosCallbackIdleTaskId, queue, worker, notifyVars,
                 busEnabled, signals>>

StopClearsId ==
  /\ AppGoes("stopId", "stopWait")
  /\ eosCallbackIdleTaskId' = INVALID
  /\ UNCHANGED <<eosSignalled, eosCallbackIdleTaskPending, queue, worker, notifyVars,
                 busEnabled, signals>>

\* Line 1420, aSyncControl.waitForDone: whether all handlers have left or
\* 50 ms have passed, Stop goes on.
StopWaits ==
  /\ AppGoes("stopWait", "idle")
  /\ UNCHANGED <<flagVars, queue, worker, notifyVars, busEnabled, signals>>

-----------------------------------------------------------------------------
NotifyEOS(n) ==
  \/ TestSignalled(n) \/ TestPending(n) \/ SetPending(n) \/ SetSignalled(n)
  \/ Schedule(n) \/ StoreId(n)

IdleCallbackOnEOS ==
  TakeTask \/ TriggerEvent \/ CallbackClearsId \/ CallbackClearsPending

Flush == FlushBegin \/ FlushRemoves \/ FlushClearsId \/ FlushClearsPending \/ FlushEnds

Stop ==
  \/ StopBegin \/ StopTest \/ StopRemoves \/ StopClearsPending \/ StopClearsId
  \/ StopWaits

EosNext ==
  \/ \E n \in Notifiers : NotifyEOS(n)
  \/ IdleCallbackOnEOS
  \/ Flush \/ Stop \/ ResetEOSSignalled \/ CreatePipeline

EosSpec == EosInit /\ [][EosNext]_eosVars

-----------------------------------------------------------------------------
\* No call is under way and no EOS callback is queued or running.
AtRest ==
  /\ \A n \in Notifiers : pc[n] = "out"
  /\ app = "idle" /\ worker = "none" /\ queue = <<>>

\* The pending flag is not left set when there is no callback that would clear
\* it (what lines 4863-4866 are about): otherwise the next end of stream would
\* be skipped as "already registered" and never reported.
PendingNotStuck == AtRest => ~eosCallbackIdleTaskPending

\* Between two resets of eosSignalled one call of NotifyEOS signals the end of
\* stream, the others skip ("EOS already signaled", "already registered
\* previously"), whatever Flush, Stop and the callback do to the pending flag.
EosOncePerReset == signals <= 1
=============================================================================
