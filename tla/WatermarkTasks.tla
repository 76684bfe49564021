---------------------------- MODULE WatermarkTasks ----------------------------
(***************************************************************************)
(* SecManagerThunder.cpp and ContentSecurityManager.cpp: the singleton is   *)
(* made by the first GetInstance and deleted by DestroyInstance, both under *)
(* InstanceMutex; while it lives, events of the SecManager service become   *)
(* tasks of its scheduler, whose worker calls the watermark plugin.         *)
(*                                                                         *)
(* The destructor holds mSecMutex to its end, and joins the worker.  That   *)
(* nobody else is inside a call on the instance it deletes is left to the   *)
(* callers ("there is still a race between using the pointer returned from  *)
(* GetInstance() and calling DestroyInstance()"); an event that arrives     *)
(* meanwhile is not theirs to prevent.  Plugin and service are external.    *)
(***************************************************************************)
EXTENDS Naturals, Sequences

CONSTANTS
  Graphics,      \* graphicId
  MaxEvents,     \* bound: events of the service
  MaxDestroys    \* bound: calls of DestroyInstance

ASSUME WatermarkAssumption == {MaxEvents, MaxDestroys} \subseteq Nat

VARIABLES
  instance,     \* none, live, or where its destructor is
  queue,        \* mTaskQueue
  worker,       \* the task it executes
  handler,      \* the tasks the event handler has still to schedule
  created,      \* at the plugin: the graphics it has
  visible,      \* at the plugin: showWatermark
  marks,        \* at the service: graphics added and not removed
  display,      \* history: what the tasks that were not dropped leave visible
  dropped,      \* history: a task was dropped, or scheduled for a new instance
  unknown,      \* history: graphics the plugin was told about and did not have
  events, destroys

wmVars == <<instance, queue, worker, handler, created, visible, marks, display,
            dropped, unknown, events, destroys>>

GraphicOps == {"create", "update", "palette", "clut", "modify", "delete"}
Tasks == [op : GraphicOps, g : Graphics] \union [op : {"show"}, g : BOOLEAN]

WatermarkTypeOK ==
  /\ instance \in {"none", "live", "hide", "stop", "join", "unregister"}
  /\ queue \in Seq(Tasks) /\ handler \in Seq(Tasks)
  /\ worker \in Seq(Tasks) /\ Len(worker) <= 1
  /\ created \subseteq Graphics /\ marks \subseteq Graphics /\ unknown \subseteq Graphics
  /\ visible \in BOOLEAN /\ display \in BOOLEAN /\ dropped \in BOOLEAN
  /\ events \in 0..MaxEvents /\ destroys \in 0..MaxDestroys

WMInit ==
  /\ instance = "none"
  /\ queue = <<>> /\ worker = <<>> /\ handler = <<>>
  /\ created = {} /\ marks = {} /\ unknown = {}
  /\ visible = FALSE
  /\ display = FALSE /\ dropped = FALSE
  /\ events = 0 /\ destroys = 0

Task(op, g) == [op |-> op, g |-> g]

-----------------------------------------------------------------------------
(* The instance.                                                           *)

\* The constructor: plugins activated, watermark hidden, scheduler started,
\* events registered.
Construct ==
  /\ instance = "none"
  /\ instance' = "live"
  /\ visible' = FALSE
  /\ display' = FALSE

GetInstance ==
  /\ Construct
  /\ UNCHANGED <<queue, worker, handler, created, marks, dropped, unknown, events, destroys>>

\* InstanceMutex and mSecMutex are locked, for as long as the destructor runs.
DestroyInstance ==
  /\ instance = "live" /\ destroys < MaxDestroys
  /\ instance' = "hide"
  /\ destroys' = destroys + 1
  /\ UNCHANGED <<queue, worker, handler, created, visible, marks, display, dropped,
                 unknown, events>>

Destructor(from, to) == instance = from /\ instance' = to

HideWatermark ==
  /\ Destructor("hide", "stop")
  /\ visible' = FALSE
  /\ UNCHANGED <<queue, worker, handler, created, marks, display, dropped, unknown,
                 events, destroys>>

\* StopScheduler removes the tasks that wait, and joins the worker.
StopScheduler ==
  /\ Destructor("stop", "join")
  /\ queue' = <<>>
  /\ dropped' = (dropped \/ queue # <<>>)
  /\ UNCHANGED <<worker, handler, created, visible, marks, display, unknown, events, destroys>>

JoinWorker ==
  /\ Destructor("join", "unregister")
  /\ worker = <<>>
  /\ UNCHANGED <<queue, worker, handler, created, visible, marks, display, dropped,
                 unknown, events, destroys>>

UnRegisterAllEvents ==
  /\ Destructor("unregister", "none")
  /\ UNCHANGED <<queue, worker, handler, created, visible, marks, display, dropped,
                 unknown, events, destroys>>

mSecMutexFree == instance \in {"none", "live"}

-----------------------------------------------------------------------------
(* Event handlers, one at a time.  The first task of addWatermarkHandler is  *)
(* scheduled on the object itself, the others on whatever GetInstance()      *)
(* returns by then.                                                         *)

\* getSchedulerStatus: true until StopScheduler has returned.
mSchedulerStarted == instance \in {"live", "hide", "stop", "join"}

Arrives ==
  /\ handler = <<>> /\ events < MaxEvents
  /\ events' = events + 1
  /\ UNCHANGED <<instance, worker, created, visible, unknown, destroys>>

\* Faulty variant: the image before the graphic.
addWatermarkHandler_Swapped(g, adjust) ==
  /\ Arrives
  /\ instance = "live" /\ g \notin marks
  /\ marks' = marks \union {g}
  /\ queue' = Append(queue, Task("update", g))
  /\ handler' = <<Task("create", g)>> \o (IF adjust THEN <<Task("palette", g)>> ELSE <<>>)
  /\ UNCHANGED <<display, dropped>>

addWatermarkHandler(g, adjust) ==
  /\ Arrives
  /\ instance = "live" /\ g \notin marks
  /\ marks' = marks \union {g}
  /\ queue' = Append(queue, Task("create", g))
  /\ handler' = <<Task("update", g)>> \o (IF adjust THEN <<Task("palette", g)>> ELSE <<>>)
  /\ UNCHANGED <<display, dropped>>

updateWatermarkHandler(g) ==
  /\ Arrives
  /\ mSchedulerStarted /\ g \in marks
  /\ handler' = <<Task("modify", g)>>
  /\ UNCHANGED <<queue, marks, display, dropped>>

removeWatermarkHandler(g) ==
  /\ Arrives
  /\ mSchedulerStarted /\ g \in marks
  /\ marks' = marks \ {g}
  /\ handler' = <<Task("delete", g)>>
  /\ UNCHANGED <<queue, display, dropped>>

showWatermarkHandler(show) ==
  /\ Arrives
  /\ mSchedulerStarted
  /\ handler' = <<Task("show", show)>>
  /\ UNCHANGED <<queue, marks, display, dropped>>

\* ContentSecurityManager::GetInstance()->ScheduleTask: waits for InstanceMutex
\* while the instance is being destroyed, and makes a new one if it was.
ScheduleNext ==
  /\ handler # <<>>
  /\ \/ instance = "live" /\ UNCHANGED <<instance, visible, dropped>>
     \/ Construct /\ dropped' = TRUE
  /\ queue' = Append(queue, Head(handler))
  /\ handler' = Tail(handler)
  /\ display' = IF Head(handler).op = "show" THEN Head(handler).g
                ELSE IF instance = "live" THEN display ELSE FALSE
  /\ UNCHANGED <<worker, created, marks, unknown, events, destroys>>

Event ==
  \/ \E g \in Graphics :
       \/ \E adjust \in BOOLEAN : addWatermarkHandler(g, adjust)
       \/ updateWatermarkHandler(g) \/ removeWatermarkHandler(g)
  \/ \E show \in BOOLEAN : showWatermarkHandler(show)

-----------------------------------------------------------------------------
(* The worker of the scheduler.                                             *)

\* Faulty variants: the newest task first; a second worker.
TakeTask_Newest ==
  /\ worker = <<>> /\ queue # <<>>
  /\ worker' = <<queue[Len(queue)]>>
  /\ queue' = SubSeq(queue, 1, Len(queue) - 1)
  /\ UNCHANGED <<instance, handler, created, visible, marks, display, dropped, unknown,
                 events, destroys>>

TakeTask ==
  /\ worker = <<>> /\ queue # <<>>
  /\ worker' = <<Head(queue)>>
  /\ queue' = Tail(queue)
  /\ UNCHANGED <<instance, handler, created, visible, marks, display, dropped, unknown,
                 events, destroys>>

Works(op) == worker # <<>> /\ worker[1].op = op

WorkerOnly == UNCHANGED <<instance, queue, handler, marks, display, dropped, events, destroys>>

CreateWatermark ==
  /\ Works("create")
  /\ worker' = <<>>
  /\ created' = created \union {worker[1].g}
  /\ UNCHANGED <<visible, unknown>> /\ WorkerOnly

\* The plugin is told about a graphic it ought to have.
ToldAbout(g) == unknown' = IF g \in created THEN unknown ELSE unknown \union {g}

UpdateWatermark ==
  /\ Works("update") \/ Works("modify")
  /\ worker' = <<>>
  /\ ToldAbout(worker[1].g)
  /\ UNCHANGED <<created, visible>> /\ WorkerOnly

DeleteWatermark ==
  /\ Works("delete")
  /\ worker' = <<>>
  /\ ToldAbout(worker[1].g)
  /\ created' = created \ {worker[1].g}
  /\ UNCHANGED visible /\ WorkerOnly

\* If the plugin answers, the service is to load the palette.
GetWaterMarkPalette ==
  /\ Works("palette")
  /\ \/ worker' = <<Task("clut", worker[1].g)>>
     \/ worker' = <<>>
  /\ ToldAbout(worker[1].g)
  /\ UNCHANGED <<created, visible>> /\ WorkerOnly

\* loadClutWatermark is a call to the service, under mSecMutex.
loadClutWatermark ==
  /\ Works("clut") /\ mSecMutexFree
  /\ worker' = <<>>
  /\ UNCHANGED <<created, visible, unknown>> /\ WorkerOnly

\* Faulty variant: the watermark is shown under mSecMutex.
ShowWatermark_SecMutex ==
  /\ Works("show") /\ mSecMutexFree
  /\ worker' = <<>>
  /\ visible' = worker[1].g
  /\ UNCHANGED <<created, unknown>> /\ WorkerOnly

ShowWatermark ==
  /\ Works("show")
  /\ worker' = <<>>
  /\ visible' = worker[1].g
  /\ UNCHANGED <<created, unknown>> /\ WorkerOnly

Worker ==
  \/ TakeTask \/ CreateWatermark \/ UpdateWatermark \/ DeleteWatermark
  \/ GetWaterMarkPalette \/ loadClutWatermark \/ ShowWatermark

Dtor == HideWatermark \/ StopScheduler \/ JoinWorker \/ UnRegisterAllEvents

WMNext == GetInstance \/ DestroyInstance \/ Dtor \/ Event \/ ScheduleNext \/ Worker

WMSpec == WMInit /\ [][WMNext]_wmVars

-----------------------------------------------------------------------------
\* The plugin is told only about graphics it was asked to create and has not
\* been asked to delete, and once every event has been worked off it has the
\* graphics of the service and shows or hides them as the last event said, as
\* long as the instance that scheduled the tasks lives.
PluginFollowsEvents ==
  ~dropped =>
    /\ unknown = {}
    /\ instance = "live" /\ queue \o worker \o handler = <<>>
         => created = marks /\ visible = display

\* DestroyInstance returns, unless the worker is by then on its way to
\* loadClutWatermark.
DestroyReturns == (instance = "hide") ~> (instance = "none" \/ Works("clut"))
=============================================================================
