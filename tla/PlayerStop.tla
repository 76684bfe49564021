------------------------------ MODULE PlayerStop ------------------------------
(***************************************************************************)
(* InterfacePlayerRDK.cpp: how Stop makes sure that no callback of the      *)
(* pipeline is at work when it takes the pipeline apart.  Three             *)
(* GstHandlerControls are involved: syncControl (bus_sync_handler),         *)
(* aSyncControl (bus_message) and callbackControl (the signals of elements).*)
(* waitForDone is what GstHandlerControl proves of it: it disables, and     *)
(* returns true only when none of the control's callbacks is counted.       *)
(***************************************************************************)
EXTENDS Integers

CONSTANTS
  SyncHandlers,    \* threads in bus_sync_handler
  BusHandlers,     \* threads in bus_message
  SignalHandlers   \* threads in a callback that SignalConnect connected

ASSUME KindsAssumption ==
  /\ SyncHandlers \intersect BusHandlers = {}
  /\ SignalHandlers \intersect (SyncHandlers \union BusHandlers) = {}

Callbacks == SyncHandlers \union BusHandlers \union SignalHandlers
Controls == {"syncControl", "aSyncControl", "callbackControl"}

VARIABLES
  enabled,    \* of each control
  attached,   \* callbacks of a kind can be called: watch set, signals connected
  callback,    \* where each callback is
  stop,       \* where Stop is
  timedOut    \* some waitForDone of this Stop reached its time limit

stopVars == <<enabled, attached, callback, stop, timedOut>>

StopPcs == {"none", "playing", "disableSync", "disableAsync", "removeWatch",
            "waitSync", "waitAsync", "disableCallbacks", "disconnect",
            "waitCallbacks", "teardown"}

StopTypeOK ==
  /\ enabled \in [Controls -> BOOLEAN]
  /\ attached \in [Controls -> BOOLEAN]
  /\ callback \in [Callbacks -> {"out", "called", "counted", "body"}]
  /\ stop \in StopPcs
  /\ timedOut \in BOOLEAN

\* The constructors: everything enabled, nothing attached.
StopInit ==
  /\ enabled = [c \in Controls |-> TRUE]
  /\ attached = [c \in Controls |-> FALSE]
  /\ callback = [h \in Callbacks |-> "out"]
  /\ stop = "none"
  /\ timedOut = FALSE

Control(h) ==
  CASE h \in SyncHandlers -> "syncControl"
    [] h \in BusHandlers  -> "aSyncControl"
    [] OTHER              -> "callbackControl"

-----------------------------------------------------------------------------
(* A callback.                                                             *)

CallbackGoes(h, from, to) ==
  /\ callback[h] = from
  /\ callback' = [callback EXCEPT ![h] = to]
  /\ UNCHANGED <<enabled, attached, stop, timedOut>>

\* GStreamer decides to call it.
Called(h) == attached[Control(h)] /\ CallbackGoes(h, "out", "called")

GetScopeHelper(h) == CallbackGoes(h, "called", "counted")

\* HANDLER_CONTROL_HELPER returns if the control is disabled;
\* HANDLER_CONTROL_HELPER_CALLBACK_VOID, which the signal callbacks use, only
\* counts.
EnterBody(h) ==
  CallbackGoes(h, "counted",
    IF h \notin SignalHandlers /\ ~enabled[Control(h)] THEN "out" ELSE "body")

LeaveBody(h) == CallbackGoes(h, "body", "out")

-----------------------------------------------------------------------------
(* Playback starts: CreatePipeline, lines 3842-3846, and SignalConnect.     *)

PipelineCreated ==
  /\ stop = "none"
  /\ stop' = "playing"
  /\ enabled' = [c \in Controls |-> TRUE]
  /\ attached' = [c \in Controls |-> TRUE]
  /\ timedOut' = FALSE
  /\ UNCHANGED callback

(* Stop, in the order of its calls.                                        *)

Sets(f, c, b) == f' = [f EXCEPT ![c] = b]
StopGoes(from, to) == stop = from /\ stop' = to

StopBegins ==
  /\ StopGoes("playing", "disableSync")
  /\ UNCHANGED <<enabled, attached, callback, timedOut>>

DisableSync ==
  /\ StopGoes("disableSync", "disableAsync")
  /\ Sets(enabled, "syncControl", FALSE)
  /\ UNCHANGED <<attached, callback, timedOut>>

DisableAsync ==
  /\ StopGoes("disableAsync", "removeWatch")
  /\ Sets(enabled, "aSyncControl", FALSE)
  /\ UNCHANGED <<attached, callback, timedOut>>

\* Lines 1371-1374.  The sync handler of the bus stays.
RemoveWatch ==
  /\ StopGoes("removeWatch", "waitSync")
  /\ Sets(attached, "aSyncControl", FALSE)
  /\ UNCHANGED <<enabled, callback, timedOut>>

\* waitForDone(ms) of one control.
WaitForDone(c) ==
  /\ Sets(enabled, c, FALSE)
  /\ \/ /\ \A h \in Callbacks : Control(h) = c => callback[h] \in {"out", "called"}
        /\ UNCHANGED timedOut
     \/ timedOut' = TRUE
  /\ UNCHANGED <<attached, callback>>

\* Faulty variant: nobody waits for bus_sync_handler.
WaitSync_Forgotten ==
  /\ StopGoes("waitSync", "waitAsync")
  /\ UNCHANGED <<enabled, attached, callback, timedOut>>

WaitSync  == StopGoes("waitSync", "waitAsync") /\ WaitForDone("syncControl")
WaitAsync == StopGoes("waitAsync", "disableCallbacks") /\ WaitForDone("aSyncControl")

DisableCallbacks ==
  /\ StopGoes("disableCallbacks", "disconnect")
  /\ Sets(enabled, "callbackControl", FALSE)
  /\ UNCHANGED <<attached, callback, timedOut>>

DisconnectSignals ==
  /\ StopGoes("disconnect", "waitCallbacks")
  /\ Sets(attached, "callbackControl", FALSE)
  /\ UNCHANGED <<enabled, callback, timedOut>>

\* Line 1423 waits on aSyncControl once more.
WaitCallbacks == StopGoes("waitCallbacks", "teardown") /\ WaitForDone("aSyncControl")

\* Pipeline to NULL, TearDownStream, DestroyPipeline; Stop returns.
TearDown ==
  /\ StopGoes("teardown", "none")
  /\ Sets(attached, "syncControl", FALSE)
  /\ UNCHANGED <<enabled, callback, timedOut>>

-----------------------------------------------------------------------------
Callback(h) == GetScopeHelper(h) \/ EnterBody(h) \/ LeaveBody(h)

StopSteps ==
  \/ DisableSync \/ DisableAsync \/ RemoveWatch \/ WaitSync \/ WaitAsync
  \/ DisableCallbacks \/ DisconnectSignals \/ WaitCallbacks \/ TearDown

StopNext ==
  \/ \E h \in Callbacks : Called(h) \/ Callback(h)
  \/ PipelineCreated \/ StopBegins \/ StopSteps

StopSpec == StopInit /\ [][StopNext]_stopVars

-----------------------------------------------------------------------------
InBody(kind) == \E h \in kind : callback[h] = "body"

\* The pipeline is taken apart with no bus handler at work, although they go on
\* being called: those called late see their control disabled (item 1 of the
\* comment in lines 1412-1418).
BusHandlersDone ==
  stop = "teardown" /\ ~timedOut => ~InBody(SyncHandlers) /\ ~InBody(BusHandlers)

\* The same of the signal handlers (item 3).
SignalHandlersDone ==
  stop = "teardown" /\ ~timedOut => ~InBody(SignalHandlers)
=============================================================================
