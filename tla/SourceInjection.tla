--------------------------- MODULE SourceInjection ---------------------------
(***************************************************************************)
(* InterfacePlayerRDK.cpp: threads that inject media (SendHelper) into the  *)
(* sources of the streams, while the controlling thread configures, flushes *)
(* and stops the pipeline (ConfigurePipeline, TearDownStream, Flush, Stop)  *)
(* and GStreamer hands over the sources (gst_found_source).                 *)
(*                                                                         *)
(* sourceLock[s] is the mutex of a stream.  mSourceSetupMutex is kept       *)
(* across steps by Stop only (setupHeld); WaitForSourceSetup and the two    *)
(* operations on the injector's pause hold it for one step.                 *)
(*                                                                         *)
(* Left out: what is in a buffer, the bytes that the sources queue, seek    *)
(* and segment events, and the flags firstBufferProcessed and bufferUnderrun*)
(***************************************************************************)
EXTENDS Naturals, FiniteSets

CONSTANTS
  Streams,      \* the GstMediaTypes in use
  Injectors,    \* threads that inject
  MaxWaits,     \* DEFAULT_TIMEOUT_FOR_SOURCE_SETUP in intervals of the wait
  Disciplines   \* each the set of operations that may meet a call of SendHelper

VIDEO == 0
AUDIO == 1
AUX_AUDIO == 3
CONTROL == "control"
NOBODY == "nobody"

ASSUME StreamsAssumption ==
  Streams \subseteq Nat /\ {AUDIO, AUX_AUDIO} \subseteq Streams
ASSUME InjectorsAssumption == CONTROL \notin Injectors /\ NOBODY \notin Injectors
ASSUME WaitsAssumption == MaxWaits \in Nat
ASSUME DisciplinesAssumption == Disciplines \subseteq SUBSET {"configure", "stop"}

VARIABLES
  format,            \* of each stream: is it another than GST_FORMAT_INVALID
  sinkbin,           \* exists
  connected,         \* deep-notify::source of the sinkbin
  source,            \* exists
  sourceConfigured,
  resetPosition,
  eventsSent,        \* history: the present source was sent its events
  sourceLock,        \* its owner
  setupHeld,
  mPauseInjector,
  forwardAudio,
  pc, stream, first, \* of each injector: its place, its stream, isFirstBuffer
  left, status,      \* of WaitForSourceSetup: intervals left, result
  auxPaused,         \* pauseInjecter of ForwardBuffersToAuxPipeline
  found,             \* history: it found its own source configured
  pausedCall,        \* history: called while paused, and not resumed since
  op, at,            \* what the controlling thread executes, and where it is
  resets, drop, todo,\* its streams to reset, to drop, to tear down or configure
  target,            \* newFormat of ConfigurePipeline
  during             \* the discipline of this behaviour

sourceVars == <<sinkbin, connected, source, sourceConfigured>>
positionVars == <<resetPosition, eventsSent>>
callVars == <<stream, first, left, status, auxPaused, found, pausedCall>>
injectorVars == <<pc, callVars>>
controlVars == <<op, at, resets, drop, todo, target>>
sharedVars == <<setupHeld, mPauseInjector, forwardAudio, during>>
vars == <<format, sourceVars, positionVars, sourceLock, injectorVars,
          controlVars, sharedVars>>

Waiting == {"wait", "auxWait"}
Holding == {"test", "wait", "decide", "events", "gate", "forward", "auxWait",
            "auxDecide", "auxPush", "push", "unlock"}
Flags == [Streams -> BOOLEAN]

TypeOK ==
  /\ format \in Flags /\ sinkbin \in Flags /\ connected \in Flags
  /\ source \in Flags /\ sourceConfigured \in Flags
  /\ resetPosition \in Flags /\ eventsSent \in Flags /\ target \in Flags
  /\ sourceLock \in [Streams -> Injectors \union {CONTROL, NOBODY}]
  /\ setupHeld \in BOOLEAN /\ mPauseInjector \in BOOLEAN /\ forwardAudio \in BOOLEAN
  /\ pc \in [Injectors -> {"idle", "lock"} \union Holding]
  /\ stream \in [Injectors -> Streams]
  /\ left \in [Injectors -> 0..MaxWaits]
  /\ first \in [Injectors -> BOOLEAN] /\ status \in [Injectors -> BOOLEAN]
  /\ auxPaused \in [Injectors -> BOOLEAN] /\ found \in [Injectors -> BOOLEAN]
  /\ pausedCall \in [Injectors -> BOOLEAN]
  /\ op \in {"none", "configure", "flush", "stop"}
  /\ at \in {"next", "clear", "unlock", "format", "setup"}
  /\ resets \subseteq Streams /\ drop \subseteq Streams /\ todo \subseteq Streams
  /\ during \in Disciplines

None == [s \in Streams |-> FALSE]

Init ==
  /\ format = None /\ sinkbin = None /\ connected = None
  /\ source = None /\ sourceConfigured = None /\ resetPosition = None
  /\ eventsSent = None /\ target = None
  /\ sourceLock = [s \in Streams |-> NOBODY]
  /\ setupHeld = FALSE /\ mPauseInjector = FALSE /\ forwardAudio = FALSE
  /\ pc = [i \in Injectors |-> "idle"]
  /\ stream = [i \in Injectors |-> AUDIO]
  /\ left = [i \in Injectors |-> 0]
  /\ first = [i \in Injectors |-> FALSE] /\ status = [i \in Injectors |-> FALSE]
  /\ auxPaused = [i \in Injectors |-> FALSE] /\ found = [i \in Injectors |-> FALSE]
  /\ pausedCall = [i \in Injectors |-> FALSE]
  /\ op = "none" /\ at = "next"
  /\ resets = {} /\ drop = {} /\ todo = {}
  /\ during \in Disciplines

-----------------------------------------------------------------------------
(* SendHelper.                                                             *)

At(i, here, there) == pc[i] = here /\ pc' = [pc EXCEPT ![i] = there]

\* The application injects into streams it has configured.  isFirstBuffer is
\* read before the lock is taken.
Call(i, s) ==
  /\ At(i, "idle", "lock")
  /\ format[s]
  /\ op \in {"none", "flush"} \union during
  /\ stream' = [stream EXCEPT ![i] = s]
  /\ first' = [first EXCEPT ![i] = resetPosition[s]]
  /\ pausedCall' = [pausedCall EXCEPT ![i] = mPauseInjector]
  /\ UNCHANGED <<format, sourceVars, positionVars, sourceLock, left, status,
                 auxPaused, found, controlVars, sharedVars>>

LockSource(i) ==
  /\ At(i, "lock", "test")
  /\ sourceLock[stream[i]] = NOBODY
  /\ sourceLock' = [sourceLock EXCEPT ![stream[i]] = i]
  /\ UNCHANGED <<format, sourceVars, positionVars, callVars, controlVars, sharedVars>>

\* A stream without source is waited for only if it has a format.
NeedsWait(s) == ~sourceConfigured[s] /\ format[s]

TestSource(i) ==
  /\ At(i, "test", IF NeedsWait(stream[i]) THEN "wait" ELSE "events")
  /\ left' = [left EXCEPT ![i] = IF NeedsWait(stream[i]) THEN MaxWaits ELSE 0]
  /\ found' = [found EXCEPT ![i] = sourceConfigured[stream[i]]]
  /\ UNCHANGED <<format, sourceVars, positionVars, sourceLock, stream, first,
                 status, auxPaused, pausedCall, controlVars, sharedVars>>

\* One round of WaitForSourceSetup: the wait ends, by its time limit or a
\* notification, once mSourceSetupMutex is free.
WaitRound(i, s, there) ==
  /\ pc[i] \in Waiting
  /\ ~setupHeld
  /\ LET ready == ~mPauseInjector /\ sourceConfigured[s]
         over == mPauseInjector \/ ready \/ left[i] = 0
     IN /\ pc' = [pc EXCEPT ![i] = IF over THEN there ELSE @]
        /\ status' = [status EXCEPT ![i] = ready]
        /\ left' = [left EXCEPT ![i] = IF over THEN 0 ELSE @ - 1]
        /\ found' = [found EXCEPT ![i] = @ \/ (ready /\ s = stream[i])]
  /\ UNCHANGED <<format, sourceVars, positionVars, sourceLock, stream, first,
                 auxPaused, pausedCall, controlVars, sharedVars>>

WaitForSourceSetup(i) ==
  \/ pc[i] = "wait" /\ WaitRound(i, stream[i], "decide")
  \/ pc[i] = "auxWait" /\ WaitRound(i, AUX_AUDIO, "auxDecide")

\* Lines 2907-2911.
Decide(i) ==
  /\ At(i, "decide", IF mPauseInjector \/ ~status[i] THEN "unlock" ELSE "events")
  /\ UNCHANGED <<format, sourceVars, positionVars, sourceLock, callVars,
                 controlVars, sharedVars>>

ForwardAudioBuffersToAux == forwardAudio /\ format[AUX_AUDIO]

\* The streams of SendGstEvents for a first buffer: also the auxiliary audio, if
\* it gets what the audio stream gets.
EventStreams(i) ==
  IF ~first[i] THEN {}
  ELSE {stream[i]} \union
       (IF stream[i] = AUDIO /\ ForwardAudioBuffersToAux THEN {AUX_AUDIO} ELSE {})

SendGstEvents(i) ==
  /\ At(i, "events", "gate")
  /\ resetPosition' = [s \in Streams |-> resetPosition[s] /\ s \notin EventStreams(i)]
  /\ eventsSent' = [s \in Streams |->
                      eventsSent[s] \/ (s \in EventStreams(i) /\ source[s])]
  /\ UNCHANGED <<format, sourceVars, sourceLock, callVars, controlVars, sharedVars>>

\* Faulty variant: the pause is not looked at again after the wait.
Gate_Open(i) ==
  /\ \/ At(i, "gate", "forward")
     \/ At(i, "gate", "unlock")
  /\ UNCHANGED <<format, sourceVars, positionVars, sourceLock, callVars,
                 controlVars, sharedVars>>

\* Line 2936; a buffer that cannot be allocated is not pushed either.
Gate(i) ==
  /\ \/ ~mPauseInjector /\ At(i, "gate", "forward")
     \/ At(i, "gate", "unlock")
  /\ UNCHANGED <<format, sourceVars, positionVars, sourceLock, callVars,
                 controlVars, sharedVars>>

\* Lines 3002-3005 and the begin of ForwardBuffersToAuxPipeline, which looks at
\* the auxiliary stream under the lock of the audio stream.
Forward(i) ==
  /\ At(i, "forward",
        IF ~(stream[i] = AUDIO /\ ForwardAudioBuffersToAux) THEN "push"
        ELSE IF NeedsWait(AUX_AUDIO) THEN "auxWait" ELSE "auxPush")
  /\ auxPaused' = [auxPaused EXCEPT ![i] = mPauseInjector /\ NeedsWait(AUX_AUDIO)]
  /\ left' = [left EXCEPT ![i] =
                IF pc'[i] = "auxWait" THEN MaxWaits ELSE 0]
  /\ UNCHANGED <<format, sourceVars, positionVars, sourceLock, stream, first,
                 status, found, pausedCall, controlVars, sharedVars>>

\* Line 2837: a wait that failed ends the forwarding only of a caller that was
\* paused before it began.
AuxDecide(i) ==
  /\ At(i, "auxDecide", IF auxPaused[i] /\ ~status[i] THEN "push" ELSE "auxPush")
  /\ UNCHANGED <<format, sourceVars, positionVars, sourceLock, callVars,
                 controlVars, sharedVars>>

\* gst_app_src_push_buffer, to the auxiliary and to the stream's own source.
Push(i) ==
  /\ \/ At(i, "auxPush", "push")
     \/ At(i, "push", "unlock")
  /\ UNCHANGED <<format, sourceVars, positionVars, sourceLock, callVars,
                 controlVars, sharedVars>>

\* The locals of the call are gone.
UnlockSource(i) ==
  /\ At(i, "unlock", "idle")
  /\ sourceLock' = [sourceLock EXCEPT ![stream[i]] = NOBODY]
  /\ stream' = [stream EXCEPT ![i] = AUDIO]
  /\ first' = [first EXCEPT ![i] = FALSE]
  /\ status' = [status EXCEPT ![i] = FALSE]
  /\ auxPaused' = [auxPaused EXCEPT ![i] = FALSE]
  /\ found' = [found EXCEPT ![i] = FALSE]
  /\ pausedCall' = [pausedCall EXCEPT ![i] = FALSE]
  /\ UNCHANGED <<format, sourceVars, positionVars, left, controlVars, sharedVars>>

SendHelper(i) ==
  \/ TestSource(i) \/ WaitForSourceSetup(i) \/ Decide(i)
  \/ SendGstEvents(i) \/ Gate(i) \/ Forward(i) \/ AuxDecide(i) \/ Push(i)
  \/ UnlockSource(i)

PauseInjector ==
  /\ ~setupHeld /\ mPauseInjector' = TRUE
  /\ UNCHANGED <<format, sourceVars, positionVars, sourceLock, injectorVars,
                 controlVars, setupHeld, forwardAudio, during>>

\* The notification is a wake-up that WaitRound may have at any time.
ResumeInjector ==
  /\ ~setupHeld /\ mPauseInjector' = FALSE
  /\ pausedCall' = [i \in Injectors |-> FALSE]
  /\ UNCHANGED <<format, sourceVars, positionVars, sourceLock, pc, stream, first,
                 left, status, auxPaused, found, controlVars, setupHeld,
                 forwardAudio, during>>

-----------------------------------------------------------------------------
(* GStreamer has made the source of a sinkbin: gst_found_source stores it,  *)
(* gstInitializeSource connects its signals and marks it configured.  A     *)
(* change of the sinkbin to NULL waits for it, and nobody looks at the      *)
(* source before it is marked.                                              *)

FoundSource(s) ==
  /\ sinkbin[s] /\ connected[s] /\ ~source[s]
  /\ source' = [source EXCEPT ![s] = TRUE]
  /\ sourceConfigured' = [sourceConfigured EXCEPT ![s] = TRUE]
  /\ eventsSent' = [eventsSent EXCEPT ![s] = FALSE]
  /\ UNCHANGED <<format, sinkbin, connected, resetPosition, sourceLock,
                 injectorVars, controlVars, sharedVars>>

-----------------------------------------------------------------------------
(* The controlling thread.                                                 *)

Begin(o) ==
  /\ op = "none" /\ op' = o
  /\ o \in during \/ o = "flush" \/ \A i \in Injectors : pc[i] = "idle"
  /\ UNCHANGED <<format, sinkbin, source, sourceConfigured,
                 positionVars, sourceLock, injectorVars, mPauseInjector, during, at>>

\* The begin of ConfigurePipeline.  The streams to configure are those whose
\* format becomes another valid one; esChange forces the audio stream.  Where
\* trick play needs it, the streams other than video are torn down.
ConfigureBegins(new, forward, esChange, trick) ==
  /\ Begin("configure")
  /\ forward => new[AUX_AUDIO] = new[AUDIO]
  /\ forwardAudio' = forward
  /\ target' = new
  /\ resets' = Streams
  /\ drop' = IF trick THEN Streams \ {VIDEO} ELSE {}
  /\ todo' = {s \in Streams :
                /\ new[s]
                /\ IF trick THEN s = VIDEO \/ (esChange /\ s = AUDIO)
                   ELSE ~format[s] \/ (esChange /\ s = AUDIO)}
  /\ UNCHANGED <<connected, setupHeld>>

FlushBegins ==
  /\ Begin("flush")
  /\ \E s \in Streams : sinkbin[s]
  /\ resets' = Streams
  /\ UNCHANGED <<drop, todo, target, connected, setupHeld, forwardAudio>>

\* Stop keeps mSourceSetupMutex to its end, and disconnects the signals.
StopBegins ==
  /\ Begin("stop")
  /\ setupHeld' = TRUE
  /\ connected' = None
  /\ todo' = Streams
  /\ UNCHANGED <<resets, drop, target, forwardAudio>>

\* The stream that a loop over the tracks is at.
First(S) == CHOOSE s \in S : \A t \in S : s <= t
Current == First(IF resets # {} THEN resets ELSE todo)

\* What the loop does first with its stream: lines 360-372, 417 and 1448.
TearsDown ==
  /\ op # "none" /\ at = "next"
  /\ IF resets # {} THEN Current \in drop ELSE todo # {}

\* Faulty variant: the loop of Stop does not go on to the next stream.
AfterTearDown_Repeats ==
  CASE resets # {} -> at' = "next" /\ drop' = drop \ {Current} /\ UNCHANGED todo
    [] resets = {} /\ op = "configure" -> at' = "format" /\ UNCHANGED <<drop, todo>>
    [] OTHER -> at' = "next" /\ UNCHANGED <<drop, todo>>

\* After TearDownStream: the reset of the first loop, the new format of the
\* second, the next stream of Stop.
AfterTearDown ==
  CASE resets # {} -> at' = "next" /\ drop' = drop \ {Current} /\ UNCHANGED todo
    [] resets = {} /\ op = "configure" -> at' = "format" /\ UNCHANGED <<drop, todo>>
    [] OTHER -> at' = "next" /\ todo' = todo \ {Current} /\ UNCHANGED drop

ControlRest == UNCHANGED <<op, resets, target, injectorVars, sharedVars>>

\* TearDownStream of a stream without format clears nothing.
TearDownNothing ==
  /\ TearsDown
  /\ ~format[Current]
  /\ AfterTearDown /\ ControlRest
  /\ UNCHANGED <<format, sourceVars, positionVars, sourceLock>>

\* Faulty variant: the stream is torn down without its lock.
TearDownLocks_Unlocked ==
  /\ TearsDown
  /\ format[Current]
  /\ at' = "clear" /\ ControlRest
  /\ UNCHANGED <<format, sourceVars, positionVars, sourceLock, drop, todo>>

TearDownLocks ==
  /\ TearsDown
  /\ format[Current]
  /\ sourceLock[Current] = NOBODY
  /\ sourceLock' = [sourceLock EXCEPT ![Current] = CONTROL]
  /\ at' = "clear" /\ ControlRest
  /\ UNCHANGED <<format, sourceVars, positionVars, drop, todo>>

\* Lines 1312-1339.
TearDownClears ==
  /\ at = "clear"
  /\ at' = "unlock"
  /\ format' = [format EXCEPT ![Current] = FALSE]
  /\ sinkbin' = [sinkbin EXCEPT ![Current] = FALSE]
  /\ connected' = [connected EXCEPT ![Current] = FALSE]
  /\ source' = [source EXCEPT ![Current] = FALSE]
  /\ ControlRest
  /\ UNCHANGED <<sourceConfigured, positionVars, sourceLock, drop, todo>>

TearDownUnlocks ==
  /\ at = "unlock"
  /\ sourceConfigured' = [sourceConfigured EXCEPT ![Current] = FALSE]
  /\ sourceLock' = [sourceLock EXCEPT ![Current] = NOBODY]
  /\ AfterTearDown /\ ControlRest
  /\ UNCHANGED <<format, sinkbin, connected, source, positionVars>>

TearDownStream ==
  TearDownNothing \/ TearDownLocks \/ TearDownClears \/ TearDownUnlocks

\* Line 418, without the lock.
SetFormat ==
  /\ at = "format"
  /\ at' = "setup"
  /\ format' = [format EXCEPT ![Current] = target[Current]]
  /\ ControlRest
  /\ UNCHANGED <<sourceVars, positionVars, sourceLock, drop, todo>>

SetupStream ==
  /\ at = "setup"
  /\ at' = "next"
  /\ sinkbin' = [sinkbin EXCEPT ![Current] = TRUE]
  /\ connected' = [connected EXCEPT ![Current] = TRUE]
  /\ todo' = todo \ {Current}
  /\ ControlRest
  /\ UNCHANGED <<format, source, sourceConfigured, positionVars,
                 sourceLock, drop>>

\* Faulty variant: the position of a stream is left as it is.
ResetStream_KeepsPosition ==
  /\ at = "next" /\ resets # {} /\ Current \notin drop
  /\ resets' = resets \ {Current}
  /\ UNCHANGED <<format, sourceVars, positionVars, sourceLock, op, at, drop, todo,
                 target, injectorVars, sharedVars>>

\* Lines 380-382, and ResetGstEvents for Flush.
ResetStream ==
  /\ at = "next" /\ resets # {} /\ Current \notin drop
  /\ resets' = resets \ {Current}
  /\ resetPosition' = [resetPosition EXCEPT ![Current] = TRUE]
  /\ UNCHANGED <<format, sourceVars, eventsSent, sourceLock, op, at, drop, todo,
                 target, injectorVars, sharedVars>>

ControlEnds ==
  /\ op # "none" /\ at = "next" /\ resets = {} /\ todo = {}
  /\ op' = "none"
  /\ setupHeld' = FALSE
  /\ target' = None
  /\ UNCHANGED <<format, sourceVars, positionVars, sourceLock, injectorVars, at,
                 resets, drop, todo, mPauseInjector, forwardAudio, during>>

ControlGoes ==
  TearDownStream \/ SetFormat \/ SetupStream \/ ResetStream \/ ControlEnds

-----------------------------------------------------------------------------
Next ==
  \/ \E i \in Injectors :
       (\E s \in Streams \ {AUX_AUDIO} : Call(i, s)) \/ LockSource(i) \/ SendHelper(i)
  \/ PauseInjector \/ ResumeInjector
  \/ \E s \in Streams : FoundSource(s)
  \/ \E new \in Flags, forward, esChange, trick \in BOOLEAN :
       ConfigureBegins(new, forward, esChange, trick)
  \/ FlushBegins \/ StopBegins \/ ControlGoes

Spec == Init /\ [][Next]_vars

\* Threads run; a mutex that is free again and again is given to who asks for it.
Fairness ==
  /\ \A i \in Injectors : WF_vars(SendHelper(i)) /\ SF_vars(LockSource(i))
  /\ WF_vars(ControlGoes) /\ SF_vars(TearDownLocks)

FairSpec == Spec /\ Fairness

-----------------------------------------------------------------------------
(* Lines 2901-3096: a source that SendHelper found configured under its     *)
(* lock is still the stream's source, and configured, when the buffer is    *)
(* pushed, however long the call waited and whatever the pipeline is made to*)
(* do meanwhile.                                                            *)
ConfiguredUntilPushed ==
  \A i \in Injectors : pc[i] = "push" /\ found[i] =>
    source[stream[i]] /\ sourceConfigured[stream[i]]

(* Lines 2936 and 3112: a call made after PauseInjector returned, and not   *)
(* resumed since, pushes nothing, neither to its own nor to the auxiliary   *)
(* source, also when it waits for the source first.                         *)
PausedCallsPushNothing ==
  \A i \in Injectors : pausedCall[i] => pc[i] \notin {"forward", "auxPush", "push"}

\* What is pushed finds its source configured, and was not paused.
PushesAsAllowed == ConfiguredUntilPushed /\ PausedCallsPushNothing

(* Lines 380 and 2402: if the application does not inject while it          *)
(* configures or stops the pipeline, no source gets data before its segment *)
(* and protection events, also after calls that failed or were paused.      *)
EventsBeforeData ==
  during = {} => \A i \in Injectors : pc[i] = "push" => eventsSent[stream[i]]

(* Lines 2791-2816: every call of an injector returns, and so does every    *)
(* operation on the pipeline, although injectors take the locks of the      *)
(* streams again and again.                                                 *)
EveryCallReturns ==
  /\ \A i \in Injectors : pc[i] # "idle" ~> pc[i] = "idle"
  /\ op # "none" ~> op = "none"

(* Lines 1364-1365: Stop, which is meant to avoid lockups, returns.        *)
StopReturns == op = "stop" ~> op = "none"
=============================================================================
