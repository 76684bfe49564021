---------------------------- MODULE PlayerPipeline ----------------------------
(***************************************************************************)
(* InterfacePlayerRDK.cpp: the state the pipeline is asked for, buffering   *)
(* before playback starts, and the end of stream that an underflow reveals. *)
(* Five kinds of threads are involved: the application (ConfigurePipeline,  *)
(* Pause, Flush, Stop), an injector (EndOfStreamReached), the decoders      *)
(* (underflow), the thread that reports ASYNC_DONE to bus_sync_handler, and *)
(* the GLib main loop, which runs the timers and bus_message one at a time. *)
(*                                                                         *)
(* The GStreamer pipeline is external: a state it was asked for, and        *)
(* whether it is waiting for data to complete a change (prerolling).        *)
(* Left out: the streams' elements, seek positions, and trick play.         *)
(***************************************************************************)
EXTENDS Naturals, FiniteSets

CONSTANTS
  Decoders,     \* that signal underflow: of video and of audio
  MaxCount,     \* DEFAULT_BUFFERING_MAX_CNT
  MaxPts,       \* bound: the video PTS
  MaxOps        \* bound: operations of the application in one behaviour

ASSUME PipelineAssumption ==
  MaxCount \in Nat /\ MaxPts \in Nat /\ MaxOps \in Nat /\ IsFiniteSet(Decoders)

VARIABLES
  media,        \* eGST_MEDIAFORMAT_DASH, or HLS with transport streams
  buffersFirst, \* gstreamerBufferingBeforePlay, and so buffering_enabled
  pipeline,     \* exists
  target, prerolling, asyncDone,   \* the external pipeline
  buffering_in_progress, buffering_target_state, buffering_timeout_cnt,
  liveTimers,   \* live buffering timers
  bufferingTimeoutTimerId,
  paused, pendingPlayState,
  eosReached,   \* of the video stream
  firstBufferProcessed,
  bufferUnderrun,
  lastKnownPTS, pts,
  ptsTimers,    \* live timers of VideoDecoderPtsCheckerForEOS
  ptsCheckForEosOnUnderflowIdleTaskId,
  eosNotified,
  caller, wish, \* where the application is, the state it wants
  ops,          \* operations it called
  injector, reporter, decoder,   \* where they are
  loop, loopTarget,              \* where the main loop is, the state it read
  seekFailed,   \* history: a seek failed since the pipeline was configured
  raced,        \* history: Pause overlapped another decision about the state
  armedPts,     \* history: the PTS at the last underflow at the end of stream
  ptsChecked    \* history: IsCacheEmpty looked at the PTS since

gstVars == <<pipeline, target, prerolling, asyncDone>>
bufferingVars == <<buffering_in_progress, buffering_target_state, buffering_timeout_cnt>>
tickVars == <<liveTimers, bufferingTimeoutTimerId>>
playVars == <<paused, pendingPlayState>>
streamVars == <<eosReached, firstBufferProcessed, bufferUnderrun>>
ptsTimerVars == <<ptsTimers, ptsCheckForEosOnUnderflowIdleTaskId>>
ptsVars == <<lastKnownPTS, pts, armedPts, ptsChecked>>
configVars == <<media, buffersFirst>>
appVars == <<caller, wish, ops>>
loopVars == <<loop, loopTarget>>
pipelineVars == <<configVars, gstVars, bufferingVars, tickVars, playVars,
                  streamVars, ptsTimerVars, ptsVars, eosNotified, appVars,
                  injector, reporter, decoder, loopVars, seekFailed, raced>>

NO_SOURCE_ID == 0
States == {"NULL", "PAUSED", "PLAYING"}
Ids == 1..3

PipelineTypeOK ==
  /\ media \in {"dash", "hls"}
  /\ target \in States /\ buffering_target_state \in States
  /\ buffering_timeout_cnt \in 0..MaxCount
  /\ liveTimers \subseteq Ids /\ bufferingTimeoutTimerId \in Ids \union {NO_SOURCE_ID}
  /\ ptsTimers \subseteq Ids
  /\ ptsCheckForEosOnUnderflowIdleTaskId \in Ids \union {NO_SOURCE_ID}
  /\ {buffersFirst, pipeline, prerolling, asyncDone, buffering_in_progress, paused,
      pendingPlayState, eosReached, firstBufferProcessed, bufferUnderrun,
      eosNotified, seekFailed, raced, ptsChecked} \subseteq BOOLEAN
  /\ {lastKnownPTS, pts, armedPts} \subseteq 0..MaxPts
  /\ caller \in {"idle", "configure", "setState", "pause", "pauseEnds",
              "flush", "stop"}
  /\ wish \in {"PAUSED", "PLAYING", "buffer"}
  /\ ops \in 0..MaxOps
  /\ injector \in {"idle", "play"}
  /\ reporter \in {"idle", "add"}
  /\ decoder \in [Decoders -> {"idle", "arm"}]
  /\ loop \in {"idle", "set", "finish", "ptsClear"} /\ loopTarget \in States

PipelineInit ==
  /\ media \in {"dash", "hls"} /\ buffersFirst \in BOOLEAN
  /\ pipeline = FALSE /\ target = "NULL" /\ prerolling = FALSE /\ asyncDone = FALSE
  /\ buffering_in_progress = FALSE /\ buffering_target_state = "NULL"
  /\ buffering_timeout_cnt = 0
  /\ liveTimers = {} /\ bufferingTimeoutTimerId = NO_SOURCE_ID
  /\ paused = FALSE /\ pendingPlayState = FALSE
  /\ eosReached = FALSE /\ firstBufferProcessed = FALSE /\ bufferUnderrun = FALSE
  /\ lastKnownPTS = 0 /\ pts = 0
  /\ ptsTimers = {} /\ ptsCheckForEosOnUnderflowIdleTaskId = NO_SOURCE_ID
  /\ eosNotified = FALSE
  /\ caller = "idle" /\ wish = "PLAYING" /\ ops = 0
  /\ injector = "idle" /\ reporter = "idle" /\ decoder = [d \in Decoders |-> "idle"]
  /\ loop = "idle" /\ loopTarget = "NULL"
  /\ seekFailed = FALSE /\ raced = FALSE /\ armedPts = 0 /\ ptsChecked = FALSE

\* SetStateWithWarnings.  A change that has to wait for data goes on.
SetState(s) == target' = s

\* g_timeout_add gives an id that is not in use.
FreshId(live, id) == CHOOSE n \in Ids : n \notin live /\ n # id

-----------------------------------------------------------------------------
(* The application.                                                        *)

PlayGoes(from, to) == caller = from /\ caller' = to

Calls(to) ==
  /\ PlayGoes("idle", to)
  /\ ops < MaxOps /\ ops' = ops + 1

\* Two threads decide about the state of the pipeline at the same time.
AppDecides == caller \in {"configure", "setState", "pause", "pauseEnds"}
Deciding == loop \in {"set", "finish"} \/ injector = "play"

\* ConfigurePipeline makes the pipeline, or tears streams down; both end
\* buffering.  It is called with other formats or after Flush: in either case
\* the pipeline waits for data then.
ConfigureBegins ==
  /\ Calls("configure")
  /\ pipeline' = TRUE
  /\ prerolling' = TRUE
  /\ buffering_in_progress' = FALSE
  /\ IF pipeline THEN UNCHANGED <<buffering_target_state, buffering_timeout_cnt>>
     ELSE /\ buffering_target_state' = "NULL"
          /\ buffering_timeout_cnt' = MaxCount
  /\ eosReached' = FALSE /\ firstBufferProcessed' = FALSE /\ bufferUnderrun' = FALSE
  /\ seekFailed' = FALSE
  /\ raced' = (raced \/ Deciding)
  /\ UNCHANGED <<configVars, target, asyncDone, tickVars, playVars, ptsTimerVars,
                 ptsVars, eosNotified, wish, injector, reporter, decoder, loopVars>>

\* Lines 456-490 up to the change of state; onStart is pauseOnStartPlayback.
ConfigureDecides(onStart) ==
  /\ PlayGoes("configure", "setState")
  /\ wish' = IF onStart THEN "PAUSED" ELSE IF buffersFirst THEN "buffer" ELSE "PLAYING"
  /\ IF wish' = "PAUSED" THEN paused' = TRUE /\ pendingPlayState' = FALSE
     ELSE UNCHANGED playVars
  /\ IF wish' = "buffer"
     THEN /\ buffering_target_state' = "PLAYING"
          /\ buffering_in_progress' = TRUE
          /\ buffering_timeout_cnt' = MaxCount
     ELSE UNCHANGED bufferingVars
  /\ raced' = (raced \/ Deciding)
  /\ UNCHANGED <<configVars, gstVars, tickVars, streamVars, ptsTimerVars, ptsVars,
                 eosNotified, ops, injector, reporter, decoder, loopVars, seekFailed>>

ConfigureEnds ==
  /\ PlayGoes("setState", "idle")
  /\ SetState(IF wish = "PLAYING" THEN "PLAYING" ELSE "PAUSED")
  /\ IF wish = "PAUSED" THEN UNCHANGED playVars
     ELSE paused' = FALSE /\ pendingPlayState' = FALSE
  /\ eosNotified' = FALSE
  /\ wish' = "PLAYING"
  /\ raced' = (raced \/ Deciding)
  /\ UNCHANGED <<configVars, pipeline, prerolling, asyncDone, bufferingVars, tickVars,
                 streamVars, ptsTimerVars, ptsVars, ops, injector, reporter, decoder,
                 loopVars, seekFailed>>

Pause(p) ==
  /\ Calls("pause")
  /\ pipeline
  /\ wish' = IF p THEN "PAUSED" ELSE "PLAYING"
  /\ buffering_target_state' = wish'
  /\ raced' = (raced \/ Deciding)
  /\ UNCHANGED <<configVars, gstVars, buffering_in_progress, buffering_timeout_cnt,
                 tickVars, playVars, streamVars, ptsTimerVars, ptsVars, eosNotified,
                 injector, reporter, decoder, loopVars, seekFailed>>

\* forceStopGstreamerPreBuffering ends buffering of a pipeline to pause.
PauseSets(force) ==
  /\ PlayGoes("pause", "pauseEnds")
  /\ force => wish = "PAUSED"
  /\ buffering_in_progress' = (buffering_in_progress /\ ~force)
  /\ SetState(wish)
  /\ UNCHANGED <<configVars, pipeline, prerolling, asyncDone, buffering_target_state,
                 buffering_timeout_cnt, tickVars, playVars, streamVars, ptsTimerVars,
                 ptsVars, eosNotified, wish, ops, injector, reporter, decoder, loopVars,
                 seekFailed, raced>>

\* After the wait for the state, which may fail: lines 3284-3286.
PauseEnds ==
  /\ PlayGoes("pauseEnds", "idle")
  /\ buffering_target_state' = wish
  /\ paused' = (wish = "PAUSED")
  /\ pendingPlayState' = FALSE
  /\ raced' = (raced \/ Deciding)
  /\ wish' = "PLAYING"
  /\ UNCHANGED <<configVars, gstVars, buffering_in_progress, buffering_timeout_cnt,
                 tickVars, streamVars, ptsTimerVars, ptsVars, eosNotified, ops,
                 injector, reporter, decoder, loopVars, seekFailed>>

\* Flush and Stop remove the timers whose ids are recorded.
RemovesTimers ==
  /\ liveTimers' = liveTimers \ {bufferingTimeoutTimerId}
  /\ bufferingTimeoutTimerId' = NO_SOURCE_ID
  /\ ptsTimers' = ptsTimers \ {ptsCheckForEosOnUnderflowIdleTaskId}
  /\ ptsCheckForEosOnUnderflowIdleTaskId' = NO_SOURCE_ID

FlushBegins ==
  /\ Calls("flush")
  /\ RemovesTimers
  /\ bufferUnderrun' = FALSE
  /\ UNCHANGED <<configVars, gstVars, bufferingVars, playVars, eosReached,
                 firstBufferProcessed, ptsVars, eosNotified, wish, injector, reporter,
                 decoder, loopVars, seekFailed, raced>>

\* A pipeline that has not reached PAUSED is not flushed (lines 1566-1599);
\* another one is sought to the position, which makes it wait for data again.
FlushNothing ==
  /\ PlayGoes("flush", "idle")
  /\ ~pipeline \/ target = "NULL" \/ prerolling
  /\ UNCHANGED <<configVars, gstVars, bufferingVars, tickVars, playVars, streamVars,
                 ptsTimerVars, ptsVars, eosNotified, wish, ops, injector, reporter,
                 decoder, loopVars, seekFailed, raced>>

FlushSeeks(ok) ==
  /\ PlayGoes("flush", "idle")
  /\ pipeline /\ target # "NULL"
  /\ prerolling' = (prerolling \/ ok)
  /\ seekFailed' = (seekFailed \/ ~ok)
  /\ eosReached' = FALSE /\ firstBufferProcessed' = FALSE
  /\ eosNotified' = FALSE
  /\ UNCHANGED <<configVars, pipeline, target, asyncDone, bufferingVars, tickVars,
                 playVars, bufferUnderrun, ptsTimerVars, ptsVars, wish, ops, injector,
                 reporter, decoder, loopVars, raced>>

PipelineStopBegins ==
  /\ Calls("stop")
  /\ RemovesTimers
  /\ UNCHANGED <<configVars, gstVars, bufferingVars, playVars, streamVars, ptsVars,
                 eosNotified, wish, injector, reporter, decoder, loopVars, seekFailed,
                 raced>>

\* After bus_sync_handler was waited for: lines 1428-1460.
StopEnds ==
  /\ PlayGoes("stop", "idle")
  /\ reporter = "idle"
  /\ pipeline' = FALSE
  /\ SetState("NULL")
  /\ prerolling' = FALSE /\ asyncDone' = FALSE
  /\ buffering_in_progress' = (buffering_in_progress /\ ~pipeline)
  /\ eosReached' = FALSE /\ bufferUnderrun' = FALSE
  /\ lastKnownPTS' = 0
  /\ paused' = FALSE
  /\ UNCHANGED <<configVars, buffering_target_state, buffering_timeout_cnt, tickVars,
                 pendingPlayState, firstBufferProcessed, ptsTimerVars, pts, armedPts,
                 ptsChecked, eosNotified, wish, ops, injector, reporter, decoder,
                 loopVars, seekFailed, raced>>

\* The application asks for it while it is not paused.
EnablePendingPlayState ==
  /\ Calls("idle")
  /\ ~paused
  /\ pendingPlayState' = TRUE
  /\ UNCHANGED <<configVars, gstVars, bufferingVars, tickVars, paused, streamVars,
                 ptsTimerVars, ptsVars, eosNotified, wish, injector, reporter,
                 decoder, loopVars, seekFailed, raced>>

\* IsCacheEmpty of a source without bytes looks whether the PTS moves, and
\* remembers it if it did, unless an underflow was signalled.
IsCacheEmpty ==
  /\ caller = "idle"
  /\ pipeline /\ ~bufferUnderrun
  /\ pts # 0 /\ pts # lastKnownPTS
  /\ lastKnownPTS' = pts
  /\ ptsChecked' = TRUE
  /\ UNCHANGED <<configVars, gstVars, bufferingVars, tickVars, playVars, streamVars,
                 ptsTimerVars, pts, armedPts, eosNotified, appVars, injector, reporter,
                 decoder, loopVars, seekFailed, raced>>

Configuring == ConfigureEnds \/ \E onStart \in BOOLEAN : ConfigureDecides(onStart)
Pausing == PauseEnds \/ \E force \in BOOLEAN : PauseSets(force)
Flushing == FlushNothing \/ \E ok \in BOOLEAN : FlushSeeks(ok)
CallGoesOn == Configuring \/ Pausing \/ Flushing \/ StopEnds

-----------------------------------------------------------------------------
(* The injector.                                                           *)

\* SendHelper pushed a buffer.
Push ==
  /\ pipeline /\ injector = "idle" /\ ~eosReached
  /\ firstBufferProcessed' = TRUE
  /\ bufferUnderrun' = FALSE
  /\ UNCHANGED <<configVars, gstVars, bufferingVars, tickVars, playVars, eosReached,
                 ptsTimerVars, ptsVars, eosNotified, appVars, injector, reporter,
                 decoder, loopVars, seekFailed, raced>>

\* A stream that ends before its first buffer is at its end at once; otherwise
\* NotifyFragmentCachingComplete starts playback that waited for this.
EndOfStreamReached ==
  /\ pipeline /\ injector = "idle"
  /\ eosReached' = TRUE
  /\ IF ~firstBufferProcessed
     THEN eosNotified' = TRUE
          /\ UNCHANGED <<injector, buffering_target_state, raced>>
     ELSE /\ UNCHANGED eosNotified
          /\ IF pendingPlayState
             THEN /\ injector' = "play"
                  /\ buffering_target_state' = "PLAYING"
                  /\ raced' = (raced \/ AppDecides)
             ELSE UNCHANGED <<injector, buffering_target_state, raced>>
  /\ UNCHANGED <<configVars, gstVars, buffering_in_progress, buffering_timeout_cnt,
                 tickVars, playVars, firstBufferProcessed, bufferUnderrun,
                 ptsTimerVars, ptsVars, appVars, reporter, decoder, loopVars, seekFailed>>

NotifyFragmentCachingComplete ==
  /\ injector = "play" /\ injector' = "idle"
  /\ IF pipeline THEN SetState("PLAYING") ELSE UNCHANGED target
  /\ pendingPlayState' = FALSE
  /\ UNCHANGED <<configVars, pipeline, prerolling, asyncDone, bufferingVars, tickVars,
                 paused, streamVars, ptsTimerVars, ptsVars, eosNotified, appVars,
                 reporter, decoder, loopVars, seekFailed, raced>>

-----------------------------------------------------------------------------
(* GStreamer, and bus_sync_handler in its thread.                          *)

\* The data has come: the pipeline reaches its state and reports ASYNC_DONE.
\* The application injects once it has configured the streams.
Preroll ==
  /\ caller \notin {"configure", "setState"}
  /\ pipeline /\ prerolling /\ target # "NULL"
  /\ prerolling' = FALSE
  /\ asyncDone' = TRUE
  /\ UNCHANGED <<configVars, pipeline, target, bufferingVars, tickVars, playVars,
                 streamVars, ptsTimerVars, ptsVars, eosNotified, appVars, injector,
                 reporter, decoder, loopVars, seekFailed, raced>>

\* syncControl is disabled from the begin of Stop.
AsyncDone ==
  /\ asyncDone /\ reporter = "idle"
  /\ asyncDone' = FALSE
  /\ reporter' = IF buffering_in_progress /\ caller # "stop" THEN "add" ELSE "idle"
  /\ UNCHANGED <<configVars, pipeline, target, prerolling, bufferingVars, tickVars,
                 playVars, streamVars, ptsTimerVars, ptsVars, eosNotified, appVars,
                 injector, decoder, loopVars, seekFailed, raced>>

AddsTimer ==
  /\ reporter = "add" /\ reporter' = "idle"
  /\ LET n == FreshId(liveTimers, bufferingTimeoutTimerId)
     IN /\ liveTimers' = liveTimers \union {n}
        /\ bufferingTimeoutTimerId' = n
  /\ UNCHANGED <<configVars, gstVars, bufferingVars, playVars, streamVars,
                 ptsTimerVars, ptsVars, eosNotified, appVars, injector, decoder,
                 loopVars, seekFailed, raced>>

PtsMoves ==
  /\ pipeline /\ target = "PLAYING" /\ ~prerolling /\ pts < MaxPts
  /\ pts' = pts + 1
  /\ UNCHANGED <<configVars, gstVars, bufferingVars, tickVars, playVars, streamVars,
                 ptsTimerVars, lastKnownPTS, armedPts, ptsChecked, eosNotified, appVars,
                 injector, reporter, decoder, loopVars, seekFailed, raced>>

\* GstPlayer_OnGstBufferUnderflowCb: at the end of the stream a check is due,
\* unless one is.
Underflow(d) ==
  /\ pipeline /\ target = "PLAYING" /\ decoder[d] = "idle"
  /\ bufferUnderrun' = TRUE
  /\ decoder' = [decoder EXCEPT ![d] =
       IF eosReached /\ ptsCheckForEosOnUnderflowIdleTaskId = NO_SOURCE_ID
       THEN "arm" ELSE "idle"]
  /\ UNCHANGED <<configVars, gstVars, bufferingVars, tickVars, playVars, eosReached,
                 firstBufferProcessed, ptsTimerVars, ptsVars, eosNotified, appVars,
                 injector, reporter, loopVars, seekFailed, raced>>

UnderflowArms(d) ==
  /\ decoder[d] = "arm"
  /\ decoder' = [decoder EXCEPT ![d] = "idle"]
  /\ lastKnownPTS' = pts /\ armedPts' = pts
  /\ ptsChecked' = FALSE
  /\ LET n == FreshId(ptsTimers, ptsCheckForEosOnUnderflowIdleTaskId)
     IN /\ ptsTimers' = ptsTimers \union {n}
        /\ ptsCheckForEosOnUnderflowIdleTaskId' = n
  /\ UNCHANGED <<configVars, gstVars, bufferingVars, tickVars, playVars, streamVars,
                 pts, eosNotified, appVars, injector, reporter, loopVars, seekFailed,
                 raced>>

-----------------------------------------------------------------------------
(* The main loop.                                                          *)

Loop(from, to) == loop = from /\ loop' = to

\* A timer whose callback returns false is gone.  It forgets the recorded id,
\* whichever timer that names.
TimerEnds(t) ==
  /\ liveTimers' = liveTimers \ {t}
  /\ bufferingTimeoutTimerId' = NO_SOURCE_ID

\* buffering_timeout: buffering is over already.
TimeoutIdle(t) ==
  /\ loop = "idle" /\ t \in liveTimers
  /\ ~buffering_in_progress
  /\ TimerEnds(t)
  /\ UNCHANGED <<configVars, gstVars, bufferingVars, playVars, streamVars,
                 ptsTimerVars, ptsVars, eosNotified, appVars, injector, reporter,
                 decoder, loopVars, seekFailed, raced>>

\* Lines 4501-4508: with HLS the application is to retune after the time limit.
TimeoutRetunes(t) ==
  /\ loop = "idle" /\ t \in liveTimers
  /\ buffering_in_progress /\ media = "hls" /\ buffering_timeout_cnt = 0
  /\ firstBufferProcessed
  /\ buffering_in_progress' = FALSE
  /\ TimerEnds(t)
  /\ UNCHANGED <<configVars, gstVars, buffering_target_state, buffering_timeout_cnt,
                 playVars, streamVars, ptsTimerVars, ptsVars, eosNotified, appVars,
                 injector, reporter, decoder, loopVars, seekFailed, raced>>

\* Not enough frames are queued.
TimeoutWaits(t) ==
  /\ loop = "idle" /\ t \in liveTimers
  /\ buffering_in_progress /\ buffering_timeout_cnt > 0
  /\ buffering_timeout_cnt' = buffering_timeout_cnt - 1
  /\ UNCHANGED <<configVars, gstVars, buffering_in_progress, buffering_target_state,
                 tickVars, playVars, streamVars, ptsTimerVars, ptsVars, eosNotified,
                 appVars, injector, reporter, decoder, loopVars, seekFailed, raced>>

\* Enough frames, or the end of the time limit: the target state is read.  The
\* count is not used after it wrapped.
TimeoutDecides(t, enough) ==
  /\ Loop("idle", "set") /\ t \in liveTimers
  /\ buffering_in_progress
  /\ enough \/ (buffering_timeout_cnt = 0 /\ ~(media = "hls" /\ firstBufferProcessed))
  /\ loopTarget' = buffering_target_state
  /\ raced' = (raced \/ AppDecides)
  /\ UNCHANGED <<configVars, gstVars, bufferingVars, tickVars, playVars, streamVars,
                 ptsTimerVars, ptsVars, eosNotified, appVars, injector, reporter,
                 decoder, seekFailed>>

\* Faulty variant: playback starts, whatever state is to be reached.
TimeoutSets_Plays ==
  /\ Loop("set", "finish")
  /\ IF pipeline THEN SetState("PLAYING") ELSE UNCHANGED target
  /\ UNCHANGED <<configVars, pipeline, prerolling, asyncDone, bufferingVars, tickVars,
                 playVars, streamVars, ptsTimerVars, ptsVars, eosNotified, appVars,
                 injector, reporter, decoder, loopTarget, seekFailed, raced>>

TimeoutSets ==
  /\ Loop("set", "finish")
  /\ IF pipeline THEN SetState(loopTarget) ELSE UNCHANGED target
  /\ UNCHANGED <<configVars, pipeline, prerolling, asyncDone, bufferingVars, tickVars,
                 playVars, streamVars, ptsTimerVars, ptsVars, eosNotified, appVars,
                 injector, reporter, decoder, loopTarget, seekFailed, raced>>

\* Faulty variant: buffering goes on when the timer is gone.
TimeoutFinishes_Buffering(t) ==
  /\ Loop("finish", "idle") /\ loopTarget' = "NULL"
  /\ t \in liveTimers \/ liveTimers = {}
  /\ TimerEnds(t)
  /\ UNCHANGED <<configVars, gstVars, bufferingVars, playVars, streamVars,
                 ptsTimerVars, ptsVars, eosNotified, appVars, injector, reporter,
                 decoder, seekFailed, raced>>

TimeoutFinishes(t) ==
  /\ Loop("finish", "idle") /\ loopTarget' = "NULL"
  /\ t \in liveTimers \/ liveTimers = {}
  /\ buffering_in_progress' = FALSE
  /\ TimerEnds(t)
  /\ UNCHANGED <<configVars, gstVars, buffering_target_state, buffering_timeout_cnt,
                 playVars, streamVars, ptsTimerVars, ptsVars, eosNotified, appVars,
                 injector, reporter, decoder, seekFailed, raced>>

buffering_timeout(t) ==
  \/ TimeoutIdle(t) \/ TimeoutRetunes(t) \/ TimeoutWaits(t)
  \/ \E enough \in BOOLEAN : TimeoutDecides(t, enough)
  \/ TimeoutFinishes(t)

\* Faulty variant: the end of stream is notified if the picture moves.
PtsCheck_Moved(t) ==
  /\ Loop("idle", "ptsClear") /\ t \in ptsTimers
  /\ eosNotified' = (eosNotified \/ pts # lastKnownPTS)
  /\ ptsTimers' = ptsTimers \ {t}
  /\ UNCHANGED <<configVars, gstVars, bufferingVars, tickVars, playVars, streamVars,
                 ptsCheckForEosOnUnderflowIdleTaskId, ptsVars, appVars, injector,
                 reporter, decoder, loopTarget, seekFailed, raced>>

\* VideoDecoderPtsCheckerForEOS; NotifyEOS does nothing when the end of stream
\* was signalled.
PtsCheck(t) ==
  /\ Loop("idle", "ptsClear") /\ t \in ptsTimers
  /\ eosNotified' = (eosNotified \/ pts = lastKnownPTS)
  /\ ptsTimers' = ptsTimers \ {t}
  /\ UNCHANGED <<configVars, gstVars, bufferingVars, tickVars, playVars, streamVars,
                 ptsCheckForEosOnUnderflowIdleTaskId, ptsVars, appVars, injector,
                 reporter, decoder, loopTarget, seekFailed, raced>>

PtsCheckEnds ==
  /\ Loop("ptsClear", "idle")
  /\ ptsCheckForEosOnUnderflowIdleTaskId' = NO_SOURCE_ID
  /\ UNCHANGED <<configVars, gstVars, bufferingVars, tickVars, playVars, streamVars,
                 ptsTimers, ptsVars, eosNotified, appVars, injector, reporter, decoder,
                 loopTarget, seekFailed, raced>>

\* bus_message: the clock is lost; a pipeline that is not DASH is paused and
\* played, whether it was paused or not.
ClockLost ==
  /\ loop = "idle" /\ pipeline /\ media # "dash" /\ target # "NULL"
  /\ caller # "stop"
  /\ SetState("PLAYING")
  /\ UNCHANGED <<configVars, pipeline, prerolling, asyncDone, bufferingVars, tickVars,
                 playVars, streamVars, ptsTimerVars, ptsVars, eosNotified, appVars,
                 injector, reporter, decoder, loopVars, seekFailed, raced>>

LoopGoes ==
  \/ \E t \in Ids : buffering_timeout(t) \/ PtsCheck(t)
  \/ TimeoutSets \/ PtsCheckEnds

-----------------------------------------------------------------------------
PipelineNext ==
  \/ ConfigureBegins \/ FlushBegins \/ PipelineStopBegins \/ EnablePendingPlayState
  \/ IsCacheEmpty \/ \E p \in BOOLEAN : Pause(p)
  \/ CallGoesOn
  \/ Push \/ EndOfStreamReached \/ NotifyFragmentCachingComplete
  \/ Preroll \/ AsyncDone \/ AddsTimer \/ PtsMoves
  \/ \E d \in Decoders : Underflow(d) \/ UnderflowArms(d)
  \/ LoopGoes \/ ClockLost

PipelineSpec == PipelineInit /\ [][PipelineNext]_pipelineVars

\* The data that the pipeline waits for comes, and every thread runs.
PipelineFairness ==
  /\ WF_pipelineVars(CallGoesOn) /\ WF_pipelineVars(NotifyFragmentCachingComplete)
  /\ WF_pipelineVars(Preroll) /\ WF_pipelineVars(AsyncDone)
  /\ WF_pipelineVars(AddsTimer)
  /\ \A d \in Decoders : WF_pipelineVars(UnderflowArms(d))
  /\ SF_pipelineVars(\E t \in Ids : buffering_timeout(t))
  /\ SF_pipelineVars(\E t \in Ids : PtsCheck(t))
  /\ WF_pipelineVars(TimeoutSets \/ PtsCheckEnds)

-----------------------------------------------------------------------------
(* Lines 467-480 and 4477-4536: buffering that was started comes to an end, *)
(* in time even if no frames arrive, also when Flush removes its timer: the *)
(* seek makes the pipeline report ASYNC_DONE again.  A seek that fails does *)
(* not.                                                                     *)
BufferingEnds == buffering_in_progress ~> (~buffering_in_progress \/ seekFailed)

(* Lines 3249-3294 against 4513 and 4905: a pipeline that the user paused   *)
(* stays paused, and one that is not paused and does not buffer plays, as   *)
(* long as no other decision about the state overlaps Pause.                *)
PlaybackAtRest == caller = "idle" /\ loop = "idle" /\ injector = "idle" /\ pipeline
RequestKept ==
  PlaybackAtRest /\ ~raced /\ media = "dash" =>
    /\ paused => target = "PAUSED"
    /\ ~paused /\ ~buffering_in_progress => target = "PLAYING"

PtsCheckNotifies ==
  \E t \in Ids : PtsCheck(t) /\ eosNotified' # eosNotified

(* InterfacePlayerPriv.h:223, "to ensure video PTS is not moving before      *)
(* notifying EOS on underflow": the check notifies the end of stream only if*)
(* the PTS is what it was at the underflow, unless IsCacheEmpty looked at it*)
(* in between.                                                              *)
PictureStandsAtEos ==
  [][PtsCheckNotifies => pts = armedPts \/ ptsChecked]_pipelineVars

(* Lines 3971-3979 and 3890: the check after an underflow at the end of the *)
(* stream notifies the end of stream, unless the picture moved on, or Flush *)
(* or Stop came in between.                                                 *)
UnderflowReachesEos ==
  /\ ptsCheckForEosOnUnderflowIdleTaskId \in ptsTimers ~>
       (eosNotified \/ pts # lastKnownPTS \/ caller \in {"flush", "stop"})
  /\ PictureStandsAtEos
=============================================================================
